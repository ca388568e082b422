--------------------------- MODULE EvaluationProofs ---------------------------
(***************************************************************************)
(* Proofs about Evaluation, for every choice of its constants: whatever    *)
(* the keywords apply, report, produce and call, and whatever they throw.  *)
(*                                                                         *)
(* An action moves one run, the innermost, and the state it evaluates on.  *)
(* Local collects what must hold of such a pair; LocalMove says that it is *)
(* enough to re-establish it, because StatesAreApart keeps every other run *)
(* off that state.  One lemma per action then gives the new pair.          *)
(***************************************************************************)
EXTENDS Evaluation, SequenceTheorems, FiniteSetTheorems, TLAPS

\* What keeps an accepting call clean.  The errors of the outermost application
\* are empty between its keywords for as long as it has not failed, so the mark
\* an accepting keyword falls back to is 0.
Threw(run) == run.thrown # ""
Clean(run, st) ==
  /\ run.acts = << >> /\ run.pc = "apply" => st.errors = << >>
  /\ run.acts = << >> /\ run.pc = "return" /\ run.ok => st.errors = << >>
  /\ run.pc = "done" /\ ~Threw(run) /\ run.ok => st.errors = << >>
  /\ run.pc = "throw" => Threw(run)
  /\ run.acts # << >> /\ run.acts[1].valid => run.acts[1].mark = 0
  /\ Len(run.acts) = 1 /\ run.pc = "keyword" /\ run.acts[1].valid => st.errors = << >>

Local(run, st) ==
  /\ RunShape(run)
  /\ StateShape(st)
  /\ Balanced(run, st)
  /\ Clean(run, st)

\* A run that is not the innermost waits for the answer to a call.
CallersWait == \A i \in DOMAIN runs : i < Len(runs) => runs[i].pc = "step"

IInv ==
  /\ TypeOK
  /\ StatesAreApart
  /\ CallersWait
  /\ \A i \in DOMAIN runs : Local(runs[i], heap[runs[i].st])
  /\ AcceptanceIsClean

-----------------------------------------------------------------------------
(* Lists.                                                                  *)

LEMMA Lists ==
  ASSUME NEW S, NEW s \in Seq(S)
  PROVE  IsSeq(s)
  BY DEF IsSeq

LEMMA EmptyList == IsSeq(<< >>) /\ Len(<< >>) = 0
  BY DEF IsSeq

LEMMA ListFacts ==
  ASSUME NEW s, IsSeq(s)
  PROVE  /\ Len(s) \in Nat
         /\ DOMAIN s = 1..Len(s)
         /\ s # << >> <=> Len(s) > 0
  BY DEF IsSeq

LEMMA AppendFacts ==
  ASSUME NEW s, IsSeq(s), NEW e
  PROVE  /\ IsSeq(Append(s, e))
         /\ Len(Append(s, e)) = Len(s) + 1
         /\ \A i \in 1..Len(s) : Append(s, e)[i] = s[i]
         /\ Append(s, e)[Len(s) + 1] = e
         /\ Append(s, e) # << >>
  <1> DEFINE S == {s[i] : i \in DOMAIN s} \union {e}
  <1>1. s \in Seq(S) /\ e \in S
    BY DEF IsSeq
  <1> HIDE DEF S
  <1>2. Append(s, e) \in Seq(S)
    BY <1>1
  <1>3. IsSeq(Append(s, e))
    BY <1>2, Lists
  <1>4. QED  BY <1>1, <1>3

LEMMA ButLastFacts ==
  ASSUME NEW s, IsSeq(s), s # << >>
  PROVE  /\ IsSeq(ButLast(s))
         /\ Len(ButLast(s)) = Len(s) - 1
         /\ \A i \in 1..(Len(s) - 1) : ButLast(s)[i] = s[i]
  <1> DEFINE S == {s[i] : i \in DOMAIN s}
             n == Len(s) - 1
  <1>1. n \in Nat /\ \A i \in 1..n : s[i] \in S
    BY ListFacts
  <1> HIDE DEF S, n
  <1>2. /\ SubSeq(s, 1, n) \in Seq(S)
        /\ Len(SubSeq(s, 1, n)) = IF 1 <= n THEN n - 1 + 1 ELSE 0
        /\ \A i \in 1..(n - 1 + 1) : SubSeq(s, 1, n)[i] = s[1 + i - 1]
    BY <1>1, SubSeqProperties
  <1>3. Len(SubSeq(s, 1, n)) = n
    BY <1>1, <1>2
  <1>4. \A i \in 1..n : SubSeq(s, 1, n)[i] = s[i]
    BY <1>1, <1>2
  <1>5. IsSeq(SubSeq(s, 1, n))
    BY <1>2, Lists
  <1>6. QED  BY <1>3, <1>4, <1>5 DEF n, ButLast

LEMMA ReplaceFacts ==
  ASSUME NEW s, IsSeq(s), NEW n \in DOMAIN s, NEW e
  PROVE  /\ IsSeq([s EXCEPT ![n] = e])
         /\ Len([s EXCEPT ![n] = e]) = Len(s)
  <1> DEFINE S == {s[i] : i \in DOMAIN s} \union {e}
             t == [s EXCEPT ![n] = e]
  <1>1. s \in Seq(S) /\ e \in S
    BY DEF IsSeq
  <1> HIDE DEF S
  <1>2. t \in Seq(S) /\ Len(t) = Len(s)
    BY <1>1
  <1>3. QED  BY <1>2, Lists

LEMMA JoinFacts ==
  ASSUME NEW s, IsSeq(s), NEW t, IsSeq(t)
  PROVE  /\ IsSeq(s \o t)
         /\ Len(s \o t) = Len(s) + Len(t)
  <1> DEFINE S == {s[i] : i \in DOMAIN s} \union {t[i] : i \in DOMAIN t}
  <1>1. s \in Seq(S) /\ t \in Seq(S)
    BY DEF IsSeq
  <1> HIDE DEF S
  <1>2. s \o t \in Seq(S) /\ Len(s \o t) = Len(s) + Len(t)
    BY <1>1
  <1>3. IsSeq(s \o t)
    BY <1>2, Lists
  <1>4. QED  BY <1>2, <1>3

LEMMA TailFacts ==
  ASSUME NEW s, IsSeq(s), s # << >>
  PROVE  /\ IsSeq(Tail(s))
         /\ 1 \in DOMAIN s
         /\ Head(s) = s[1]
         /\ \A i \in DOMAIN Tail(s) : i + 1 \in DOMAIN s /\ Tail(s)[i] = s[i + 1]
  <1> DEFINE S == {s[i] : i \in DOMAIN s}
  <1>1. s \in Seq(S)
    BY DEF IsSeq
  <1> HIDE DEF S
  <1>2. Tail(s) \in Seq(S)
    BY <1>1
  <1>3. IsSeq(Tail(s))
    BY <1>2, Lists
  <1>4. QED  BY <1>1, <1>3

-----------------------------------------------------------------------------
(* The applications of a run, and how many of them opened a resource.      *)

LEMMA PushedFacts ==
  ASSUME NEW acts, IsSeq(acts)
  PROVE  /\ IsFiniteSet(PushedIn(acts))
         /\ Cardinality(PushedIn(acts)) \in Nat
         /\ PushedIn(<< >>) = {}
         /\ Cardinality(PushedIn(<< >>)) = 0
  <1>1. Len(acts) \in Nat
    BY ListFacts
  <1>2. IsFiniteSet(1..Len(acts))
    BY <1>1, FS_Interval
  <1>3. IsFiniteSet(PushedIn(acts))
    BY <1>2, FS_Subset DEF PushedIn
  <1>4. PushedIn(<< >>) = {}
    BY EmptyList DEF PushedIn
  <1>5. QED  BY <1>3, <1>4, FS_CardinalityType, FS_EmptySet

LEMMA PushedAppend ==
  ASSUME NEW acts, IsSeq(acts), NEW act
  PROVE  Cardinality(PushedIn(Append(acts, act))) =
           Cardinality(PushedIn(acts)) + IF act.pushed THEN 1 ELSE 0
  <1> DEFINE n == Len(acts)
             more == Append(acts, act)
  <1>1. /\ n \in Nat
        /\ Len(more) = n + 1
        /\ \A i \in 1..n : more[i] = acts[i]
        /\ more[n + 1] = act
    BY ListFacts, AppendFacts
  <1>2. n + 1 \notin PushedIn(acts)
    BY <1>1 DEF PushedIn
  <1>3. CASE act.pushed
    <2>1. PushedIn(more) = PushedIn(acts) \union {n + 1}
      BY <1>1, <1>3 DEF PushedIn
    <2>2. QED  BY <1>2, <1>3, <2>1, PushedFacts, FS_AddElement
  <1>4. CASE ~act.pushed
    <2>1. PushedIn(more) = PushedIn(acts)
      BY <1>1, <1>4 DEF PushedIn
    <2>2. QED  BY <1>4, <2>1, PushedFacts
  <1>5. QED  BY <1>3, <1>4

LEMMA PushedButLast ==
  ASSUME NEW acts, IsSeq(acts), acts # << >>
  PROVE  Cardinality(PushedIn(acts)) =
           Cardinality(PushedIn(ButLast(acts))) + IF Top(acts).pushed THEN 1 ELSE 0
  <1> DEFINE n == Len(acts)
             less == ButLast(acts)
  <1>1. /\ n \in Nat /\ n > 0
        /\ IsSeq(less)
        /\ Len(less) = n - 1
        /\ \A i \in 1..(n - 1) : less[i] = acts[i]
    BY ListFacts, ButLastFacts
  <1>2. n \notin PushedIn(less)
    BY <1>1 DEF PushedIn
  <1>3. CASE acts[n].pushed
    <2>1. PushedIn(acts) = PushedIn(less) \union {n}
      BY <1>1, <1>3 DEF PushedIn
    <2>2. QED  BY <1>1, <1>2, <1>3, <2>1, PushedFacts, FS_AddElement DEF Top
  <1>4. CASE ~acts[n].pushed
    <2>1. PushedIn(acts) = PushedIn(less)
      BY <1>1, <1>4 DEF PushedIn
    <2>2. QED  BY <1>1, <1>4, <2>1, PushedFacts DEF Top
  <1>5. QED  BY <1>3, <1>4

\* Rewriting the innermost application keeps the rest.
LEMMA ReplaceTop ==
  ASSUME NEW acts, IsSeq(acts), acts # << >>, \A j \in DOMAIN acts : ActShape(acts[j]),
         NEW act, ActShape(act), act.pushed = Top(acts).pushed
  PROVE  LET t == Append(ButLast(acts), act)
         IN /\ IsSeq(t) /\ \A j \in DOMAIN t : ActShape(t[j])
            /\ t # << >>
            /\ Len(t) = Len(acts)
            /\ t[Len(acts)] = act
            /\ \A i \in 1..(Len(acts) - 1) : t[i] = acts[i]
            /\ PushedIn(t) = PushedIn(acts)
  <1> DEFINE n == Len(acts)
             less == ButLast(acts)
             t == Append(less, act)
  <1>1. /\ n \in Nat /\ n > 0 /\ DOMAIN acts = 1..n
        /\ IsSeq(less)
        /\ Len(less) = n - 1
        /\ \A i \in 1..(n - 1) : less[i] = acts[i]
    BY ListFacts, ButLastFacts
  <1> HIDE DEF less
  <1>2. /\ IsSeq(t) /\ t # << >>
        /\ Len(t) = Len(less) + 1
        /\ \A i \in 1..Len(less) : t[i] = less[i]
        /\ t[Len(less) + 1] = act
    BY <1>1, AppendFacts
  <1> HIDE DEF t
  <1>3. Len(t) = n /\ t[n] = act /\ \A i \in 1..(n - 1) : t[i] = acts[i]
    BY <1>1, <1>2
  <1>4. DOMAIN t = 1..n
    BY <1>2, <1>3, ListFacts
  <1>5. \A j \in DOMAIN t : ActShape(t[j])
    BY <1>1, <1>3, <1>4
  <1>6. PushedIn(t) = PushedIn(acts)
    BY <1>1, <1>3 DEF PushedIn, Top
  <1>7. QED  BY <1>2, <1>3, <1>5, <1>6 DEF t, less

-----------------------------------------------------------------------------
(* Moves of the innermost run.                                             *)

LEMMA Innermost ==
  ASSUME IInv, runs # << >>
  PROVE  /\ Len(runs) \in Nat /\ Len(runs) > 0
         /\ DOMAIN runs = 1..Len(runs)
         /\ Run = runs[Len(runs)]
         /\ Run.st \in StateIds
         /\ Local(Run, St)
  <1>1. IsSeq(runs)
    BY DEF IInv, TypeOK
  <1>2. Len(runs) \in Nat /\ Len(runs) > 0 /\ DOMAIN runs = 1..Len(runs)
    BY <1>1, ListFacts
  <1>3. Run = runs[Len(runs)]
    BY DEF Run, Top
  <1>4. Local(Run, St)
    BY <1>2, <1>3 DEF IInv, St
  <1>5. QED  BY <1>2, <1>3, <1>4 DEF Local, RunShape

LEMMA LocalMove ==
  ASSUME IInv, runs # << >>, NEW run, NEW st,
         run.st = Run.st, run.reuse = Run.reuse, Local(run, st),
         runs' = Continue(run),
         DOMAIN heap' = StateIds, heap'[Run.st] = st,
         \A s \in StateIds \ {Run.st} : heap'[s] = heap[s],
         UNCHANGED <<pooled, inUse, due, last>>
  PROVE  IInv'
  <1> DEFINE n == Len(runs)
  <1>1. /\ n \in Nat /\ n > 0
        /\ DOMAIN runs = 1..n
        /\ Run = runs[n]
        /\ Run.st \in StateIds
    BY Innermost
  <1>2. IsSeq(runs') /\ Len(runs') = n
    <2>1. IsSeq(runs) /\ n \in DOMAIN runs
      BY <1>1 DEF IInv, TypeOK
    <2>2. IsSeq([runs EXCEPT ![n] = run]) /\ Len([runs EXCEPT ![n] = run]) = Len(runs)
      BY <2>1, ReplaceFacts
    <2>3. QED  BY <2>2 DEF Continue
  <1>3. runs'[n] = run /\ \A i \in 1..(n - 1) : runs'[i] = runs[i]
    <2>1. runs' = [runs EXCEPT ![n] = run]
      BY DEF Continue
    <2> HIDE DEF n
    <2>2. n \in 1..n /\ \A i \in 1..(n - 1) : i \in 1..n /\ i # n
      BY ONLY <1>1
    <2>3. \A i \in DOMAIN runs : [runs EXCEPT ![n] = run][i] = IF i = n THEN run ELSE runs[i]
      OBVIOUS
    <2>4. QED  BY ONLY <1>1, <2>1, <2>2, <2>3
  <1>4. DOMAIN runs' = 1..n /\ runs' # << >>
    BY <1>1, <1>2, ListFacts
  <1>5. \A i \in 1..n : runs'[i].st = runs[i].st /\ runs'[i].reuse = runs[i].reuse
    BY <1>1, <1>3
  <1>6. \A i \in 1..(n - 1) : /\ runs[i].st \in StateIds \ {Run.st}
                              /\ Local(runs[i], heap[runs[i].st])
    <2>1. \A i \in 1..(n - 1) : runs[i].st # runs[n].st
      BY <1>1 DEF IInv, StatesAreApart
    <2>2. \A i \in 1..(n - 1) : RunShape(runs[i]) /\ Local(runs[i], heap[runs[i].st])
      BY <1>1 DEF IInv, TypeOK
    <2>3. QED  BY <1>1, <2>1, <2>2 DEF RunShape
  <1>7. \A i \in 1..n : Local(runs'[i], heap'[runs'[i].st])
    <2>1. \A i \in 1..(n - 1) : Local(runs'[i], heap'[runs'[i].st])
      BY <1>3, <1>6
    <2>2. Local(runs'[n], heap'[runs'[n].st])
      BY <1>3
    <2>3. QED  BY <1>1, <2>1, <2>2
  <1>8. \A s \in StateIds : StateShape(heap'[s])
    BY <1>1 DEF IInv, TypeOK, Local
  <1>9. TypeOK'
    <2>1. \A i \in DOMAIN runs' : RunShape(runs'[i])
      BY <1>4, <1>7 DEF Local
    <2>2. QED  BY <1>2, <1>8, <2>1 DEF IInv, TypeOK
  <1>10. StatesAreApart'
    BY <1>1, <1>4, <1>5 DEF IInv, StatesAreApart
  <1>11. CallersWait'
    BY <1>1, <1>2, <1>3, <1>4 DEF IInv, CallersWait
  <1>12. AcceptanceIsClean'
    BY DEF IInv, AcceptanceIsClean
  <1>13. QED  BY <1>4, <1>7, <1>9, <1>10, <1>11, <1>12 DEF IInv

\* The two forms in which the actions give the heap.
LEMMA SameHeap ==
  ASSUME IInv, runs # << >>, NEW run,
         run.st = Run.st, run.reuse = Run.reuse, Local(run, St),
         runs' = Continue(run), UNCHANGED <<heap, pooled, inUse, due, last>>
  PROVE  IInv'
  <1>1. DOMAIN heap' = StateIds /\ heap'[Run.st] = St
    BY DEF IInv, TypeOK, St
  <1>2. QED  BY <1>1, LocalMove

LEMMA StateMove ==
  ASSUME IInv, runs # << >>, NEW run, NEW st,
         run.st = Run.st, run.reuse = Run.reuse, Local(run, st),
         runs' = Continue(run), heap' = [heap EXCEPT ![Run.st] = st],
         UNCHANGED <<pooled, inUse, due, last>>
  PROVE  IInv'
  <1>1. DOMAIN heap = StateIds /\ Run.st \in StateIds
    BY Innermost DEF IInv, TypeOK
  <1>2. /\ DOMAIN heap' = StateIds
        /\ heap'[Run.st] = st
        /\ \A s \in StateIds \ {Run.st} : heap'[s] = heap[s]
    BY <1>1
  <1>3. QED  BY <1>2, LocalMove

-----------------------------------------------------------------------------
(* An application that ends before it begins.                              *)

LEMMA ThrowLocal ==
  ASSUME NEW run, NEW st, Local(run, st), NEW name, name # "",
         NEW after, after = [run EXCEPT !.pc = "throw", !.thrown = name]
  PROVE  Local(after, st) /\ after.st = run.st /\ after.reuse = run.reuse
  <1>1. /\ DOMAIN after = DOMAIN run
        /\ after.pc = "throw" /\ after.thrown = name
        /\ after.st = run.st /\ after.call = run.call /\ after.reuse = run.reuse
        /\ after.acts = run.acts
    BY DEF Local, RunShape
  <1>2. RunShape(after)
    BY <1>1 DEF Local, RunShape
  <1>3. Balanced(after, st)
    BY <1>1 DEF Local, Balanced
  <1>4. Threw(after)
    BY <1>1 DEF Threw
  <1>5. Clean(after, st)
    BY <1>1, <1>4 DEF Local, Clean
  <1>6. QED  BY <1>1, <1>2, <1>3, <1>5 DEF Local

\* A thrown error reaches the run and nothing else.
LEMMA Throwing ==
  ASSUME IInv, runs # << >>, NEW name, name # "", runs' = Continue(Throw(name)),
         UNCHANGED <<heap, pooled, inUse, due, last>>
  PROVE  IInv'
  <1>1. Local(Run, St)
    BY Innermost
  <1>2. Local(Throw(name), St) /\ Throw(name).st = Run.st /\ Throw(name).reuse = Run.reuse
    BY <1>1, ThrowLocal DEF Throw
  <1>3. QED  BY <1>2, SameHeap

LEMMA TooDeepKeeps == ASSUME IInv, TooDeep PROVE IInv'
  BY Throwing DEF TooDeep, Running, vars

LEMMA RefuseKeeps == ASSUME IInv, Refuse PROVE IInv'
  BY Throwing DEF Refuse, Admitted, Running

LEMMA AnswerLocal ==
  ASSUME NEW run, NEW st, Local(run, st), run.pc = "apply", NEW ok, NEW left,
         DOMAIN left = DOMAIN st,
         left.frames = st.frames, left.scope = st.scope,
         left.active = st.active, left.depth = st.depth,
         ok => left.errors = st.errors
  PROVE  Local([run EXCEPT !.pc = "return", !.ok = ok], left)
  <1> DEFINE after == [run EXCEPT !.pc = "return", !.ok = ok]
  <1>1. /\ DOMAIN after = DOMAIN run
        /\ after.pc = "return"
        /\ after.st = run.st /\ after.call = run.call /\ after.reuse = run.reuse
        /\ after.acts = run.acts
    BY DEF Local, RunShape
  <1>2. after.ok = ok
    BY DEF Local, RunShape
  <1> HIDE DEF after
  <1>3. RunShape(after) /\ StateShape(left)
    BY <1>1 DEF Local, RunShape, StateShape
  <1>4. Balanced(after, left)
    BY <1>1 DEF Local, Balanced
  <1>5. Clean(after, left)
    BY <1>1, <1>2 DEF Local, Clean
  <1>6. QED  BY <1>3, <1>4, <1>5 DEF Local, after

LEMMA ApplyBooleanKeeps == ASSUME IInv, ApplyBoolean PROVE IInv'
  <1>1. runs # << >> /\ Run.pc = "apply" /\ Local(Run, St)
    BY Innermost DEF ApplyBoolean, Admitted, Running, Run
  <1>2. UNCHANGED <<pooled, inUse, due, last>>
    BY DEF ApplyBoolean
  <1>3. CASE SchemaKind(Ask.to) = "true"
    <2> DEFINE after == [Run EXCEPT !.pc = "return", !.ok = TRUE]
    <2>1. heap' = heap /\ runs' = Continue(after)
      BY <1>3 DEF ApplyBoolean, Answer
    <2>2. after.st = Run.st /\ after.reuse = Run.reuse
      BY <1>1 DEF Local, RunShape
    <2>3. Local(after, St)
      BY <1>1, AnswerLocal
    <2> HIDE DEF after
    <2>4. QED  BY <1>1, <1>2, <2>1, <2>2, <2>3, SameHeap
  <1>4. CASE SchemaKind(Ask.to) # "true"
    <2> DEFINE after == [Run EXCEPT !.pc = "return", !.ok = FALSE]
               errors == Append(St.errors, ErrorOf("", Ask.to, Ask.at, Ask.path, << >>))
               left == [St EXCEPT !.errors = errors]
    <2>1. heap' = [heap EXCEPT ![Run.st] = left] /\ runs' = Continue(after)
      BY <1>4 DEF ApplyBoolean, Answer, St
    <2>2. after.st = Run.st /\ after.reuse = Run.reuse
      BY <1>1 DEF Local, RunShape
    <2> HIDE DEF errors
    <2>3. /\ DOMAIN left = DOMAIN St
          /\ left.frames = St.frames /\ left.scope = St.scope
          /\ left.active = St.active /\ left.depth = St.depth
      BY <1>1 DEF Local, StateShape
    <2>4. Local(after, left)
      BY <1>1, <2>3, AnswerLocal
    <2> HIDE DEF after, left
    <2>5. QED  BY <1>1, <1>2, <2>1, <2>2, <2>4, StateMove
  <1>5. QED  BY <1>3, <1>4

-----------------------------------------------------------------------------
(* The keywords of an open application.                                    *)

LEMMA TopFacts ==
  ASSUME NEW run, NEW st, Local(run, st), run.acts # << >>
  PROVE  /\ IsSeq(run.acts)
         /\ Len(run.acts) \in Nat /\ Len(run.acts) > 0
         /\ DOMAIN run.acts = 1..Len(run.acts)
         /\ ActShape(Top(run.acts))
         /\ Top(run.acts) = run.acts[Len(run.acts)]
  <1>1. IsSeq(run.acts) /\ \A j \in DOMAIN run.acts : ActShape(run.acts[j])
    BY DEF Local, RunShape
  <1>2. Len(run.acts) \in Nat /\ Len(run.acts) > 0 /\ DOMAIN run.acts = 1..Len(run.acts)
    BY <1>1, ListFacts
  <1>3. Top(run.acts) = run.acts[Len(run.acts)]
    BY DEF Top
  <1>4. QED  BY <1>1, <1>2, <1>3

\* What the innermost application must keep when it is rewritten, and the state
\* it is evaluated on.
LEMMA ActLocal ==
  ASSUME NEW run, NEW st, Local(run, st), run.acts # << >>,
         NEW act, ActShape(act), act.pushed = Top(run.acts).pushed,
         NEW after, DOMAIN after = DOMAIN run,
         after.st = run.st, after.call = run.call, after.reuse = run.reuse,
         after.acts = Append(ButLast(run.acts), act),
         after.pc \in {"keyword", "step"},
         NEW left, StateShape(left), Len(left.frames) = Len(st.frames),
         left.scope = st.scope, left.active = st.active, left.depth = st.depth,
         Len(run.acts) = 1 /\ act.valid => act.mark = 0,
         Len(run.acts) = 1 /\ act.valid /\ after.pc = "keyword" => left.errors = << >>
  PROVE  Local(after, left)
  <1> DEFINE n == Len(run.acts)
  <1>1. /\ IsSeq(run.acts) /\ n \in Nat /\ n > 0
        /\ DOMAIN run.acts = 1..n
        /\ \A j \in DOMAIN run.acts : ActShape(run.acts[j])
    BY TopFacts DEF Local, RunShape
  <1>2. /\ IsSeq(after.acts) /\ \A j \in DOMAIN after.acts : ActShape(after.acts[j])
        /\ after.acts # << >>
        /\ Len(after.acts) = n
        /\ after.acts[n] = act
        /\ \A i \in 1..(n - 1) : after.acts[i] = run.acts[i]
        /\ PushedIn(after.acts) = PushedIn(run.acts)
    <2>1. /\ IsSeq(run.acts) /\ run.acts # << >>
          /\ \A j \in DOMAIN run.acts : ActShape(run.acts[j])
      BY <1>1
    <2>2. ActShape(act) /\ act.pushed = Top(run.acts).pushed
          /\ after.acts = Append(ButLast(run.acts), act)
      OBVIOUS
    <2>3. QED  BY ONLY <2>1, <2>2, ReplaceTop DEF n
  <1>3. RunShape(after)
    <2>1. /\ DOMAIN run = {"st", "call", "reuse", "pc", "acts", "ok", "thrown", "ask"}
          /\ run.st \in StateIds /\ CallShape(run.call) /\ run.reuse \in BOOLEAN
      BY DEF Local, RunShape
    <2>2. /\ after.pc \in {"apply", "keyword", "step", "return", "throw", "done"}
          /\ after.pc # "done"
      OBVIOUS
    <2>3. QED  BY <1>2, <2>1, <2>2 DEF RunShape
  <1>4. Balanced(after, left)
    BY <1>2 DEF Local, Balanced
  <1>5. Clean(after, left)
    <2>1. CASE n = 1
      BY <1>2, <2>1 DEF Clean
    <2>2. CASE n # 1
      <3>0. 1 \in 1..(n - 1)
        <4>1. n \in Nat /\ n > 0
          BY <1>1
        <4> HIDE DEF n
        <4>2. QED  BY <2>2, <4>1
      <3>1. after.acts[1] = run.acts[1]
        BY <1>2, <3>0
      <3>2. run.acts[1].valid => run.acts[1].mark = 0
        BY DEF Local, Clean
      <3>3. QED  BY <1>2, <2>2, <3>1, <3>2 DEF Clean
    <2>3. QED  BY <2>1, <2>2
  <1>6. QED  BY <1>3, <1>4, <1>5 DEF Local

LEMMA WithActFacts ==
  ASSUME IInv, runs # << >>, NEW act
  PROVE  /\ DOMAIN WithAct(act) = DOMAIN Run
         /\ WithAct(act).acts = Append(ButLast(Run.acts), act)
         /\ WithAct(act).st = Run.st /\ WithAct(act).call = Run.call
         /\ WithAct(act).reuse = Run.reuse /\ WithAct(act).pc = Run.pc
  <1>1. DOMAIN Run = {"st", "call", "reuse", "pc", "acts", "ok", "thrown", "ask"}
    BY Innermost DEF Local, RunShape
  <1>2. QED  BY <1>1 DEF WithAct

LEMMA KeywordState ==
  ASSUME IInv, runs # << >>, Run.pc \in {"keyword", "step"}
  PROVE  /\ Local(Run, St) /\ Run.acts # << >>
         /\ ActShape(Act)
         /\ Act = Top(Run.acts)
         /\ Len(Run.acts) = 1 /\ Act.valid => Act.mark = 0
         /\ Len(Run.acts) = 1 /\ Act.valid /\ Run.pc = "keyword" => St.errors = << >>
  <1>1. Local(Run, St) /\ Run.acts # << >>
    BY Innermost DEF Local, RunShape
  <1>2. ActShape(Act) /\ Act = Top(Run.acts) /\ Act = Run.acts[Len(Run.acts)]
    BY <1>1, TopFacts DEF Act
  <1>3. QED  BY <1>1, <1>2 DEF Local, Clean

\* An annotation changes what the frame on top holds.
LEMMA AddNoteFacts ==
  ASSUME NEW st, StateShape(st), NEW k
  PROVE  /\ StateShape(AddNote(st, k))
         /\ Len(AddNote(st, k).frames) = Len(st.frames)
         /\ AddNote(st, k).scope = st.scope /\ AddNote(st, k).active = st.active
         /\ AddNote(st, k).depth = st.depth /\ AddNote(st, k).errors = st.errors
  <1> DEFINE left == AddNote(st, k)
  <1>1. /\ DOMAIN left = DOMAIN st
        /\ left.scope = st.scope /\ left.active = st.active
        /\ left.depth = st.depth /\ left.errors = st.errors
    BY DEF AddNote, StateShape
  <1>2. IsSeq(left.frames) /\ Len(left.frames) = Len(st.frames)
    <2>1. \E frame : left.frames = [st.frames EXCEPT ![Len(st.frames)] = frame]
      BY DEF AddNote, StateShape
    <2>2. PICK frame : left.frames = [st.frames EXCEPT ![Len(st.frames)] = frame]
      BY <2>1
    <2>3. CASE Len(st.frames) \in DOMAIN st.frames
      BY <2>2, <2>3, ReplaceFacts DEF StateShape
    <2>4. CASE Len(st.frames) \notin DOMAIN st.frames
      <3>1. st.frames = << >>
        BY <2>4, ListFacts DEF StateShape
      <3>2. left.frames = << >>
        BY <2>2, <3>1
      <3>3. QED  BY <3>1, <3>2, EmptyList
    <2>5. QED  BY <2>3, <2>4
  <1> HIDE DEF left
  <1>3. StateShape(left)
    BY <1>1, <1>2 DEF StateShape
  <1>4. QED  BY <1>1, <1>2, <1>3 DEF left

LEMMA SkipUnknownKeeps == ASSUME IInv, SkipUnknown PROVE IInv'
  <1>1. runs # << >> /\ Run.pc = "keyword" /\ UNCHANGED <<pooled, inUse, due, last>>
    BY DEF SkipUnknown, More, Running, Run
  <1>2. CASE AllowsUnknownAt(Act.on)
    <2> DEFINE act == [Act EXCEPT !.next = @ + 1]
               after == WithAct(act)
               noted == AddNote(St, Keyword)
    <2>1. runs' = Continue(after)
      BY <1>2 DEF SkipUnknown
    <2>2. /\ Local(Run, St) /\ Run.acts # << >>
          /\ Len(Run.acts) = 1 /\ Act.valid => Act.mark = 0
          /\ Len(Run.acts) = 1 /\ Act.valid => St.errors = << >>
      BY <1>1, KeywordState
    <2>3. /\ ActShape(act) /\ act.pushed = Top(Run.acts).pushed
          /\ act.valid = Act.valid /\ act.mark = Act.mark
      BY <1>1, KeywordState DEF ActShape
    <2> HIDE DEF act
    <2>4. /\ DOMAIN after = DOMAIN Run
          /\ after.acts = Append(ButLast(Run.acts), act)
          /\ after.st = Run.st /\ after.call = Run.call
          /\ after.reuse = Run.reuse /\ after.pc = "keyword"
      BY <1>1, WithActFacts
    <2> HIDE DEF after
    <2>5. CASE eliding
      <3>1. heap' = heap
        BY <1>2, <2>5 DEF SkipUnknown
      <3>2. Local(after, St)
        BY <2>2, <2>3, <2>4, ActLocal DEF Local
      <3>3. QED  BY <1>1, <2>1, <2>4, <3>1, <3>2, SameHeap
    <2>6. CASE ~eliding
      <3>1. heap' = [heap EXCEPT ![Run.st] = noted]
        BY <1>2, <2>6 DEF SkipUnknown, St
      <3>2. /\ StateShape(noted) /\ Len(noted.frames) = Len(St.frames)
            /\ noted.scope = St.scope /\ noted.active = St.active
            /\ noted.depth = St.depth /\ noted.errors = St.errors
        BY <2>2, AddNoteFacts DEF Local
      <3> HIDE DEF noted
      <3>3. Local(after, noted)
        BY <2>2, <2>3, <2>4, <3>2, ActLocal
      <3>4. QED  BY <1>1, <2>1, <2>4, <3>1, <3>3, StateMove
    <2>7. QED  BY <2>5, <2>6
  <1>3. CASE ~AllowsUnknownAt(Act.on)
    <2>1. runs' = Continue(Throw("UnknownKeyword")) /\ heap' = heap
      BY <1>3 DEF SkipUnknown
    <2>2. QED  BY <1>1, <2>1, Throwing
  <1>4. QED  BY <1>2, <1>3

LEMMA BeginKeywordKeeps == ASSUME IInv, BeginKeyword PROVE IInv'
  <1>1. /\ runs # << >> /\ Run.pc = "keyword"
        /\ UNCHANGED <<heap, pooled, inUse, due, last>>
    BY DEF BeginKeyword, More, Running, Run
  <1>2. CASE eliding /\ ~(KeywordReads(Keyword, Act.at) \subseteq Consumed)
    <2>1. runs' = Continue(Throw("UndeclaredConsumption"))
      BY <1>2 DEF BeginKeyword
    <2>2. QED  BY <1>1, <2>1, Throwing
  <1>3. CASE ~(eliding /\ ~(KeywordReads(Keyword, Act.at) \subseteq Consumed))
    <2> DEFINE steps == KeywordSteps(Keyword, Act.at, Seen(Keyword))
               act == [Act EXCEPT !.mark = Len(St.errors), !.steps = steps, !.verdicts = << >>]
               after == [WithAct(act) EXCEPT !.pc = "step"]
    <2>1. runs' = Continue(after)
      BY <1>3 DEF BeginKeyword
    <2>2. /\ Local(Run, St) /\ Run.acts # << >>
          /\ Len(Run.acts) = 1 /\ Act.valid => St.errors = << >>
      BY <1>1, KeywordState
    <2> HIDE DEF steps
    <2>3. /\ ActShape(act) /\ act.pushed = Top(Run.acts).pushed
          /\ act.valid = Act.valid /\ act.mark = Len(St.errors)
      BY <1>1, KeywordState DEF ActShape
    <2> HIDE DEF act
    <2>4. Len(Run.acts) = 1 /\ act.valid => act.mark = 0
      BY <2>2, <2>3, EmptyList
    <2>5. /\ DOMAIN after = DOMAIN Run
          /\ after.acts = Append(ButLast(Run.acts), act)
          /\ after.st = Run.st /\ after.call = Run.call
          /\ after.reuse = Run.reuse /\ after.pc = "step"
      BY <1>1, <2>2, WithActFacts DEF Local, RunShape
    <2> HIDE DEF after
    <2>6. Local(after, St)
      BY <2>2, <2>3, <2>4, <2>5, ActLocal DEF Local
    <2>7. QED  BY <1>1, <2>1, <2>5, <2>6, SameHeap
  <1>4. QED  BY <1>2, <1>3

\* A step asks for an application; its answer is appended to the verdicts.
LEMMA ApplyStepKeeps == ASSUME IInv, ApplyStep PROVE IInv'
  <1>1. /\ runs # << >> /\ Run.pc = "step"
        /\ UNCHANGED <<heap, pooled, inUse, due, last>>
    BY DEF ApplyStep, Stepping, Running, Run
  <1> DEFINE to == KeywordTarget(Step, Keyword, St.scope)
  <1>2. CASE SchemaKind(to) = "missing"
    <2>1. runs' = Continue(Throw("Unresolvable"))
      BY <1>2 DEF ApplyStep
    <2>2. QED  BY <1>1, <2>1, Throwing
  <1>3. CASE SchemaKind(to) # "missing"
    <2> DEFINE ask == [to |-> to, at |-> Step.at, path |-> Act.path \o Step.segs]
               after == [Run EXCEPT !.pc = "apply", !.ask = ask]
    <2>1. runs' = Continue(after)
      BY <1>3 DEF ApplyStep
    <2> HIDE DEF ask, to
    <2>2. Local(Run, St) /\ Run.acts # << >>
      BY <1>1, KeywordState
    <2>3. /\ DOMAIN after = DOMAIN Run
          /\ after.acts = Run.acts /\ after.pc = "apply"
          /\ after.st = Run.st /\ after.call = Run.call /\ after.reuse = Run.reuse
      BY <2>2 DEF Local, RunShape
    <2> HIDE DEF after
    <2>4. Local(after, St)
      BY <2>2, <2>3 DEF Local, RunShape, Balanced, Clean
    <2>5. QED  BY <1>1, <2>1, <2>3, <2>4, SameHeap
  <1>4. QED  BY <1>2, <1>3

LEMMA ResumeKeeps == ASSUME IInv, Resume PROVE IInv'
  <1> DEFINE act == [Act EXCEPT !.verdicts = Append(@, Run.ok)]
             after == [WithAct(act) EXCEPT !.pc = "step"]
  <1>1. /\ runs # << >> /\ Run.pc = "return" /\ Run.acts # << >>
        /\ runs' = Continue(after)
        /\ UNCHANGED <<heap, pooled, inUse, due, last>>
    BY DEF Resume, Running, Run
  <1>2. Local(Run, St)
    BY <1>1, Innermost
  <1>3. ActShape(Act) /\ Act = Top(Run.acts) /\ Act = Run.acts[Len(Run.acts)]
    BY <1>1, <1>2, TopFacts DEF Act
  <1>4. Len(Run.acts) = 1 /\ Act.valid => Act.mark = 0
    BY <1>1, <1>2, <1>3 DEF Local, Clean
  <1>5. /\ ActShape(act) /\ act.pushed = Top(Run.acts).pushed
        /\ act.valid = Act.valid /\ act.mark = Act.mark
    BY <1>3 DEF ActShape
  <1> HIDE DEF act
  <1>6. /\ DOMAIN after = DOMAIN Run
        /\ after.acts = Append(ButLast(Run.acts), act)
        /\ after.st = Run.st /\ after.call = Run.call
        /\ after.reuse = Run.reuse /\ after.pc = "step"
    BY <1>1, <1>2, WithActFacts DEF Local, RunShape
  <1> HIDE DEF after
  <1>7. Local(after, St)
    BY <1>1, <1>2, <1>4, <1>5, <1>6, ActLocal DEF Local
  <1>8. QED  BY <1>1, <1>6, <1>7, SameHeap

\* What a keyword tells changes the errors and the frame on top.
LEMMA ToldFacts ==
  ASSUME IInv, runs # << >>
  PROVE  /\ StateShape(Told(St))
         /\ Len(Told(St).frames) = Len(St.frames)
         /\ Told(St).scope = St.scope /\ Told(St).active = St.active
         /\ Told(St).depth = St.depth
  <1> DEFINE noted == IF Annotation(Keyword) /\ ~eliding THEN AddNote(St, Keyword) ELSE St
  <1>1. StateShape(St)
    BY Innermost DEF Local
  <1>2. /\ StateShape(noted)
        /\ Len(noted.frames) = Len(St.frames)
        /\ noted.scope = St.scope /\ noted.active = St.active /\ noted.depth = St.depth
    BY <1>1, AddNoteFacts
  <1>3. Told(St) = [noted EXCEPT !.frames[Len(St.frames)].deps = @ \o Kept,
                                 !.errors = @ \o Reports]
    BY DEF Told
  <1> HIDE DEF noted
  <1> DEFINE told == Told(St)
  <1>4. /\ DOMAIN told = DOMAIN noted
        /\ told.scope = noted.scope /\ told.active = noted.active
        /\ told.depth = noted.depth
        /\ \E frame : told.frames = [noted.frames EXCEPT ![Len(St.frames)] = frame]
    BY <1>2, <1>3 DEF StateShape
  <1> HIDE DEF told
  <1>5. PICK frame : told.frames = [noted.frames EXCEPT ![Len(noted.frames)] = frame]
    BY <1>2, <1>4
  <1>6. IsSeq(told.frames) /\ Len(told.frames) = Len(noted.frames)
    <2>1. CASE Len(noted.frames) \in DOMAIN noted.frames
      BY <1>2, <1>5, <2>1, ReplaceFacts DEF StateShape
    <2>2. CASE Len(noted.frames) \notin DOMAIN noted.frames
      <3>1. noted.frames = << >>
        BY <1>2, <2>2, ListFacts DEF StateShape
      <3>2. told.frames = << >>
        BY <1>5, <3>1
      <3>3. QED  BY <3>1, <3>2, EmptyList
    <2>3. QED  BY <2>1, <2>2
  <1>7. StateShape(told)
    BY <1>2, <1>4, <1>6 DEF StateShape
  <1>8. QED  BY <1>2, <1>4, <1>6, <1>7 DEF told

LEMMA EndKeywordKeeps == ASSUME IInv, EndKeyword PROVE IInv'
  <1>1. runs # << >> /\ Run.pc = "step" /\ UNCHANGED <<pooled, inUse, due, last>>
    BY DEF EndKeyword, Running, Run
  <1>2. /\ Local(Run, St) /\ Run.acts # << >>
        /\ Len(Run.acts) = 1 /\ Act.valid => Act.mark = 0
    BY <1>1, KeywordState
  <1>3. ASSUME runs' = Continue(Throw("UndeclaredProduction")), heap' = heap
        PROVE  IInv'
    BY <1>1, <1>3, Throwing
  <1>4. ASSUME runs' = Continue(Throw("KeywordContract")),
               heap' = [heap EXCEPT ![Run.st] = Told(@)]
        PROVE  IInv'
    <2> DEFINE after == Throw("KeywordContract")
               told == Told(St)
    <2>1. Local(after, St) /\ after.st = Run.st /\ after.reuse = Run.reuse
      BY <1>2, ThrowLocal DEF Throw
    <2>2. after.pc = "throw" /\ after.thrown = "KeywordContract" /\ after.acts = Run.acts
      BY <1>2 DEF Throw, Local, RunShape
    <2>3. /\ StateShape(told)
          /\ Len(told.frames) = Len(St.frames)
          /\ told.scope = St.scope /\ told.active = St.active /\ told.depth = St.depth
      BY <1>1, ToldFacts
    <2>4. heap' = [heap EXCEPT ![Run.st] = told]
      BY <1>4 DEF St
    <2> HIDE DEF after, told
    <2>5. Local(after, told)
      BY <1>2, <2>1, <2>2, <2>3 DEF Local, Balanced, Clean
    <2>6. QED  BY <1>1, <1>4, <2>1, <2>4, <2>5, StateMove DEF after
  <1>5. ASSUME heap' = [heap EXCEPT ![Run.st] = Decided(@)],
               runs' = Continue([WithAct([Act EXCEPT !.valid = @ /\ Outcome.ok,
                                                     !.next = @ + 1]) EXCEPT !.pc = "keyword"])
        PROVE  IInv'
    <2> DEFINE act == [Act EXCEPT !.valid = @ /\ Outcome.ok, !.next = @ + 1]
               after == [WithAct(act) EXCEPT !.pc = "keyword"]
               left == Decided(St)
    <2>1. runs' = Continue(after) /\ heap' = [heap EXCEPT ![Run.st] = left]
      BY <1>5 DEF St
    <2>2. /\ ActShape(act) /\ act.pushed = Top(Run.acts).pushed
          /\ act.valid <=> Act.valid /\ Outcome.ok
          /\ act.mark = Act.mark
      BY <1>1, KeywordState DEF ActShape
    <2> HIDE DEF act
    <2>3. /\ DOMAIN after = DOMAIN Run
          /\ after.acts = Append(ButLast(Run.acts), act)
          /\ after.st = Run.st /\ after.call = Run.call
          /\ after.reuse = Run.reuse /\ after.pc = "keyword"
      BY <1>1, <1>2, WithActFacts DEF Local, RunShape
    <2> HIDE DEF after
    <2>4. /\ StateShape(left)
          /\ Len(left.frames) = Len(St.frames)
          /\ left.scope = St.scope /\ left.active = St.active /\ left.depth = St.depth
          /\ Outcome.ok => left.errors = Drop(Told(St).errors, Act.mark)
      <3>1. StateShape(Told(St))
        BY <1>1, ToldFacts
      <3>2. CASE Outcome.ok
        BY <1>1, <3>1, <3>2, ToldFacts DEF Decided, StateShape
      <3>3. CASE ~Outcome.ok
        BY <1>1, <3>3, ToldFacts DEF Decided
      <3>4. QED  BY <3>2, <3>3
    <2> HIDE DEF left
    <2>5. Len(Run.acts) = 1 /\ act.valid => act.mark = 0 /\ left.errors = << >>
      BY <1>2, <2>2, <2>4, SubSeqEmpty DEF Drop
    <2>6. Local(after, left)
      BY <1>2, <2>2, <2>3, <2>4, <2>5, ActLocal
    <2>7. QED  BY <1>1, <2>1, <2>3, <2>6, StateMove
  <1>6. QED  BY <1>3, <1>4, <1>5 DEF EndKeyword

-----------------------------------------------------------------------------
(* The ends of an application.                                             *)

\* left is st with one more application open.
Opened(left, st, pushed) ==
  /\ StateShape(left)
  /\ Len(left.frames) = Len(st.frames) + 1
  /\ Len(left.active) = Len(st.active) + 1
  /\ left.depth = st.depth + 1
  /\ Len(left.scope) = Len(st.scope) + IF pushed THEN 1 ELSE 0
  /\ left.errors = st.errors

LEMMA OpenFacts ==
  ASSUME NEW st, StateShape(st), NEW ask, NEW pushed
  PROVE  Opened(Open(st, ask, pushed), st, pushed)
  <1> DEFINE left == Open(st, ask, pushed)
  <1>1. /\ DOMAIN left = DOMAIN st
        /\ left.depth = st.depth + 1 /\ left.errors = st.errors
        /\ left.active = Append(st.active, [on |-> ask.to, at |-> ask.at])
        /\ left.frames = Append(st.frames, EmptyFrame)
        /\ left.scope = IF pushed THEN Append(st.scope, SchemaBase(ask.to)) ELSE st.scope
    BY DEF Open, StateShape
  <1> HIDE DEF left
  <1>2. IsSeq(left.active) /\ Len(left.active) = Len(st.active) + 1
    BY <1>1, AppendFacts DEF StateShape
  <1>3. IsSeq(left.frames) /\ Len(left.frames) = Len(st.frames) + 1
    BY <1>1, AppendFacts DEF StateShape
  <1>4. IsSeq(left.scope) /\ Len(left.scope) = Len(st.scope) + IF pushed THEN 1 ELSE 0
    <2>1. CASE pushed
      BY <1>1, <2>1, AppendFacts DEF StateShape
    <2>2. CASE ~pushed
      BY <1>1, <2>2, ListFacts DEF StateShape
    <2>3. QED  BY <2>1, <2>2
  <1>5. StateShape(left)
    BY <1>1, <1>2, <1>3, <1>4 DEF StateShape
  <1>6. Opened(left, st, pushed)
    BY <1>1, <1>2, <1>3, <1>4, <1>5 DEF Opened
  <1>7. QED  BY <1>6 DEF left

LEMMA EnterObjectKeeps == ASSUME IInv, EnterObject PROVE IInv'
  <1> DEFINE pushed == St.scope = << >> \/ Top(St.scope) # SchemaBase(Ask.to)
             act == [on |-> Ask.to, at |-> Ask.at, path |-> Ask.path,
                     next |-> 1, valid |-> TRUE, pushed |-> pushed,
                     mark |-> 0, steps |-> << >>, verdicts |-> << >>]
             after == [Run EXCEPT !.acts = Append(@, act), !.pc = "keyword"]
             left == Open(St, Ask, pushed)
  <1>1. /\ runs # << >> /\ Run.pc = "apply"
        /\ runs' = Continue(after) /\ heap' = [heap EXCEPT ![Run.st] = left]
        /\ UNCHANGED <<pooled, inUse, due, last>>
    BY DEF EnterObject, Admitted, Running, Run, St
  <1>2. Local(Run, St)
    BY <1>1, Innermost
  <1>3. ActShape(act) /\ act.mark = 0 /\ (act.pushed <=> pushed)
    BY DEF ActShape
  <1> HIDE DEF act
  <1>4. /\ DOMAIN after = DOMAIN Run
        /\ after.acts = Append(Run.acts, act) /\ after.pc = "keyword"
        /\ after.st = Run.st /\ after.call = Run.call /\ after.reuse = Run.reuse
    BY <1>2 DEF Local, RunShape
  <1> HIDE DEF after
  <1>5. /\ IsSeq(Run.acts) /\ \A j \in DOMAIN Run.acts : ActShape(Run.acts[j])
        /\ Len(Run.acts) \in Nat /\ DOMAIN Run.acts = 1..Len(Run.acts)
    BY <1>2, ListFacts DEF Local, RunShape
  <1>6. /\ IsSeq(after.acts) /\ after.acts # << >>
        /\ Len(after.acts) = Len(Run.acts) + 1
        /\ \A i \in 1..Len(Run.acts) : after.acts[i] = Run.acts[i]
        /\ after.acts[Len(Run.acts) + 1] = act
    BY <1>4, <1>5, AppendFacts
  <1>7. \A j \in DOMAIN after.acts : ActShape(after.acts[j])
    <2>1. DOMAIN after.acts = 1..(Len(Run.acts) + 1)
      BY <1>6, ListFacts
    <2>2. QED  BY <1>3, <1>5, <1>6, <2>1
  <1>8. RunShape(after)
    <2>1. /\ DOMAIN Run = {"st", "call", "reuse", "pc", "acts", "ok", "thrown", "ask"}
          /\ Run.st \in StateIds /\ CallShape(Run.call) /\ Run.reuse \in BOOLEAN
      BY <1>2 DEF Local, RunShape
    <2>2. QED  BY <1>4, <1>6, <1>7, <2>1 DEF RunShape
  <1>9. Cardinality(PushedIn(after.acts)) =
          Cardinality(PushedIn(Run.acts)) + IF pushed THEN 1 ELSE 0
    BY <1>3, <1>4, <1>5, PushedAppend
  <1> HIDE DEF pushed
  <1>10. /\ StateShape(left)
         /\ Len(left.frames) = Len(St.frames) + 1
         /\ Len(left.active) = Len(St.active) + 1
         /\ left.depth = St.depth + 1
         /\ Len(left.scope) = Len(St.scope) + IF pushed THEN 1 ELSE 0
         /\ left.errors = St.errors
    <2>1. StateShape(St)
      BY <1>2 DEF Local
    <2>2. Opened(left, St, pushed)
      BY <2>1, OpenFacts
    <2>3. QED  BY <2>2 DEF Opened
  <1> HIDE DEF left
  <1>11. Balanced(after, left)
    <2>1. /\ Len(St.frames) = Len(Run.acts) + 1
          /\ Len(St.active) = Len(Run.acts)
          /\ St.depth = Run.call.depth + Len(Run.acts)
          /\ Len(St.scope) = Len(Run.call.scope) + Cardinality(PushedIn(Run.acts))
      BY <1>2 DEF Local, Balanced
    <2>2. /\ Len(Run.call.scope) \in Nat /\ Run.call.depth \in Nat
          /\ Cardinality(PushedIn(Run.acts)) \in Nat
      <3>1. IsSeq(Run.call.scope) /\ Run.call.depth \in Nat
        BY <1>2 DEF Local, RunShape, CallShape
      <3>2. Len(Run.call.scope) \in Nat
        BY <3>1, ListFacts
      <3>3. Cardinality(PushedIn(Run.acts)) \in Nat
        BY <1>5, PushedFacts
      <3>4. QED  BY <3>1, <3>2, <3>3
    <2>3. Len(left.frames) = Len(after.acts) + 1 /\ Len(left.active) = Len(after.acts)
      BY <1>5, <1>6, <1>10, <2>1
    <2>4. left.depth = after.call.depth + Len(after.acts)
      <3>1. left.depth = St.depth + 1 /\ St.depth = Run.call.depth + Len(Run.acts)
        BY <1>10, <2>1
      <3>2. after.call = Run.call /\ Len(after.acts) = Len(Run.acts) + 1
        BY <1>4, <1>6
      <3>3. Len(Run.acts) \in Nat /\ Run.call.depth \in Nat
        BY <1>5, <2>2
      <3>4. QED  BY ONLY <3>1, <3>2, <3>3
    <2>5. Len(left.scope) = Len(after.call.scope) + Cardinality(PushedIn(after.acts))
      <3> DEFINE a == Len(Run.call.scope)
                 b == Cardinality(PushedIn(Run.acts))
                 c == Cardinality(PushedIn(after.acts))
                 d == Len(St.scope)
                 e == Len(left.scope)
                 more == IF pushed THEN 1 ELSE 0
      <3>1. a \in Nat /\ b \in Nat /\ d = a + b /\ c = b + more /\ e = d + more
        BY <1>9, <1>10, <2>1, <2>2
      <3>2. more \in Nat
        OBVIOUS
      <3> HIDE DEF a, b, c, d, e, more
      <3>3. e = a + c
        BY <3>1, <3>2
      <3>4. after.call = Run.call
        BY <1>4
      <3>5. QED  BY <3>3, <3>4 DEF a, c, e
    <2>6. QED  BY <2>3, <2>4, <2>5 DEF Balanced
  <1>12. Clean(after, left)
    <2>1. CASE Run.acts = << >>
      <3>1. St.errors = << >> /\ after.acts[1] = act
        BY <1>1, <1>2, <1>6, <2>1, EmptyList DEF Local, Clean
      <3>2. QED  BY <1>3, <1>4, <1>6, <1>10, <3>1 DEF Clean
    <2>2. CASE Run.acts # << >>
      <3>1. Len(Run.acts) > 0
        BY <1>5, <2>2, ListFacts
      <3>2. Len(after.acts) # 1 /\ after.acts[1] = Run.acts[1]
        BY <1>5, <1>6, <3>1
      <3>3. QED  BY <1>2, <1>4, <1>6, <2>2, <3>2 DEF Local, Clean
    <2>3. QED  BY <2>1, <2>2
  <1>13. QED  BY <1>1, <1>4, <1>8, <1>10, <1>11, <1>12, StateMove DEF Local

\* The finally block gives back what Open took, and what the scope got.
LEMMA CloseFacts ==
  ASSUME NEW run, NEW st, Local(run, st), run.acts # << >>
  PROVE  LET left == Close(st, Top(run.acts))
             less == ButLast(run.acts)
         IN /\ StateShape(left) /\ left.errors = st.errors
            /\ Len(left.frames) = Len(less) + 1
            /\ Len(left.active) = Len(less)
            /\ left.depth = run.call.depth + Len(less)
            /\ Len(left.scope) = Len(run.call.scope) + Cardinality(PushedIn(less))
  <1> DEFINE act == Top(run.acts)
             left == Close(st, act)
             less == ButLast(run.acts)
             n == Len(run.acts)
  <1>1. /\ IsSeq(run.acts) /\ n \in Nat /\ n > 0 /\ IsSeq(less) /\ Len(less) = n - 1
    BY TopFacts, ButLastFacts
  <1>2. /\ Len(st.frames) = n + 1
        /\ Len(st.active) = n
        /\ st.depth = run.call.depth + n
        /\ Len(st.scope) = Len(run.call.scope) + Cardinality(PushedIn(run.acts))
        /\ StateShape(st)
    BY DEF Local, Balanced
  <1>3. /\ Len(run.call.scope) \in Nat /\ run.call.depth \in Nat
        /\ Cardinality(PushedIn(less)) \in Nat
    BY <1>1, PushedFacts, ListFacts DEF Local, RunShape, CallShape
  <1>4. Cardinality(PushedIn(run.acts)) =
          Cardinality(PushedIn(less)) + IF act.pushed THEN 1 ELSE 0
    BY <1>1, PushedButLast
  <1>5. /\ DOMAIN left = DOMAIN st
        /\ left.frames = Merge(st.frames, act.valid)
        /\ left.scope = IF act.pushed THEN ButLast(st.scope) ELSE st.scope
        /\ left.active = ButLast(st.active)
        /\ left.depth = st.depth - 1
        /\ left.errors = st.errors
    BY <1>2 DEF Close, StateShape
  <1> HIDE DEF left, less, act, n
  <1>6. IsSeq(left.frames) /\ Len(left.frames) = n
    <2> DEFINE rest == ButLast(st.frames)
    <2>1. st.frames # << >>
      BY <1>1, <1>2, EmptyList
    <2>2. IsSeq(rest) /\ Len(rest) = n
      BY <1>1, <1>2, <2>1, ButLastFacts DEF StateShape
    <2>3. n \in DOMAIN rest
      BY <1>1, <2>2, ListFacts
    <2>4. Merge(st.frames, act.valid) = rest
          \/ \E frame : Merge(st.frames, act.valid) = [rest EXCEPT ![n] = frame]
      BY <2>2 DEF Merge
    <2> HIDE DEF rest
    <2>5. CASE Merge(st.frames, act.valid) = rest
      BY <1>5, <2>2, <2>5
    <2>6. CASE \E frame : Merge(st.frames, act.valid) = [rest EXCEPT ![n] = frame]
      <3>1. PICK frame : Merge(st.frames, act.valid) = [rest EXCEPT ![n] = frame]
        BY <2>6
      <3>2. /\ IsSeq([rest EXCEPT ![n] = frame])
            /\ Len([rest EXCEPT ![n] = frame]) = Len(rest)
        BY <2>2, <2>3, ReplaceFacts
      <3>3. QED  BY <1>5, <2>2, <3>1, <3>2
    <2>7. QED  BY <2>4, <2>5, <2>6
  <1>7. IsSeq(left.active) /\ Len(left.active) = n - 1
    <2>1. st.active # << >>
      BY <1>1, <1>2, EmptyList
    <2>2. QED  BY <1>2, <1>5, <2>1, ButLastFacts DEF StateShape
  <1>8. /\ IsSeq(left.scope)
        /\ Len(left.scope) = Len(run.call.scope) + Cardinality(PushedIn(less))
    <2>1. CASE act.pushed
      <3>1. Len(st.scope) = Len(run.call.scope) + Cardinality(PushedIn(less)) + 1
        <4>1. Cardinality(PushedIn(run.acts)) = Cardinality(PushedIn(less)) + 1
          BY <1>4, <2>1
        <4> DEFINE a == Len(run.call.scope)
                   b == Cardinality(PushedIn(less))
                   c == Cardinality(PushedIn(run.acts))
                   d == Len(st.scope)
        <4>2. a \in Nat /\ b \in Nat /\ c = b + 1 /\ d = a + c
          BY <1>2, <1>3, <4>1
        <4> HIDE DEF a, b, c, d
        <4>3. d = a + b + 1
          BY <4>2
        <4>4. QED  BY <4>3 DEF a, b, d
      <3>2. st.scope # << >>
        BY <1>3, <3>1, EmptyList
      <3>3. IsSeq(left.scope) /\ Len(left.scope) = Len(st.scope) - 1
        BY <1>2, <1>5, <2>1, <3>2, ButLastFacts DEF StateShape
      <3>4. QED  BY <1>3, <3>1, <3>3
    <2>2. CASE ~act.pushed
      BY <1>2, <1>3, <1>4, <1>5, <2>2 DEF StateShape
    <2>3. QED  BY <2>1, <2>2
  <1>9. left.depth = run.call.depth + Len(less) /\ left.depth \in Nat
    BY <1>1, <1>2, <1>3, <1>5
  <1>10. StateShape(left)
    BY <1>2, <1>5, <1>6, <1>7, <1>8, <1>9 DEF StateShape
  <1>11. Len(left.frames) = Len(less) + 1 /\ Len(left.active) = Len(less)
    BY <1>1, <1>6, <1>7
  <1>12. QED  BY <1>5, <1>8, <1>9, <1>10, <1>11 DEF left, less, act

\* The run after a close, by either way out.
LEMMA ClosedLocal ==
  ASSUME NEW run, NEW st, Local(run, st), run.acts # << >>,
         NEW after, DOMAIN after = DOMAIN run,
         after.st = run.st, after.call = run.call, after.reuse = run.reuse,
         after.acts = ButLast(run.acts),
         \/ after.pc = "throw" /\ Threw(after)
         \/ /\ after.pc = "return"
            /\ after.ok /\ Len(run.acts) = 1 => st.errors = << >>
  PROVE  Local(after, Close(st, Top(run.acts)))
  <1> DEFINE left == Close(st, Top(run.acts))
             n == Len(run.acts)
  <1>1. /\ IsSeq(run.acts) /\ n \in Nat /\ n > 0
        /\ DOMAIN run.acts = 1..n
        /\ \A j \in DOMAIN run.acts : ActShape(run.acts[j])
    BY TopFacts DEF Local, RunShape
  <1>2. /\ IsSeq(after.acts)
        /\ Len(after.acts) = n - 1
        /\ \A i \in 1..(n - 1) : after.acts[i] = run.acts[i]
    BY <1>1, ButLastFacts
  <1>n. n \in Nat /\ (n = 1 <=> Len(run.acts) = 1)
    BY <1>1
  <1> HIDE DEF n
  <1>3. DOMAIN after.acts = 1..(n - 1)
    BY <1>2, ListFacts
  <1>4. \A j \in DOMAIN after.acts : ActShape(after.acts[j])
    <2>1. SUFFICES ASSUME NEW j \in 1..(n - 1)
                   PROVE  ActShape(after.acts[j])
      BY <1>3
    <2>2. j \in 1..n
      BY <1>n
    <2>3. ActShape(run.acts[j])
      BY <1>1, <2>2
    <2>4. after.acts[j] = run.acts[j]
      BY <1>2
    <2>5. QED  BY <2>3, <2>4
  <1>5. RunShape(after)
    BY <1>2, <1>4 DEF Local, RunShape
  <1>6. /\ StateShape(left) /\ left.errors = st.errors
        /\ Balanced(after, left)
    BY CloseFacts DEF Balanced
  <1> HIDE DEF left
  <1>7. Clean(after, left)
    <2>1. CASE after.acts = << >>
      <3>1. n = 1
        BY <1>1, <1>2, <2>1, EmptyList
      <3>2. QED  BY <1>n, <1>6, <2>1, <3>1, EmptyList DEF Clean
    <2>2. CASE after.acts # << >>
      <3>1. Len(after.acts) > 0
        BY <1>2, <2>2, ListFacts
      <3>2. after.acts[1] = run.acts[1]
        BY <1>1, <1>2, <3>1
      <3>3. QED  BY <2>2, <3>2 DEF Local, Clean
    <2>3. QED  BY <2>1, <2>2
  <1>8. QED  BY <1>5, <1>6, <1>7 DEF Local, left

LEMMA LeaveKeeps == ASSUME IInv, Leave PROVE IInv'
  <1> DEFINE after == [Run EXCEPT !.acts = ButLast(@), !.ok = Act.valid, !.pc = "return"]
             left == Close(St, Top(Run.acts))
  <1>1. /\ runs # << >> /\ Run.pc = "keyword" /\ runs' = Continue(after)
        /\ UNCHANGED <<pooled, inUse, due, last>>
    BY DEF Leave, Running, Run
  <1>2. /\ Local(Run, St) /\ Run.acts # << >> /\ Act = Top(Run.acts)
        /\ Len(Run.acts) = 1 /\ Act.valid => St.errors = << >>
    BY <1>1, KeywordState
  <1>3. heap' = [heap EXCEPT ![Run.st] = left]
    BY <1>2 DEF Leave, St
  <1>4. /\ DOMAIN after = DOMAIN Run /\ after.acts = ButLast(Run.acts)
        /\ after.pc = "return" /\ after.ok = Act.valid
        /\ after.st = Run.st /\ after.call = Run.call /\ after.reuse = Run.reuse
    BY <1>2 DEF Local, RunShape
  <1> HIDE DEF after
  <1>5. Local(after, left)
    BY <1>2, <1>4, ClosedLocal
  <1> HIDE DEF left
  <1>6. QED  BY <1>1, <1>3, <1>4, <1>5, StateMove

LEMMA UnwindKeeps == ASSUME IInv, Unwind PROVE IInv'
  <1> DEFINE after == [Run EXCEPT !.acts = ButLast(@)]
             left == Close(St, Top(Run.acts))
  <1>1. /\ runs # << >> /\ Run.pc = "throw" /\ Run.acts # << >> /\ runs' = Continue(after)
        /\ heap' = [heap EXCEPT ![Run.st] = left]
        /\ UNCHANGED <<pooled, inUse, due, last>>
    BY DEF Unwind, Running, Run, St, Act
  <1>2. Local(Run, St) /\ Threw(Run)
    BY <1>1, Innermost DEF Local, Clean
  <1>3. /\ DOMAIN after = DOMAIN Run /\ after.acts = ButLast(Run.acts)
        /\ after.pc = "throw" /\ after.thrown = Run.thrown
        /\ after.st = Run.st /\ after.call = Run.call /\ after.reuse = Run.reuse
    BY <1>1, <1>2 DEF Local, RunShape
  <1> HIDE DEF after
  <1>4. Threw(after)
    BY <1>2, <1>3 DEF Threw
  <1>5. Local(after, left)
    BY <1>1, <1>2, <1>3, <1>4, ClosedLocal
  <1> HIDE DEF left
  <1>6. QED  BY <1>1, <1>3, <1>5, StateMove

LEMMA FinishKeeps == ASSUME IInv, Finish PROVE IInv'
  <1> DEFINE after == [Run EXCEPT !.pc = "done"]
  <1>1. /\ runs # << >> /\ Run.pc \in {"return", "throw"} /\ Run.acts = << >>
        /\ runs' = Continue(after)
        /\ UNCHANGED <<heap, pooled, inUse, due, last>>
    BY DEF Finish, Running, Run
  <1>2. Local(Run, St)
    BY <1>1, Innermost
  <1>3. /\ DOMAIN after = DOMAIN Run /\ after.acts = Run.acts /\ after.pc = "done"
        /\ after.ok = Run.ok /\ after.thrown = Run.thrown
        /\ after.st = Run.st /\ after.call = Run.call /\ after.reuse = Run.reuse
    BY <1>2 DEF Local, RunShape
  <1> HIDE DEF after
  <1>4. RunShape(after) /\ Balanced(after, St)
    BY <1>1, <1>2, <1>3 DEF Local, RunShape, Balanced
  <1>5. Threw(after) <=> Threw(Run)
    BY <1>3 DEF Threw
  <1>6. Clean(after, St)
    BY <1>1, <1>2, <1>3, <1>5, EmptyList DEF Local, Clean
  <1>7. QED  BY <1>1, <1>2, <1>3, <1>4, <1>6, SameHeap DEF Local

-----------------------------------------------------------------------------
(* Calls, and their ends.                                                  *)

LEMMA SeedFacts ==
  ASSUME NEW st, NEW call, CallShape(call)
  PROVE  LET left == Seed(Reset(st, call.depth), call.scope)
         IN /\ StateShape(left)
            /\ Len(left.frames) = 1 /\ Len(left.active) = 0
            /\ left.depth = call.depth
            /\ Len(left.scope) = Len(call.scope)
            /\ left.errors = << >>
  <1> DEFINE left == Seed(Reset(st, call.depth), call.scope)
  <1>1. /\ DOMAIN left = {"frames", "errors", "scope", "active", "depth"}
        /\ left.frames = <<EmptyFrame>> /\ left.active = << >> /\ left.errors = << >>
        /\ left.depth = call.depth
        /\ left.scope = << >> \o call.scope
    BY DEF Seed, Reset, Fresh
  <1> HIDE DEF left
  <1>2. IsSeq(left.frames) /\ Len(left.frames) = 1
    <2>1. <<EmptyFrame>> \in Seq({EmptyFrame}) /\ Len(<<EmptyFrame>>) = 1
      OBVIOUS
    <2>2. QED  BY <1>1, <2>1, Lists
  <1>3. IsSeq(left.active) /\ Len(left.active) = 0
    BY <1>1, EmptyList
  <1>4. IsSeq(left.scope) /\ Len(left.scope) = Len(call.scope)
    <2>1. Len(call.scope) \in Nat /\ IsSeq(call.scope)
      BY ListFacts DEF CallShape
    <2>2. IsSeq(<< >> \o call.scope) /\ Len(<< >> \o call.scope) = 0 + Len(call.scope)
      BY <2>1, EmptyList, JoinFacts
    <2>3. QED  BY <1>1, <2>1, <2>2
  <1>5. left.depth \in Nat
    BY <1>1 DEF CallShape
  <1>6. StateShape(left)
    BY <1>1, <1>2, <1>3, <1>4, <1>5 DEF StateShape
  <1>7. QED  BY <1>1, <1>2, <1>3, <1>4, <1>6 DEF left

\* The runner gives a call a state nobody evaluates on, and the pooled one to
\* the first call only.
LEMMA ValidFacts ==
  ASSUME IInv, NEW call, Valid(call)
  PROVE  /\ \E s \in StateIds \ InRuns, reuse \in BOOLEAN :
              /\ Begin(call, s, reuse)
              /\ reuse <=> runs = << >>
              /\ pooled' = IF runs = << >> THEN s ELSE pooled
         /\ inUse' = TRUE
  <1>1. inUse <=> runs # << >>
    BY DEF IInv, StatesAreApart
  <1>2. CASE runs = << >>
    <2>1. InRuns = {}
      BY <1>2, EmptyList DEF InRuns
    <2>2. inUse' = TRUE
      BY <1>1, <1>2 DEF Valid
    <2>3. PICK s \in IF pooled = NoState THEN Unused ELSE {pooled} :
            Begin(call, s, TRUE) /\ pooled' = s
      BY <1>1, <1>2 DEF Valid
    <2>4. s \in StateIds \ InRuns
      BY <2>1, <2>3 DEF Unused, IInv, TypeOK
    <2>5. QED  BY <1>2, <2>2, <2>3, <2>4
  <1>3. CASE runs # << >>
    <2>1. inUse' = TRUE /\ pooled' = pooled
      BY <1>1, <1>3 DEF Valid
    <2>2. PICK s \in Unused : Begin(call, s, FALSE)
      BY <1>1, <1>3 DEF Valid
    <2>3. s \in StateIds \ InRuns
      BY <2>2 DEF Unused
    <2>4. QED  BY <1>3, <2>1, <2>2, <2>3
  <1>4. QED  BY <1>2, <1>3

LEMMA Calling ==
  ASSUME IInv, NEW call, CallShape(call), Valid(call),
         runs # << >> => Run.pc = "step",
         ScriptShape(due'), last' = last
  PROVE  IInv'
  <1> DEFINE n == Len(runs)
  <1>1. /\ IsSeq(runs) /\ n \in Nat /\ DOMAIN runs = 1..n
        /\ runs = << >> <=> n = 0
    BY ListFacts DEF IInv, TypeOK
  <1>2. PICK s \in StateIds \ InRuns, reuse \in BOOLEAN :
          /\ Begin(call, s, reuse)
          /\ reuse <=> runs = << >>
          /\ pooled' = IF runs = << >> THEN s ELSE pooled
    BY ValidFacts
  <1>3. inUse' = TRUE
    BY ValidFacts
  <1> DEFINE new == [st |-> s, call |-> call, reuse |-> reuse, pc |-> "apply",
                     acts |-> << >>, ok |-> FALSE, thrown |-> "",
                     ask |-> [to |-> call.to, at |-> call.at, path |-> << >>]]
             left == Seed(Reset(heap[s], call.depth), call.scope)
  <1>4. runs' = Append(runs, new) /\ heap' = [heap EXCEPT ![s] = left]
    BY <1>2 DEF Begin
  <1>5. /\ DOMAIN new = {"st", "call", "reuse", "pc", "acts", "ok", "thrown", "ask"}
        /\ new.st = s /\ new.call = call /\ new.reuse = reuse
        /\ new.pc = "apply" /\ new.acts = << >>
    OBVIOUS
  <1> HIDE DEF new
  <1>6. /\ StateShape(left)
        /\ Len(left.frames) = 1 /\ Len(left.active) = 0
        /\ left.depth = call.depth
        /\ Len(left.scope) = Len(call.scope)
        /\ left.errors = << >>
    BY SeedFacts
  <1> HIDE DEF left
  <1>7. Local(new, left)
    <2>1. RunShape(new)
      BY <1>5, EmptyList DEF RunShape
    <2>2. Balanced(new, left)
      <3>1. Len(call.scope) \in Nat /\ call.depth \in Nat
        BY ListFacts DEF CallShape
      <3>2. Len(new.acts) = 0 /\ Cardinality(PushedIn(new.acts)) = 0
        BY <1>5, EmptyList, PushedFacts
      <3>3. left.depth = new.call.depth + 0 /\ Len(left.scope) = Len(new.call.scope) + 0
        BY <1>5, <1>6, <3>1
      <3>4. QED  BY <1>6, <3>2, <3>3 DEF Balanced
    <2>3. Clean(new, left)
      BY <1>5, <1>6, EmptyList DEF Clean
    <2>4. QED  BY <1>6, <2>1, <2>2, <2>3 DEF Local
  <1>8. /\ IsSeq(runs') /\ Len(runs') = n + 1 /\ runs' # << >>
        /\ \A i \in 1..n : runs'[i] = runs[i]
        /\ runs'[n + 1] = new
    BY <1>1, <1>4, AppendFacts
  <1> HIDE DEF n
  <1>9. DOMAIN runs' = 1..(n + 1)
    BY <1>8, ListFacts
  <1>10. \A i \in DOMAIN runs' : i \in 1..n \/ i = n + 1
    BY <1>1, <1>9
  <1>11. /\ DOMAIN heap' = StateIds /\ heap'[s] = left
         /\ \A t \in StateIds \ {s} : heap'[t] = heap[t]
    BY <1>4 DEF IInv, TypeOK
  <1>12. \A i \in 1..n : /\ runs[i].st \in StateIds \ {s}
                         /\ Local(runs[i], heap[runs[i].st])
    <2>1. \A i \in 1..n : runs[i].st # s
      BY <1>1, <1>2 DEF InRuns
    <2>2. \A i \in 1..n : RunShape(runs[i]) /\ Local(runs[i], heap[runs[i].st])
      BY <1>1 DEF IInv, TypeOK
    <2>3. QED  BY <2>1, <2>2 DEF RunShape
  <1>13. \A i \in DOMAIN runs' : Local(runs'[i], heap'[runs'[i].st])
    <2>1. \A i \in 1..n : Local(runs'[i], heap'[runs'[i].st])
      BY <1>8, <1>11, <1>12
    <2>2. Local(runs'[n + 1], heap'[runs'[n + 1].st])
      BY <1>5, <1>7, <1>8, <1>11
    <2>3. QED  BY <1>10, <2>1, <2>2
  <1>14. TypeOK'
    <2>1. \A t \in StateIds : StateShape(heap'[t])
      BY <1>6, <1>11 DEF IInv, TypeOK
    <2>2. pooled' \in StateIds \union {NoState}
      BY <1>2 DEF IInv, TypeOK
    <2>3. \A i \in DOMAIN runs' : RunShape(runs'[i])
      BY <1>13 DEF Local
    <2>4. QED  BY <1>3, <1>8, <1>11, <2>1, <2>2, <2>3 DEF TypeOK
  <1>15. StatesAreApart'
    <2>1. \A i, j \in DOMAIN runs' : i # j => runs'[i].st # runs'[j].st
      <3>1. \A i, j \in 1..n : i # j => runs'[i].st # runs'[j].st
        BY <1>1, <1>8 DEF IInv, StatesAreApart
      <3>2. \A i \in 1..n : runs'[i].st # runs'[n + 1].st
        BY <1>5, <1>8, <1>12
      <3>3. QED  BY <1>10, <3>1, <3>2
    <2>2. \A i \in 1..n : n # 0 /\ (runs'[i].reuse <=> i = 1)
      BY <1>1, <1>8 DEF IInv, StatesAreApart
    <2>3. runs'[n + 1].reuse <=> n = 0
      BY <1>1, <1>2, <1>5, <1>8
    <2>4. n + 1 = 1 <=> n = 0
      BY <1>1
    <2>5. \A i \in DOMAIN runs' : runs'[i].reuse <=> i = 1
      BY <1>10, <2>2, <2>3, <2>4
    <2>6. pooled' = runs'[1].st
      <3>1. CASE n = 0
        BY <1>1, <1>2, <1>5, <1>8, <3>1
      <3>2. CASE n # 0
        <4>1. 1 \in 1..n /\ pooled' = pooled /\ pooled = runs[1].st
          BY <1>1, <1>2, <3>2 DEF IInv, StatesAreApart
        <4>2. QED  BY <1>8, <4>1
      <3>3. QED  BY <3>1, <3>2
    <2>7. QED  BY <1>3, <1>8, <2>1, <2>5, <2>6 DEF StatesAreApart
  <1>16. CallersWait'
    <2>1. \A i \in 1..n : i < n => runs[i].pc = "step"
      BY <1>1 DEF IInv, CallersWait, n
    <2>2. n # 0 => runs[n].pc = "step"
      BY <1>1 DEF Run, Top, n
    <2>3. \A i \in 1..n : runs'[i].pc = "step"
      BY <1>1, <1>8, <2>1, <2>2
    <2>4. \A i \in DOMAIN runs' : i < n + 1 => i \in 1..n
      BY <1>1, <1>9
    <2>5. QED  BY <1>8, <2>3, <2>4 DEF CallersWait
  <1>17. AcceptanceIsClean'
    BY DEF IInv, AcceptanceIsClean
  <1>18. QED  BY <1>13, <1>14, <1>15, <1>16, <1>17 DEF IInv

LEMMA HostCallsKeeps == ASSUME IInv, HostCalls PROVE IInv'
  <1>1. /\ runs = << >> /\ due # << >> /\ Valid(Head(due)) /\ due' = Tail(due)
        /\ last' = last
    BY DEF HostCalls
  <1>2. IsSeq(due) /\ \A i \in DOMAIN due : CallShape(due[i])
    BY DEF IInv, TypeOK, ScriptShape
  <1>3. CallShape(Head(due)) /\ ScriptShape(due')
    BY <1>1, <1>2, TailFacts DEF ScriptShape
  <1>4. QED  BY <1>1, <1>3, Calling

LEMMA CallBackKeeps == ASSUME IInv, CallBack PROVE IInv'
  <1> DEFINE call == [to |-> Step.to, at |-> Step.at, scope |-> << >>, depth |-> 0]
  <1>1. runs # << >> /\ Run.pc = "step" /\ Valid(call) /\ due' = due /\ last' = last
    BY DEF CallBack, Stepping, Running, Run
  <1>2. CallShape(call)
    BY EmptyList DEF CallShape
  <1>3. ScriptShape(due')
    BY <1>1 DEF IInv, TypeOK
  <1> HIDE DEF call
  <1>4. QED  BY <1>1, <1>2, <1>3, Calling

\* The call that ends is clean when it accepts.
LEMMA EndedFacts ==
  ASSUME IInv, Ended, last' = <<Ends(Run.call, Run)>>
  PROVE  AcceptanceIsClean'
  <1>1. runs # << >> /\ Run.pc = "done"
    BY DEF Ended, Running, Run
  <1>2. ~Threw(Run) /\ Run.ok => St.errors = << >>
    BY <1>1, Innermost DEF Local, Clean
  <1> DEFINE end == Ends(Run.call, Run)
  <1>3. end.ok = Run.ok /\ end.thrown = Run.thrown /\ end.errors = St.errors
    BY DEF Ends, St
  <1> HIDE DEF end
  <1>4. end.ok /\ end.thrown = "" => end.errors = << >>
    BY <1>2, <1>3 DEF Threw
  <1>5. \A i \in DOMAIN last' : last'[i] = end
    BY DEF end
  <1>6. QED  BY <1>4, <1>5 DEF AcceptanceIsClean

LEMMA HostResumesKeeps == ASSUME IInv, HostResumes PROVE IInv'
  <1>1. /\ Ended /\ Len(runs) = 1 /\ Settle(Run)
        /\ last' = <<Ends(Run.call, Run)>> /\ runs' = << >>
        /\ heap' = heap /\ due' = due
    BY DEF HostResumes
  <1>2. runs # << >>
    BY <1>1 DEF Ended, Running
  <1>3. Run.reuse
    BY <1>1, <1>2, Innermost DEF IInv, StatesAreApart
  <1>4. inUse' = FALSE /\ pooled' \in StateIds \union {NoState}
    BY <1>1, <1>3 DEF Settle, IInv, TypeOK
  <1>5. DOMAIN runs' = {} /\ IsSeq(runs')
    BY <1>1, EmptyList
  <1>6. TypeOK'
    BY <1>1, <1>4, <1>5 DEF IInv, TypeOK
  <1>7. StatesAreApart' /\ CallersWait'
    BY <1>1, <1>4, <1>5 DEF StatesAreApart, CallersWait
  <1>8. QED  BY <1>1, <1>5, <1>6, <1>7, EndedFacts DEF IInv

LEMMA CallerResumesKeeps == ASSUME IInv, CallerResumes PROVE IInv'
  <1> DEFINE n == Len(runs)
             outer == ButLast(runs)
             caller == Top(outer)
             act == Top(caller.acts)
             told == [act EXCEPT !.verdicts = Append(@, Run.ok)]
             answered == [caller EXCEPT !.acts = Append(ButLast(@), told), !.pc = "step"]
             failed == [caller EXCEPT !.pc = "throw", !.thrown = Run.thrown]
  <1>1. /\ Ended /\ n > 1 /\ Settle(Run)
        /\ last' = <<Ends(Run.call, Run)>>
        /\ heap' = heap /\ due' = due
    BY DEF CallerResumes
  <1>2. \/ runs' = [outer EXCEPT ![Len(outer)] = answered]
        \/ Threw(Run) /\ runs' = [outer EXCEPT ![Len(outer)] = failed]
    BY DEF CallerResumes, Threw
  <1>3. /\ runs # << >> /\ IsSeq(runs) /\ n \in Nat
        /\ DOMAIN runs = 1..n /\ Run = runs[n]
    BY <1>1, Innermost DEF IInv, TypeOK, Ended, Running
  <1>4. /\ IsSeq(outer) /\ Len(outer) = n - 1
        /\ \A i \in 1..(n - 1) : outer[i] = runs[i]
    BY <1>3, ButLastFacts
  <1>5. inUse' = inUse /\ pooled' = pooled
    <2>1. ~Run.reuse
      BY <1>1, <1>3 DEF IInv, StatesAreApart
    <2>2. QED  BY <1>1, <2>1 DEF Settle
  <1> DEFINE m == n - 1
             cst == heap[runs[m].st]
  <1>6. caller = runs[m]
    BY <1>1, <1>3, <1>4 DEF Top
  <1>7. /\ m \in DOMAIN runs /\ m \in Nat /\ m < n /\ m > 0
        /\ m = n - 1
    BY <1>1, <1>3
  <1>8. Local(caller, cst) /\ caller.pc = "step" /\ caller.acts # << >>
    BY <1>6, <1>7 DEF IInv, CallersWait, Local, RunShape
  <1>9. ActShape(act)
    BY <1>8, TopFacts
  <1> HIDE DEF outer, caller
  <1> HIDE DEF n, m, cst
  <1>10. PICK next : /\ runs' = [outer EXCEPT ![Len(outer)] = next]
                     /\ Local(next, cst) /\ next.st = caller.st /\ next.reuse = caller.reuse
    <2>1. Local(answered, cst) /\ answered.st = caller.st /\ answered.reuse = caller.reuse
      <3>1. /\ ActShape(told) /\ told.pushed = act.pushed
            /\ told.valid = act.valid /\ told.mark = act.mark
        BY <1>9 DEF ActShape
      <3>2. Len(caller.acts) = 1 /\ act.valid => act.mark = 0
        BY <1>8, TopFacts DEF Local, Clean
      <3> HIDE DEF told
      <3>3. /\ DOMAIN answered = DOMAIN caller
            /\ answered.acts = Append(ButLast(caller.acts), told) /\ answered.pc = "step"
            /\ answered.st = caller.st /\ answered.call = caller.call
            /\ answered.reuse = caller.reuse
        BY <1>8 DEF Local, RunShape
      <3> HIDE DEF answered
      <3>4. Local(answered, cst)
        BY <1>8, <3>1, <3>2, <3>3, ActLocal DEF Local
      <3>5. QED  BY <3>3, <3>4
    <2>2. ASSUME Threw(Run)
          PROVE  Local(failed, cst) /\ failed.st = caller.st /\ failed.reuse = caller.reuse
      <3>1. Run.thrown # ""
        BY <2>2 DEF Threw
      <3>2. QED  BY <1>8, <3>1, ThrowLocal
    <2> HIDE DEF answered, failed
    <2>3. QED  BY <1>2, <2>1, <2>2
  <1>11. IsSeq(runs') /\ Len(runs') = m
    <2>1. m \in DOMAIN outer
      BY <1>4, <1>7, ListFacts
    <2>2. IsSeq([outer EXCEPT ![m] = next]) /\ Len([outer EXCEPT ![m] = next]) = Len(outer)
      BY <1>4, <2>1, ReplaceFacts
    <2>3. QED  BY <1>4, <1>7, <1>10, <2>2
  <1>12. runs'[m] = next /\ \A i \in 1..(m - 1) : runs'[i] = runs[i]
    <2>1. DOMAIN outer = 1..m
      BY <1>4, <1>7, ListFacts
    <2>2. runs' = [outer EXCEPT ![m] = next]
      BY <1>4, <1>7, <1>10
    <2>3. runs'[m] = next
      BY <1>7, <2>1, <2>2
    <2>4. \A i \in 1..(m - 1) : runs'[i] = outer[i]
      BY <1>7, <2>1, <2>2
    <2>5. \A i \in 1..(m - 1) : outer[i] = runs[i]
      BY <1>4, <1>7
    <2>6. QED  BY <2>3, <2>4, <2>5
  <1>13. DOMAIN runs' = 1..m /\ runs' # << >>
    BY <1>7, <1>11, ListFacts
  <1>14. \A i \in 1..m : /\ i \in DOMAIN runs
                         /\ runs'[i].st = runs[i].st /\ runs'[i].reuse = runs[i].reuse
    <2>1. \A i \in 1..m : i \in DOMAIN runs /\ (i = m \/ i \in 1..(m - 1))
      BY <1>3, <1>7
    <2>2. QED  BY <1>6, <1>10, <1>12, <2>1
  <1>15. \A i \in DOMAIN runs' : Local(runs'[i], heap'[runs'[i].st])
    <2>1. \A i \in 1..(m - 1) : Local(runs'[i], heap'[runs'[i].st])
      BY <1>1, <1>3, <1>7, <1>12 DEF IInv
    <2>2. Local(runs'[m], heap'[runs'[m].st])
      BY <1>1, <1>6, <1>10, <1>12 DEF cst
    <2>3. \A i \in 1..m : i = m \/ i \in 1..(m - 1)
      BY <1>7
    <2>4. QED  BY <1>13, <2>1, <2>2, <2>3
  <1>16. TypeOK'
    <2>1. \A i \in DOMAIN runs' : RunShape(runs'[i])
      BY <1>15 DEF Local
    <2>2. QED  BY <1>1, <1>5, <1>11, <2>1 DEF IInv, TypeOK
  <1>17. StatesAreApart'
    <2>1. \A i, j \in DOMAIN runs' : i # j => runs'[i].st # runs'[j].st
      BY <1>13, <1>14 DEF IInv, StatesAreApart
    <2>2. \A i \in DOMAIN runs' : runs'[i].reuse <=> i = 1
      BY <1>13, <1>14 DEF IInv, StatesAreApart
    <2>3. 1 \in 1..m
      BY <1>7
    <2>4. inUse' /\ pooled' = runs'[1].st
      BY <1>3, <1>5, <1>14, <2>3 DEF IInv, StatesAreApart
    <2>5. QED  BY <1>13, <2>1, <2>2, <2>4 DEF StatesAreApart
  <1>18. CallersWait'
    <2>1. \A i \in 1..m : i < m => i \in 1..(m - 1) /\ i \in DOMAIN runs /\ i < n
      BY <1>3, <1>7
    <2>2. \A i \in 1..(m - 1) : runs[i].pc = "step"
      BY <1>3, <1>7 DEF IInv, CallersWait, n
    <2>3. QED  BY <1>11, <1>12, <1>13, <2>1, <2>2 DEF CallersWait
  <1>19. QED  BY <1>1, <1>15, <1>16, <1>17, <1>18, EndedFacts DEF IInv

-----------------------------------------------------------------------------
(* The theorems.                                                           *)

LEMMA InitInv == ASSUME Init PROVE IInv
  <1>1. /\ heap = [s \in StateIds |-> Fresh] /\ runs = << >> /\ pooled = NoState
        /\ inUse = FALSE /\ due \in Scripts /\ last = << >>
    BY DEF Init
  <1>2. StateShape(Fresh)
    <2>1. <<EmptyFrame>> \in Seq({EmptyFrame})
      OBVIOUS
    <2>2. IsSeq(<<EmptyFrame>>)
      BY <2>1, Lists
    <2>3. QED  BY <2>2, EmptyList DEF Fresh, StateShape
  <1>3. DOMAIN runs = {} /\ DOMAIN last = {} /\ IsSeq(runs)
    BY <1>1, EmptyList
  <1>4. ScriptShape(due)
    BY <1>1, ScriptsAssumption
  <1>5. TypeOK
    BY <1>1, <1>2, <1>3, <1>4 DEF TypeOK
  <1>6. QED  BY <1>1, <1>3, <1>5 DEF IInv, StatesAreApart, CallersWait, AcceptanceIsClean

LEMMA NextInv == ASSUME IInv, [Next]_vars PROVE IInv'
  <1>1. CASE HostCalls     BY <1>1, HostCallsKeeps
  <1>2. CASE TooDeep       BY <1>2, TooDeepKeeps
  <1>3. CASE ApplyBoolean  BY <1>3, ApplyBooleanKeeps
  <1>4. CASE Refuse        BY <1>4, RefuseKeeps
  <1>5. CASE EnterObject   BY <1>5, EnterObjectKeeps
  <1>6. CASE SkipUnknown   BY <1>6, SkipUnknownKeeps
  <1>7. CASE BeginKeyword  BY <1>7, BeginKeywordKeeps
  <1>8. CASE ApplyStep     BY <1>8, ApplyStepKeeps
  <1>9. CASE CallBack      BY <1>9, CallBackKeeps
  <1>10. CASE Resume       BY <1>10, ResumeKeeps
  <1>11. CASE EndKeyword   BY <1>11, EndKeywordKeeps
  <1>12. CASE Leave        BY <1>12, LeaveKeeps
  <1>13. CASE Unwind       BY <1>13, UnwindKeeps
  <1>14. CASE Finish       BY <1>14, FinishKeeps
  <1>15. CASE CallerResumes BY <1>15, CallerResumesKeeps
  <1>16. CASE HostResumes  BY <1>16, HostResumesKeeps
  <1>17. CASE UNCHANGED vars
    BY <1>17 DEF vars, IInv, TypeOK, StatesAreApart, CallersWait, AcceptanceIsClean
  <1>18. QED
    BY <1>1, <1>2, <1>3, <1>4, <1>5, <1>6, <1>7, <1>8, <1>9, <1>10, <1>11, <1>12,
       <1>13, <1>14, <1>15, <1>16, <1>17 DEF Next, Works

\* The inductive invariant holds throughout.
LEMMA Inductive == Spec => []IInv
  <1>1. Init => IInv
    BY InitInv
  <1>2. IInv /\ [Next]_vars => IInv'
    BY NextInv
  <1>3. QED  BY <1>1, <1>2, PTL DEF Spec

\* The stacks of every state stay lists, the depth a natural number, and the
\* runner's pool holds a state or none (EvalState, createFragmentRunner).
THEOREM TypeCorrect == Spec => []TypeOK
  <1>1. IInv => TypeOK
    BY DEF IInv
  <1>2. QED  BY <1>1, Inductive, PTL

\* However deep user code re-enters the runner, and whatever throws, no two
\* calls in progress share a state and only the outermost is on the pooled one
\* (the inUse flag of createFragmentRunner).
THEOREM CallsKeepApart == Spec => []StatesAreApart
  <1>1. IInv => StatesAreApart
    BY DEF IInv
  <1>2. QED  BY <1>1, Inductive, PTL

\* At every step of every call, the frames, the cycle guard, the depth and the
\* dynamic scope account for exactly the applications that are open: the
\* finally block of applySchema undoes what its beginning did on both ways out,
\* so a completed run leaves the state as reset() expects it.
THEOREM StacksKeepBalance == Spec => []StacksBalance
  <1>1. IInv => StacksBalance
    BY DEF IInv, Local, StacksBalance
  <1>2. QED  BY <1>1, Inductive, PTL

\* A call that accepts leaves no error behind, whatever keywords it ran, what
\* they reported and which of them swallowed an error thrown inside them (the
\* mark and the truncation in evaluateKeyword).
THEOREM AcceptingIsClean == Spec => []AcceptanceIsClean
  <1>1. IInv => AcceptanceIsClean
    BY DEF IInv
  <1>2. QED  BY <1>1, Inductive, PTL

-----------------------------------------------------------------------------
(* The cycle guard.                                                        *)

\* What a step does to the guard of a state: nothing, begin it anew, close the
\* innermost application, or open one that the scan has not met.
GuardMove(s) ==
  \/ heap'[s].active = heap[s].active
  \/ heap'[s].active = << >>
  \/ /\ heap[s].active # << >>
     /\ heap'[s].active = ButLast(heap[s].active)
  \/ /\ EnterObject /\ s = Run.st
     /\ heap'[s].active = Append(heap[s].active, [on |-> Ask.to, at |-> Ask.at])
GuardsMove == \A s \in StateIds : GuardMove(s)

LEMMA OneGuardMoves ==
  ASSUME IInv, NEW s \in StateIds, NEW st, heap' = [heap EXCEPT ![s] = st], GuardMove(s)
  PROVE  GuardsMove
  <1>1. \A x \in StateIds : x = s \/ heap'[x] = heap[x]
    BY DEF IInv, TypeOK
  <1>2. QED  BY <1>1 DEF GuardsMove, GuardMove

LEMMA SameGuards == ASSUME heap' = heap PROVE GuardsMove
  BY DEF GuardsMove, GuardMove

LEMMA GuardState ==
  ASSUME IInv, runs # << >>
  PROVE  Run.st \in StateIds /\ StateShape(St) /\ St = heap[Run.st]
  BY Innermost DEF Local, St

LEMMA EnterMovesGuards == ASSUME IInv, EnterObject PROVE GuardsMove
  <1>1. runs # << >>
    BY DEF EnterObject, Admitted, Running
  <1>2. Run.st \in StateIds /\ StateShape(St) /\ St = heap[Run.st]
    BY <1>1, GuardState
  <1>3. PICK pushed : heap' = [heap EXCEPT ![Run.st] = Open(St, Ask, pushed)]
    BY <1>2 DEF EnterObject
  <1>4. Open(St, Ask, pushed).active = Append(St.active, [on |-> Ask.to, at |-> Ask.at])
    BY <1>2 DEF Open, StateShape
  <1>5. heap'[Run.st] = Open(St, Ask, pushed)
    BY <1>2, <1>3 DEF IInv, TypeOK
  <1>6. GuardMove(Run.st)
    BY <1>2, <1>4, <1>5 DEF GuardMove
  <1>7. QED  BY <1>2, <1>3, <1>6, OneGuardMoves

LEMMA CloseMovesGuards ==
  ASSUME IInv, runs # << >>, Run.acts # << >>, heap' = [heap EXCEPT ![Run.st] = Close(@, Act)]
  PROVE  GuardsMove
  <1>1. Run.st \in StateIds /\ StateShape(St) /\ St = heap[Run.st] /\ Local(Run, St)
    BY GuardState, Innermost
  <1>2. heap' = [heap EXCEPT ![Run.st] = Close(St, Act)]
    BY <1>1
  <1>3. Close(St, Act).active = ButLast(St.active)
    BY <1>1 DEF Close, StateShape
  <1>4. St.active # << >>
    <2>1. Len(St.active) = Len(Run.acts) /\ IsSeq(Run.acts) /\ IsSeq(St.active)
      BY <1>1 DEF Local, Balanced, RunShape, StateShape
    <2>2. QED  BY <2>1, ListFacts
  <1>5. heap'[Run.st] = Close(St, Act)
    BY <1>1, <1>2 DEF IInv, TypeOK
  <1>6. GuardMove(Run.st)
    BY <1>1, <1>3, <1>4, <1>5 DEF GuardMove
  <1>7. QED  BY <1>1, <1>2, <1>6, OneGuardMoves

\* What a keyword records leaves the guard alone.
LEMMA RecordsKeepGuards ==
  ASSUME IInv, runs # << >>, NEW left, heap' = [heap EXCEPT ![Run.st] = left],
         left.active = St.active
  PROVE  GuardsMove
  <1>1. Run.st \in StateIds /\ St = heap[Run.st]
    BY GuardState
  <1>2. heap'[Run.st] = left
    BY <1>1 DEF IInv, TypeOK
  <1>3. GuardMove(Run.st)
    BY <1>1, <1>2 DEF GuardMove
  <1>4. QED  BY <1>1, <1>3, OneGuardMoves

LEMMA ValidMovesGuards == ASSUME IInv, NEW call, CallShape(call), Valid(call) PROVE GuardsMove
  <1>1. PICK s \in StateIds \ InRuns, reuse \in BOOLEAN : Begin(call, s, reuse)
    BY ValidFacts
  <1> DEFINE left == Seed(Reset(heap[s], call.depth), call.scope)
  <1>2. heap' = [heap EXCEPT ![s] = left]
    BY <1>1 DEF Begin
  <1>3. left.active = << >>
    BY DEF Seed, Reset, Fresh
  <1> HIDE DEF left
  <1>4. heap'[s] = left
    BY <1>2 DEF IInv, TypeOK
  <1>5. GuardMove(s)
    BY <1>3, <1>4 DEF GuardMove
  <1>6. QED  BY <1>2, <1>5, OneGuardMoves

LEMMA GuardsNext == ASSUME IInv, [Next]_vars PROVE GuardsMove
  <1>1. CASE HostCalls
    <2>1. due # << >> /\ IsSeq(due) /\ \A i \in DOMAIN due : CallShape(due[i])
      BY <1>1 DEF HostCalls, IInv, TypeOK, ScriptShape
    <2>2. CallShape(Head(due))
      BY <2>1, TailFacts
    <2>3. QED  BY <1>1, <2>2, ValidMovesGuards DEF HostCalls
  <1>2. CASE CallBack
    <2>1. CallShape([to |-> Step.to, at |-> Step.at, scope |-> << >>, depth |-> 0])
      BY EmptyList DEF CallShape
    <2>2. QED  BY <1>2, <2>1, ValidMovesGuards DEF CallBack
  <1>3. CASE ApplyBoolean
    <2>1. runs # << >>
      BY <1>3 DEF ApplyBoolean, Admitted, Running
    <2>2. StateShape(St) /\ St = heap[Run.st]
      BY <2>1, GuardState
    <2>3. CASE heap' = heap
      BY <2>3, SameGuards
    <2>4. CASE heap' # heap
      <3>1. \E errors : heap' = [heap EXCEPT ![Run.st] = [St EXCEPT !.errors = errors]]
        BY <1>3, <2>2, <2>4 DEF ApplyBoolean
      <3>2. PICK errors : heap' = [heap EXCEPT ![Run.st] = [St EXCEPT !.errors = errors]]
        BY <3>1
      <3>3. [St EXCEPT !.errors = errors].active = St.active
        BY <2>2 DEF StateShape
      <3>4. QED  BY <2>1, <3>2, <3>3, RecordsKeepGuards
    <2>5. QED  BY <2>3, <2>4
  <1>4. CASE EnterObject
    BY <1>4, EnterMovesGuards
  <1>5. CASE SkipUnknown
    <2>1. runs # << >>
      BY <1>5 DEF SkipUnknown, More, Running
    <2>2. StateShape(St) /\ St = heap[Run.st]
      BY <2>1, GuardState
    <2>3. CASE heap' = heap
      BY <2>3, SameGuards
    <2>4. CASE heap' # heap
      <3>1. heap' = [heap EXCEPT ![Run.st] = AddNote(St, Keyword)]
        BY <1>5, <2>2, <2>4 DEF SkipUnknown
      <3>2. AddNote(St, Keyword).active = St.active
        BY <2>2, AddNoteFacts
      <3>3. QED  BY <2>1, <3>1, <3>2, RecordsKeepGuards
    <2>5. QED  BY <2>3, <2>4
  <1>6. CASE EndKeyword
    <2>1. runs # << >>
      BY <1>6 DEF EndKeyword, Running
    <2>2. /\ St = heap[Run.st] /\ Told(St).active = St.active /\ StateShape(Told(St))
      BY <2>1, GuardState, ToldFacts
    <2>3. Decided(St).active = St.active
      BY <2>2 DEF Decided, StateShape
    <2>4. CASE heap' = heap
      BY <2>4, SameGuards
    <2>5. CASE heap' # heap
      <3>1. \/ heap' = [heap EXCEPT ![Run.st] = Told(St)]
            \/ heap' = [heap EXCEPT ![Run.st] = Decided(St)]
        BY <1>6, <2>2, <2>5 DEF EndKeyword
      <3>2. QED  BY <2>1, <2>2, <2>3, <3>1, RecordsKeepGuards
    <2>6. QED  BY <2>4, <2>5
  <1>7. CASE Leave
    <2>1. runs # << >> /\ Run.pc = "keyword"
      BY <1>7 DEF Leave, Running, Run
    <2>2. Run.acts # << >>
      BY <2>1, KeywordState
    <2>3. QED  BY <1>7, <2>1, <2>2, CloseMovesGuards DEF Leave
  <1>8. CASE Unwind
    BY <1>8, CloseMovesGuards DEF Unwind, Running
  <1>9. CASE TooDeep \/ Refuse \/ BeginKeyword \/ ApplyStep \/ Resume \/ Finish
             \/ CallerResumes \/ HostResumes \/ UNCHANGED vars
    BY <1>9, SameGuards
       DEF TooDeep, Refuse, BeginKeyword, ApplyStep, Resume, Finish, CallerResumes,
           HostResumes, vars
  <1>10. QED
    BY <1>1, <1>2, <1>3, <1>4, <1>5, <1>6, <1>7, <1>8, <1>9 DEF Next, Works

Repeated == \A s \in StateIds : RepeatsComeFromShallower(heap[s].active)

CInv == IInv /\ Repeated

\* An application is pushed only where the scan has not met it.
LEMMA OpenRepeats ==
  ASSUME NEW active, IsSeq(active), RepeatsComeFromShallower(active),
         NEW ask, ~Loops(active, ask),
         NEW e, e.on = ask.to, e.at = ask.at
  PROVE  RepeatsComeFromShallower(Append(active, e))
  <1> DEFINE n == Len(active)
             t == Append(active, e)
  <1>1. /\ n \in Nat /\ DOMAIN active = 1..n
        /\ Len(t) = n + 1 /\ DOMAIN t = 1..(n + 1)
        /\ \A i \in 1..n : t[i] = active[i]
        /\ t[n + 1] = e
    BY ListFacts, AppendFacts
  <1> HIDE DEF n, t
  <1>2. SUFFICES ASSUME NEW i \in 1..(n + 1), NEW j \in 1..(n + 1), i < j, t[i] = t[j]
                 PROVE  \E k \in i..j : Shallower(t[k], t[i].at)
    BY <1>1 DEF RepeatsComeFromShallower, t
  <1>3. i \in 1..n /\ t[i] = active[i]
    BY <1>1, <1>2
  <1>4. CASE j \in 1..n
    <2>1. active[i] = active[j]
      BY <1>1, <1>2, <1>3, <1>4
    <2>2. PICK k \in i..j : Shallower(active[k], active[i].at)
      BY <1>1, <1>2, <1>3, <1>4, <2>1 DEF RepeatsComeFromShallower
    <2>3. k \in 1..n
      BY <1>1, <1>3, <1>4, <2>2
    <2>4. QED  BY <1>1, <1>3, <2>2, <2>3
  <1>5. CASE j = n + 1
    <2>1. active[i] = e
      BY <1>1, <1>2, <1>3, <1>5
    <2>2. SameCursor(active[i], ask.at) /\ active[i].on = ask.to
      BY <2>1 DEF SameCursor
    <2>3. i \notin Scanned(active, ask.at)
      BY <2>2 DEF Loops
    <2>4. PICK k \in i..n : Shallower(active[k], ask.at)
      BY <1>1, <1>3, <2>3 DEF Scanned, n
    <2>5. k \in 1..n /\ k \in i..j
      BY <1>1, <1>3, <1>5, <2>4
    <2>6. t[k] = active[k] /\ t[i].at = ask.at
      BY <1>1, <1>3, <2>1, <2>5
    <2>7. QED  BY <2>4, <2>5, <2>6
  <1>6. QED  BY <1>1, <1>4, <1>5

LEMMA CloseRepeats ==
  ASSUME NEW active, IsSeq(active), active # << >>, RepeatsComeFromShallower(active)
  PROVE  RepeatsComeFromShallower(ButLast(active))
  <1> DEFINE n == Len(active)
             t == ButLast(active)
  <1>1. /\ n \in Nat /\ DOMAIN active = 1..n /\ n > 0
        /\ Len(t) = n - 1 /\ DOMAIN t = 1..(n - 1)
        /\ \A i \in 1..(n - 1) : t[i] = active[i]
    BY ListFacts, ButLastFacts
  <1> HIDE DEF n, t
  <1>2. SUFFICES ASSUME NEW i \in 1..(n - 1), NEW j \in 1..(n - 1), i < j, t[i] = t[j]
                 PROVE  \E k \in i..j : Shallower(t[k], t[i].at)
    BY <1>1 DEF RepeatsComeFromShallower, t
  <1>3. i \in 1..n /\ j \in 1..n /\ active[i] = active[j]
    BY <1>1, <1>2
  <1>4. PICK k \in i..j : Shallower(active[k], active[i].at)
    BY <1>1, <1>2, <1>3 DEF RepeatsComeFromShallower
  <1>5. k \in 1..(n - 1)
    BY <1>1, <1>4
  <1>6. QED  BY <1>1, <1>4, <1>5

LEMMA RepeatsNext == CInv /\ [Next]_vars => CInv'
  <1> SUFFICES ASSUME CInv, [Next]_vars  PROVE Repeated'
    <2>1. CInv => IInv
      BY DEF CInv
    <2>2. QED  BY <2>1, NextInv DEF CInv
  <1>1. IInv /\ GuardsMove
    BY GuardsNext DEF CInv
  <1>2. SUFFICES ASSUME NEW s \in StateIds  PROVE RepeatsComeFromShallower(heap'[s].active)
    BY DEF Repeated, RepeatsComeFromShallower, Shallower
  <1>3. /\ GuardMove(s) /\ IsSeq(heap[s].active) /\ RepeatsComeFromShallower(heap[s].active)
    BY <1>1 DEF GuardsMove, CInv, Repeated, IInv, TypeOK, StateShape
  <1>4. CASE heap'[s].active = heap[s].active
    BY <1>3, <1>4
  <1>5. CASE heap'[s].active = << >>
    BY <1>5, EmptyList DEF RepeatsComeFromShallower
  <1>6. CASE heap[s].active # << >> /\ heap'[s].active = ButLast(heap[s].active)
    BY <1>3, <1>6, CloseRepeats
  <1>7. CASE /\ EnterObject /\ s = Run.st
             /\ heap'[s].active = Append(heap[s].active, [on |-> Ask.to, at |-> Ask.at])
    <2> DEFINE e == [on |-> Ask.to, at |-> Ask.at]
    <2>1. e.on = Ask.to /\ e.at = Ask.at
      OBVIOUS
    <2> HIDE DEF e
    <2>2. ~Loops(heap[s].active, Ask)
      BY <1>7 DEF EnterObject, St
    <2>3. RepeatsComeFromShallower(Append(heap[s].active, e))
      BY <1>3, <2>1, <2>2, OpenRepeats
    <2>4. QED  BY <1>7, <2>3 DEF e
  <1>8. QED  BY <1>3, <1>4, <1>5, <1>6, <1>7 DEF GuardMove

\* An application is repeated while it is open only if one at a shallower
\* location lies between: where instance locations never get shallower, no
\* application repeats, and the guard need not look past the first shallower
\* entry (activeKeys and the loop in applySchema).
THEOREM RepeatsGoThroughShallower ==
  Spec => [](\A s \in StateIds : RepeatsComeFromShallower(heap[s].active))
  <1>1. Init => CInv
    <2> SUFFICES ASSUME Init  PROVE CInv
      OBVIOUS
    <2>1. \A s \in StateIds : heap[s].active = << >>
      BY DEF Init, Fresh
    <2>2. Repeated
      BY <2>1, EmptyList DEF Repeated, RepeatsComeFromShallower
    <2>3. QED  BY <2>2, InitInv DEF CInv
  <1>2. CInv => Repeated
    BY DEF CInv
  <1>3. QED  BY <1>1, <1>2, RepeatsNext, PTL DEF Spec, Repeated
=============================================================================
