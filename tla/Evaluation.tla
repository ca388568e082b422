------------------------------ MODULE Evaluation ------------------------------
(***************************************************************************)
(* The evaluator of core/src/engine.ts, one step of its control at a time, *)
(* behind the fragment runner that reuses its state: what a call to        *)
(* valid() does to the frames, the error list, the dynamic scope, the      *)
(* cycle guard and the depth, on every path out of it, thrown errors       *)
(* included; and what happens when a keyword runs user code that calls the *)
(* runner again.                                                           *)
(*                                                                         *)
(* The engine knows nothing of any keyword, and neither does this module:  *)
(* a keyword occurrence k is given by the applications it makes            *)
(* (KeywordSteps), and by its verdict, errors and data once they have      *)
(* answered (KeywordOutcome).  A custom keyword may do anything here.      *)
(***************************************************************************)
EXTENDS Integers, Sequences, FiniteSets

CONSTANTS
  SchemaKind(_),              \* "true", "false", "junk", "object" or "missing"
  SchemaBase(_),              \* the base URI of the resource it belongs to
  SchemaTable(_),             \* its keyword occurrences in evaluation order
  IsUnknown(_),               \* the occurrence is of no keyword of the dialect
  AllowsUnknownAt(_),         \* the dialect of the schema allows that
  KeywordReads(_, _),         \* the behaviors the keyword asks to see, if it gets there
  KeywordSteps(_, _, _),      \* occurrence, cursor, records seen
  KeywordTarget(_, _, _),     \* step, occurrence, dynamic scope
  KeywordOutcome(_, _, _, _), \* occurrence, cursor, records seen, verdicts
  Annotation(_),              \* the keyword's value is an annotation
  Produced, Consumed,         \* behavior ids declared by the registered schemas
  Scripts,                    \* sequences of calls [to, at, scope, depth] a host makes
  MaxDepth,
  StateIds, NoState

IsSeq(s) == s \in Seq({s[i] : i \in DOMAIN s})
CallShape(call) == IsSeq(call.scope) /\ call.depth \in Nat
ScriptShape(script) == IsSeq(script) /\ \A i \in DOMAIN script : CallShape(script[i])

ASSUME ScriptsAssumption == \A script \in Scripts : ScriptShape(script)
ASSUME MaxDepthAssumption == MaxDepth \in Nat

VARIABLES
  heap,      \* the evaluation states
  runs,      \* the calls in progress, outermost first
  pooled,    \* the state the runner keeps for reuse
  inUse,     \* the runner's re-entrancy flag
  eliding,   \* dependency data nobody consumes is not recorded
  due,       \* calls the host has yet to make
  last       \* the call that ended last, and how

vars == <<heap, runs, pooled, inUse, eliding, due, last>>

EmptyFrame == [deps |-> << >>, notes |-> << >>]
Fresh == [frames |-> <<EmptyFrame>>, errors |-> << >>, scope |-> << >>,
          active |-> << >>, depth |-> 0]

ButLast(seq) == SubSeq(seq, 1, Len(seq) - 1)
Top(seq) == seq[Len(seq)]
Drop(seq, n) == SubSeq(seq, 1, n)

Running(pc) == runs # << >> /\ Top(runs).pc = pc
Run == Top(runs)
Act == Top(Run.acts)
St  == heap[Run.st]
Continue(run) == [runs EXCEPT ![Len(runs)] = run]

\* The errors and the frame belong to the application; the guard, the scope
\* and the depth to the path.
Ends(call, run) == [call |-> call, thrown |-> run.thrown, ok |-> run.ok,
                    errors |-> heap[run.st].errors, root |-> heap[run.st].frames[1]]

Init ==
  /\ heap = [s \in StateIds |-> Fresh]
  /\ runs = << >>
  /\ pooled = NoState
  /\ inUse = FALSE
  /\ eliding \in BOOLEAN
  /\ due \in Scripts
  /\ last = << >>

(***************************************************************************)
(* The fragment runner.                                                    *)
(***************************************************************************)
InRuns == {runs[i].st : i \in DOMAIN runs}
Unused == {s \in StateIds : s \notin InRuns /\ s # pooled}

Reset(st, depth) == [Fresh EXCEPT !.depth = depth]
Seed(st, scope) == [st EXCEPT !.scope = @ \o scope]

Begin(call, s, reuse) ==
  /\ heap' = [heap EXCEPT ![s] = Seed(Reset(@, call.depth), call.scope)]
  /\ runs' = Append(runs, [st |-> s, call |-> call, reuse |-> reuse, pc |-> "apply",
                           acts |-> << >>, ok |-> FALSE, thrown |-> "",
                           ask |-> [to |-> call.to, at |-> call.at, path |-> << >>]])

\* (mutant) Every call takes the pooled state.
ValidPooled(call) ==
  /\ \E s \in IF pooled = NoState THEN Unused ELSE {pooled} :
       Begin(call, s, TRUE) /\ pooled' = s
  /\ inUse' = TRUE
\* A call inside a call gets a state of its own.
Valid(call) ==
  IF inUse
  THEN /\ \E s \in Unused : Begin(call, s, FALSE)
       /\ UNCHANGED <<pooled, inUse>>
  ELSE /\ \E s \in IF pooled = NoState THEN Unused ELSE {pooled} :
            Begin(call, s, TRUE) /\ pooled' = s
       /\ inUse' = TRUE

HostCalls ==
  /\ runs = << >>
  /\ due # << >>
  /\ Valid(Head(due))
  /\ due' = Tail(due)
  /\ UNCHANGED <<eliding, last>>

\* The end of a call, seen by the runner: a call that threw gives up the pool.
Settle(run) ==
  IF run.reuse THEN /\ inUse' = FALSE
                    /\ pooled' = IF run.thrown = "" THEN pooled ELSE NoState
  ELSE UNCHANGED <<inUse, pooled>>

Ended == Running("done") /\ Run.acts = << >>

HostResumes ==
  /\ Ended
  /\ Len(runs) = 1
  /\ Settle(Run)
  /\ last' = <<Ends(Run.call, Run)>>
  /\ runs' = << >>
  /\ UNCHANGED <<heap, eliding, due>>

\* The user code that made the call catches what it threw, or does not.
CallerResumes ==
  /\ Ended
  /\ Len(runs) > 1
  /\ Settle(Run)
  /\ last' = <<Ends(Run.call, Run)>>
  /\ LET outer == ButLast(runs)
         caller == Top(outer)
         act == Top(caller.acts)
         answered == [caller EXCEPT
                       !.acts = Append(ButLast(@), [act EXCEPT !.verdicts = Append(@, Run.ok)]),
                       !.pc = "step"]
         failed == [caller EXCEPT !.pc = "throw", !.thrown = Run.thrown]
     IN \/ runs' = [outer EXCEPT ![Len(outer)] = answered]
        \/ Run.thrown # "" /\ runs' = [outer EXCEPT ![Len(outer)] = failed]
  /\ UNCHANGED <<heap, eliding, due>>

(***************************************************************************)
(* applySchema: the ways an application can end before it begins.          *)
(***************************************************************************)
Ask == Run.ask
Throw(name) == [Run EXCEPT !.pc = "throw", !.thrown = name]
Answer(ok) == [Run EXCEPT !.pc = "return", !.ok = ok]

\* The guard scans from the innermost application and stops at the first that
\* is shallower in the instance.
SameCursor(a, c) == a.at = c
\* (mutant) The scan stops at any other location.
Elsewhere(a, c) == a.at # c
Shallower(a, c) == Len(a.at.loc) < Len(c.loc)
Scanned(active, c) ==
  {i \in DOMAIN active :
     \A j \in i..Len(active) : SameCursor(active[j], c) \/ ~Shallower(active[j], c)}
Loops(active, ask) ==
  \E i \in Scanned(active, ask.at) : SameCursor(active[i], ask.at) /\ active[i].on = ask.to

TooDeep ==
  /\ Running("apply")
  /\ St.depth >= MaxDepth
  /\ runs' = Continue(Throw("MaxDepth"))
  /\ UNCHANGED <<heap, pooled, inUse, eliding, due, last>>

Admitted == Running("apply") /\ St.depth < MaxDepth

ErrorOf(kw, on, at, path, about) ==
  [kw |-> kw, on |-> on, loc |-> at.loc, path |-> path, about |-> about]

ApplyBoolean ==
  /\ Admitted
  /\ SchemaKind(Ask.to) \in {"true", "false"}
  /\ LET ok == SchemaKind(Ask.to) = "true"
     IN /\ heap' = IF ok THEN heap
                   ELSE [heap EXCEPT ![Run.st].errors =
                          Append(@, ErrorOf("", Ask.to, Ask.at, Ask.path, << >>))]
        /\ runs' = Continue(Answer(ok))
  /\ UNCHANGED <<pooled, inUse, eliding, due, last>>

Refuse ==
  /\ Admitted
  /\ \/ /\ SchemaKind(Ask.to) = "junk"
        /\ runs' = Continue(Throw("InvalidSchema"))
     \/ /\ SchemaKind(Ask.to) = "object"
        /\ Loops(St.active, Ask)
        /\ runs' = Continue(Throw("InfiniteLoop"))
  /\ UNCHANGED <<heap, pooled, inUse, eliding, due, last>>

Open(st, ask, pushed) ==
  [st EXCEPT !.depth  = @ + 1,
             !.active = Append(@, [on |-> ask.to, at |-> ask.at]),
             !.scope  = IF pushed THEN Append(@, SchemaBase(ask.to)) ELSE @,
             !.frames = Append(@, EmptyFrame)]

EnterObject ==
  /\ Admitted
  /\ SchemaKind(Ask.to) = "object"
  /\ ~Loops(St.active, Ask)
  /\ LET pushed == St.scope = << >> \/ Top(St.scope) # SchemaBase(Ask.to)
     IN /\ heap' = [heap EXCEPT ![Run.st] = Open(@, Ask, pushed)]
        /\ runs' = Continue([Run EXCEPT
             !.acts = Append(@, [on |-> Ask.to, at |-> Ask.at, path |-> Ask.path,
                                 next |-> 1, valid |-> TRUE, pushed |-> pushed,
                                 mark |-> 0, steps |-> << >>, verdicts |-> << >>]),
             !.pc = "keyword"])
  /\ UNCHANGED <<pooled, inUse, eliding, due, last>>

(***************************************************************************)
(* evaluateKeyword, for each keyword of the open application in turn.      *)
(***************************************************************************)
Keyword == SchemaTable(Act.on)[Act.next]
\* (mutant) The last keyword is not reached.
MoreButOne == Running("keyword") /\ Act.next < Len(SchemaTable(Act.on))
More == Running("keyword") /\ Act.next <= Len(SchemaTable(Act.on))
WithAct(act) == [Run EXCEPT !.acts = Append(ButLast(@), act)]

\* (mutant) then and else see the if of any schema.
SeenAnywhere(k) ==
  SelectSeq(Top(St.frames).deps, LAMBDA d : d.loc = Act.at.loc /\ d.id \in k.reads)
Visible(deps, k, at, path) ==
  SelectSeq(deps, LAMBDA d : /\ d.loc = at.loc
                             /\ d.id \in k.reads
                             /\ k.adjacent => d.path = path)
Seen(k) == Visible(Top(St.frames).deps, k, Act.at, Act.path)

AddNote(st, k) ==
  [st EXCEPT !.frames[Len(st.frames)].notes =
     Append(@, [kw |-> k.kw, on |-> k.on, loc |-> Act.at.loc, path |-> Act.path])]

\* An unknown keyword is an annotation, where the dialect allows one.
SkipUnknown ==
  /\ More
  /\ IsUnknown(Keyword)
  /\ IF AllowsUnknownAt(Act.on)
     THEN /\ heap' = IF eliding THEN heap ELSE [heap EXCEPT ![Run.st] = AddNote(@, Keyword)]
          /\ runs' = Continue(WithAct([Act EXCEPT !.next = @ + 1]))
     ELSE /\ runs' = Continue(Throw("UnknownKeyword"))
          /\ heap' = heap
  /\ UNCHANGED <<pooled, inUse, eliding, due, last>>

BeginKeyword ==
  /\ More
  /\ ~IsUnknown(Keyword)
  /\ IF eliding /\ ~(KeywordReads(Keyword, Act.at) \subseteq Consumed)
     THEN runs' = Continue(Throw("UndeclaredConsumption"))
     ELSE runs' = Continue([WithAct([Act EXCEPT
            !.mark = Len(St.errors),
            !.steps = KeywordSteps(Keyword, Act.at, Seen(Keyword)),
            !.verdicts = << >>]) EXCEPT !.pc = "step"])
  /\ UNCHANGED <<heap, pooled, inUse, eliding, due, last>>

Stepping == Running("step") /\ Len(Act.verdicts) < Len(Act.steps)
Step == Act.steps[Len(Act.verdicts) + 1]

\* A reference that names no schema throws before anything is applied.
ApplyStep ==
  /\ Stepping
  /\ Step.how # "call"
  /\ LET to == KeywordTarget(Step, Keyword, St.scope)
     IN runs' = IF SchemaKind(to) = "missing" THEN Continue(Throw("Unresolvable"))
                ELSE Continue([Run EXCEPT !.pc = "apply",
                       !.ask = [to |-> to, at |-> Step.at, path |-> Act.path \o Step.segs]])
  /\ UNCHANGED <<heap, pooled, inUse, eliding, due, last>>

\* User code run by the keyword calls the runner.
CallBack ==
  /\ Stepping
  /\ Step.how = "call"
  /\ Valid([to |-> Step.to, at |-> Step.at, scope |-> << >>, depth |-> 0])
  /\ UNCHANGED <<eliding, due, last>>

Resume ==
  /\ Running("return")
  /\ Run.acts # << >>
  /\ runs' = Continue([WithAct([Act EXCEPT !.verdicts = Append(@, Run.ok)]) EXCEPT
                        !.pc = "step"])
  /\ UNCHANGED <<heap, pooled, inUse, eliding, due, last>>

Outcome == KeywordOutcome(Keyword, Act.at, Seen(Keyword), Act.verdicts)
Reports == [i \in DOMAIN Outcome.reports |->
             ErrorOf(Keyword.kw, Keyword.on, Act.at, Act.path, Outcome.reports[i])]
Records == [i \in DOMAIN Outcome.data |->
             [id |-> Keyword.id, loc |-> Act.at.loc, path |-> Act.path,
              data |-> Outcome.data[i]]]
Kept == IF eliding /\ Keyword.id \notin Consumed THEN << >> ELSE Records

\* What the keyword annotates, produces and reports goes to the state as it
\* runs; if it then accepts, the errors from its mark on are dropped.
Told(st) ==
  LET noted == IF Annotation(Keyword) /\ ~eliding THEN AddNote(st, Keyword) ELSE st
  IN [noted EXCEPT !.frames[Len(st.frames)].deps = @ \o Kept,
                   !.errors = @ \o Reports]
\* (mutant) No error is dropped.
DecidedKeeping(st) == Told(st)
Decided(st) == IF Outcome.ok THEN [Told(st) EXCEPT !.errors = Drop(@, Act.mark)] ELSE Told(st)

\* A keyword may produce only what some schema declares, and may not report an
\* error and accept.
EndKeyword ==
  /\ Running("step")
  /\ Len(Act.verdicts) = Len(Act.steps)
  /\ \/ /\ Outcome.data # << >>
        /\ Keyword.id \notin Produced
        /\ runs' = Continue(Throw("UndeclaredProduction"))
        /\ heap' = heap
     \/ /\ Outcome.data = << >> \/ Keyword.id \in Produced
        /\ Outcome.ok /\ Outcome.reports # << >>
        /\ runs' = Continue(Throw("KeywordContract"))
        /\ heap' = [heap EXCEPT ![Run.st] = Told(@)]
     \/ /\ Outcome.data = << >> \/ Keyword.id \in Produced
        /\ Outcome.ok => Outcome.reports = << >>
        /\ heap' = [heap EXCEPT ![Run.st] = Decided(@)]
        /\ runs' = Continue([WithAct([Act EXCEPT !.valid = @ /\ Outcome.ok,
                                                 !.next = @ + 1]) EXCEPT !.pc = "keyword"])
  /\ UNCHANGED <<pooled, inUse, eliding, due, last>>

(***************************************************************************)
(* The finally block of an application, reached by either way out.         *)
(***************************************************************************)
Merge(frames, valid) ==
  LET own == Top(frames)
      rest == ButLast(frames)
  IN IF valid
     THEN [rest EXCEPT ![Len(rest)] = [deps |-> @.deps \o own.deps, notes |-> @.notes \o own.notes]]
     ELSE rest

\* (mutants) The depth is given back twice; a rejecting schema keeps its scope.
CloseTwice(st, act) ==
  [st EXCEPT !.frames = Merge(@, act.valid), !.scope = IF act.pushed THEN ButLast(@) ELSE @,
             !.active = ButLast(@), !.depth = @ - 2]
CloseIfPassed(st, act) ==
  [st EXCEPT !.frames = Merge(@, act.valid),
             !.scope = IF act.pushed /\ act.valid THEN ButLast(@) ELSE @,
             !.active = ButLast(@), !.depth = @ - 1]
Close(st, act) ==
  [st EXCEPT !.frames = Merge(@, act.valid),
             !.scope  = IF act.pushed THEN ButLast(@) ELSE @,
             !.active = ButLast(@),
             !.depth  = @ - 1]

Leave ==
  /\ Running("keyword")
  /\ Act.next > Len(SchemaTable(Act.on))
  /\ heap' = [heap EXCEPT ![Run.st] = Close(@, Act)]
  /\ runs' = Continue([Run EXCEPT !.acts = ButLast(@), !.ok = Act.valid, !.pc = "return"])
  /\ UNCHANGED <<pooled, inUse, eliding, due, last>>

Unwind ==
  /\ Running("throw")
  /\ Run.acts # << >>
  /\ heap' = [heap EXCEPT ![Run.st] = Close(@, Act)]
  /\ runs' = Continue([Run EXCEPT !.acts = ButLast(@)])
  /\ UNCHANGED <<pooled, inUse, eliding, due, last>>

Finish ==
  /\ Running("return") \/ Running("throw")
  /\ Run.acts = << >>
  /\ runs' = Continue([Run EXCEPT !.pc = "done"])
  /\ UNCHANGED <<heap, pooled, inUse, eliding, due, last>>

Works ==
  \/ TooDeep \/ ApplyBoolean \/ Refuse \/ EnterObject
  \/ SkipUnknown \/ BeginKeyword \/ ApplyStep \/ CallBack \/ Resume \/ EndKeyword
  \/ Leave \/ Unwind \/ Finish \/ CallerResumes \/ HostResumes

Next == HostCalls \/ Works

\* JavaScript runs a call to its end: a step that can be taken is.
Spec == Init /\ [][Next]_vars /\ WF_vars(Works)
-----------------------------------------------------------------------------
(***************************************************************************)
(* Properties.                                                             *)
(***************************************************************************)
StateShape(st) ==
  /\ DOMAIN st = {"frames", "errors", "scope", "active", "depth"}
  /\ IsSeq(st.frames) /\ IsSeq(st.scope) /\ IsSeq(st.active)
  /\ st.depth \in Nat

ActShape(act) ==
  DOMAIN act = {"on", "at", "path", "next", "valid", "pushed", "mark", "steps", "verdicts"}

RunShape(run) ==
  /\ DOMAIN run = {"st", "call", "reuse", "pc", "acts", "ok", "thrown", "ask"}
  /\ run.st \in StateIds
  /\ CallShape(run.call)
  /\ run.reuse \in BOOLEAN
  /\ run.pc \in {"apply", "keyword", "step", "return", "throw", "done"}
  /\ IsSeq(run.acts) /\ \A j \in DOMAIN run.acts : ActShape(run.acts[j])
  /\ run.pc \in {"keyword", "step"} => run.acts # << >>
  /\ run.pc = "done" => run.acts = << >>

\* States, runs and the pool have the shapes their code gives them.  What the
\* records in them hold is the keywords' affair.
TypeOK ==
  /\ DOMAIN heap = StateIds
  /\ \A s \in StateIds : StateShape(heap[s])
  /\ IsSeq(runs)
  /\ \A i \in DOMAIN runs : RunShape(runs[i])
  /\ pooled \in StateIds \union {NoState}
  /\ inUse \in BOOLEAN
  /\ ScriptShape(due)

\* No two calls in progress evaluate on the same state, and only the call that
\* took the pool can be on the pooled state: the re-entrancy rule of
\* createFragmentRunner's comment.
StatesAreApart ==
  /\ \A i, j \in DOMAIN runs : i # j => runs[i].st # runs[j].st
  /\ \A i \in DOMAIN runs : runs[i].reuse <=> i = 1
  /\ inUse <=> runs # << >>
  /\ runs # << >> => pooled = runs[1].st

PushedIn(acts) == {j \in 1..Len(acts) : acts[j].pushed}
Balanced(run, st) ==
  /\ Len(st.frames) = Len(run.acts) + 1
  /\ Len(st.active) = Len(run.acts)
  /\ st.depth = run.call.depth + Len(run.acts)
  /\ Len(st.scope) = Len(run.call.scope) + Cardinality(PushedIn(run.acts))

\* On every path, thrown errors included, the stacks of a state are as deep as
\* the applications open on it; at the end of a call they are back where the
\* call found them (reset()'s comment: a completed run leaves the frame and
\* guard stacks balanced).
StacksBalance == \A i \in DOMAIN runs : Balanced(runs[i], heap[runs[i].st])

\* Rule 6 of the channel: a call that accepts leaves no error behind, whatever
\* the keywords it ran reported on the way.
AcceptanceIsClean ==
  \A i \in DOMAIN last : last[i].ok /\ last[i].thrown = "" => last[i].errors = << >>

RepeatsComeFromShallower(active) ==
  \A i, j \in DOMAIN active :
    i < j /\ active[i] = active[j] => \E k \in i..j : Shallower(active[k], active[i].at)

RepeatsComeOnce(active) ==
  \A i, j \in DOMAIN active :
    i < j /\ active[i] = active[j] => \A k \in (j + 1)..Len(active) : active[k] # active[j]

\* A schema is applied again at a location where it is open only from a
\* shallower one, and the turn that began there is caught before it ends: the
\* scan may stop at the first shallower entry (the comment on activeKeys).
CyclesAreCaught ==
  \A s \in StateIds : /\ RepeatsComeFromShallower(heap[s].active)
                      /\ RepeatsComeOnce(heap[s].active)

\* A call returns or throws: MaxDepth bounds what the cycle guard cannot see.
CallsEnd == runs # << >> ~> runs = << >>
=============================================================================
