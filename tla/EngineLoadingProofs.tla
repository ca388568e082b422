-------------------------- MODULE EngineLoadingProofs --------------------------
(***************************************************************************)
(* Proofs about EngineLoading, for any number of concurrent calls and any  *)
(* family of documents, loaders and failures.                              *)
(*                                                                         *)
(* A step of a call puts frames in the place of the one that was on top of *)
(* its stack.  Moves states once what such a step must guarantee; each     *)
(* action is then shown to guarantee it.                                   *)
(***************************************************************************)
EXTENDS EngineLoading, InductionLemmas, FiniteSetTheorems, SequenceTheorems, TLAPS

\* A call has suspended functions exactly while it is in flight.
StacksMatchStatus == \A c \in Calls : status[c] \in Settled <=> stack[c] = << >>

\* The assemblies of dialect e in progress, and that there is at most one.
Owner(c, i, e) ==
  /\ i \in DOMAIN stack[c]
  /\ Assembling(stack[c][i])
  /\ stack[c][i].uri = e
Owned(e) ==
  /\ e \in assembling <=> \E c \in Calls : \E i \in Nat : Owner(c, i, e)
  /\ \A c, d \in Calls : \A i, j \in Nat : Owner(c, i, e) /\ Owner(d, j, e) => c = d /\ i = j

\* Behind an assembly whose metaschema arrived, the metaschema is registered,
\* is being registered by the function it waits for, or has just failed to be.
Grounded(c, i) ==
  stack[c][i].at \in {"assemble", "settle"} =>
    \/ Has(stack[c][i].uri)
    \/ i = 1 /\ status[c] = "throwing"
    \/ i > 1 /\ stack[c][i - 1].at = "register" /\ At[stack[c][i - 1].doc] = stack[c][i].uri

\* Reference r is registered, queued, attempted, or some call is about it.
Covered(r) ==
  \/ Has(r) \/ r \in ToSet(pending) \/ r \in attempts
  \/ \E c \in Calls : \E i \in DOMAIN stack[c] : r \in Attempted(stack[c][i])

IInv ==
  /\ TypeOK
  /\ StacksMatchStatus
  /\ \A e \in URIs : Owned(e)
  /\ \A c \in Calls : \A i \in DOMAIN stack[c] : Grounded(c, i)
  /\ AssembledHasMetaschema
  /\ NoReferenceLost

-----------------------------------------------------------------------------
(* Frames.                                                                 *)

LEMMA FrameFacts ==
  ASSUME NEW f \in Frames
  PROVE  /\ f.at \in {"register", "fetch", "meta", "settle", "assemble", "drain"}
         /\ f.at = "register" => f.doc \in Docs /\ f.attempted \in SUBSET URIs
         /\ f.at \in {"fetch", "meta", "settle", "assemble"} => f.uri \in URIs
         /\ f.at = "assemble" => f.doc \in Docs
         /\ f.at = "fetch" => f.must \in BOOLEAN
  BY DEF Frames

LEMMA FrameKinds ==
  /\ \A d \in Docs, s \in SUBSET URIs : [at |-> "register", doc |-> d, attempted |-> s] \in Frames
  /\ \A u \in URIs, m \in BOOLEAN : [at |-> "fetch", uri |-> u, must |-> m] \in Frames
  /\ \A u \in URIs : [at |-> "meta", uri |-> u] \in Frames
  /\ \A u \in URIs : [at |-> "settle", uri |-> u] \in Frames
  /\ \A u \in URIs, d \in Docs : [at |-> "assemble", uri |-> u, doc |-> d] \in Frames
  /\ [at |-> "drain"] \in Frames
  BY DEF Frames

LEMMA AttemptedFacts ==
  ASSUME NEW f \in Frames
  PROVE  /\ f.at = "register" => Attempted(f) = {At[f.doc]}
         /\ f.at = "drain" => Attempted(f) = {}
         /\ f.at \in {"fetch", "meta", "settle", "assemble"} => Attempted(f) = {f.uri}
  BY FrameFacts DEF Attempted

\* A stack after the frame on top gave way to others.
LEMMA Restacked ==
  ASSUME NEW s \in Seq(Frames), s # << >>, NEW frames \in Seq(Frames)
  PROVE  LET t == frames \o Tail(s)
             n == Len(frames)
         IN /\ t \in Seq(Frames)
            /\ n \in Nat /\ Len(s) \in Nat /\ Len(s) > 0
            /\ DOMAIN t = 1..(n + Len(s) - 1)
            /\ DOMAIN s = 1..Len(s)
            /\ \A i \in 1..n : t[i] = frames[i]
            /\ \A i \in 2..Len(s) : t[i + n - 1] = s[i]
            /\ \A i \in (n + 1)..(n + Len(s) - 1) : t[i] = s[i - n + 1]
  OBVIOUS

LEMMA Pairs ==
  ASSUME NEW S, NEW f \in S, NEW g \in S
  PROVE  /\ <<f>> \in Seq(S) /\ Len(<<f>>) = 1 /\ <<f>>[1] = f
         /\ <<f, g>> \in Seq(S) /\ Len(<<f, g>>) = 2
         /\ <<f, g>>[1] = f /\ <<f, g>>[2] = g
         /\ << >> \in Seq(S) /\ Len(<< >>) = 0
  OBVIOUS

-----------------------------------------------------------------------------
(* What a step of call c does when it puts frames where its top frame was. *)

Moves(c, frames) ==
  /\ TypeOK
  /\ stack[c] # << >>
  /\ frames \in Seq(Frames)
  /\ stack' = [stack EXCEPT ![c] = frames \o Tail(@)]

LEMMA Moved ==
  ASSUME NEW c \in Calls, NEW frames, Moves(c, frames)
  PROVE  LET n == Len(frames)
             s == stack[c]
             t == (stack[c])'
         IN /\ stack' \in [Calls -> Seq(Frames)]
            /\ \A x \in Calls \ {c} : (stack[x])' = stack[x]
            /\ s \in Seq(Frames) /\ t \in Seq(Frames)
            /\ n \in Nat /\ Len(s) \in Nat /\ Len(s) > 0 /\ Len(t) = n + Len(s) - 1
            /\ DOMAIN t = 1..(n + Len(s) - 1)
            /\ DOMAIN s = 1..Len(s)
            /\ DOMAIN frames = 1..n
            /\ \A i \in 1..n : t[i] = frames[i]
            /\ \A i \in 2..Len(s) : t[i + n - 1] = s[i]
            /\ \A i \in (n + 1)..(n + Len(s) - 1) : t[i] = s[i - n + 1]
<1>1. /\ stack \in [Calls -> Seq(Frames)]
      /\ stack[c] \in Seq(Frames)
      /\ frames \in Seq(Frames)
  BY DEF Moves, TypeOK
<1>2. (stack[c])' = frames \o Tail(stack[c])
  BY <1>1 DEF Moves
<1>3. \A x \in Calls \ {c} : (stack[x])' = stack[x]
  BY <1>1 DEF Moves
<1>4. frames \o Tail(stack[c]) \in Seq(Frames)
  BY <1>1, Restacked DEF Moves
<1>5. stack' \in [Calls -> Seq(Frames)]
  BY <1>1, <1>4 DEF Moves
<1>6. stack[c] # << >>
  BY DEF Moves
<1>7. /\ Len(frames) \in Nat
      /\ DOMAIN frames = 1..Len(frames)
  BY <1>1
<1>8. Len(frames \o Tail(stack[c])) = Len(frames) + Len(stack[c]) - 1
  BY <1>1, <1>6
<1> QED
  BY <1>1, <1>2, <1>3, <1>4, <1>5, <1>6, <1>7, <1>8, Restacked

\* Frame f is an assembly of dialect e.
Owns(f, e) == Assembling(f) /\ f.uri = e

\* Of each dialect, the new frames and the mark must agree.
LEMMA OwnersMove ==
  ASSUME NEW c \in Calls, NEW frames, Moves(c, frames), NEW e, Owned(e),
         \A i, j \in DOMAIN frames : Owns(frames[i], e) /\ Owns(frames[j], e) => i = j,
         (\E i \in DOMAIN frames : Owns(frames[i], e)) =>
            e \notin assembling \/ Owns(stack[c][1], e),
         e \in assembling' <=>
           \/ \E i \in DOMAIN frames : Owns(frames[i], e)
           \/ e \in assembling /\ ~Owns(stack[c][1], e)
  PROVE  Owned(e)'
<1> DEFINE n == Len(frames)
           m == Len(stack[c])
           Old(x, i) == Owner(x, i, e)
           New1(x, i) == Owner(x, i, e)'
           Fresh(i) == i \in 1..n /\ Owns(frames[i], e)
<1>1. \A x \in Calls \ {c}, i \in Nat : New1(x, i) <=> Old(x, i)
  BY Moved DEF Owner, Assembling
<1>2. \A i \in Nat : Old(c, i) <=> i \in 1..m /\ Owns(stack[c][i], e)
  BY Moved DEF Owner, Owns
<1>3. \A i \in Nat : New1(c, i) <=> i \in 1..(n + m - 1) /\ Owns((stack[c])'[i], e)
  BY Moved DEF Owner, Owns, Assembling
<1>4. /\ n \in Nat /\ m \in Nat /\ m > 0
      /\ DOMAIN frames = 1..n
      /\ \A i \in 1..n : (stack[c])'[i] = frames[i]
      /\ \A i \in 2..m : (stack[c])'[i + n - 1] = stack[c][i]
      /\ \A i \in (n + 1)..(n + m - 1) : (stack[c])'[i] = stack[c][i - n + 1]
  BY Moved
<1> HIDE DEF n, m
<1>5. \A i \in Nat : New1(c, i) <=> Fresh(i) \/ (i > n /\ Old(c, i - n + 1) /\ i - n + 1 \in 2..m)
  <2> SUFFICES ASSUME NEW i \in Nat
               PROVE  New1(c, i) <=> Fresh(i) \/ (i > n /\ Old(c, i - n + 1) /\ i - n + 1 \in 2..m)
    OBVIOUS
  <2>1. CASE i \in 1..n
    <3>1. i \in 1..(n + m - 1) /\ ~(i > n)
      BY <2>1, <1>4
    <3> QED BY <2>1, <3>1, <1>3, <1>4
  <2>2. CASE i \in (n + 1)..(n + m - 1)
    <3>1. /\ i \in 1..(n + m - 1) /\ i \notin 1..n /\ i > n
          /\ i - n + 1 \in 2..m /\ i - n + 1 \in Nat /\ i - n + 1 \in 1..m
      BY <2>2, <1>4
    <3> QED BY <2>2, <3>1, <1>2, <1>3, <1>4
  <2>3. CASE i \notin 1..n /\ i \notin (n + 1)..(n + m - 1)
    <3>1. i \notin 1..(n + m - 1) /\ ~(i > n /\ i - n + 1 \in 2..m)
      BY <2>3, <1>4
    <3> QED BY <2>3, <3>1, <1>3
  <2> QED BY <2>1, <2>2, <2>3
<1>6. \A i \in 2..m : Old(c, i) => New1(c, i + n - 1)
  <2> SUFFICES ASSUME NEW i \in 2..m, Old(c, i)  PROVE New1(c, i + n - 1)
    OBVIOUS
  <2>1. i + n - 1 \in 1..(n + m - 1) /\ i + n - 1 \in Nat /\ i \in Nat
    BY <1>4
  <2> QED BY <2>1, <1>2, <1>3, <1>4
<1>7. Old(c, 1) <=> Owns(stack[c][1], e)
  BY <1>2, <1>4
<1>8. /\ e \in assembling <=> \E x \in Calls : \E i \in Nat : Old(x, i)
      /\ \A x, y \in Calls : \A i, j \in Nat : Old(x, i) /\ Old(y, j) => x = y /\ i = j
  BY DEF Owned
<1>9. SUFFICES
        /\ e \in assembling' <=> \E x \in Calls : \E i \in Nat : New1(x, i)
        /\ \A x, y \in Calls : \A i, j \in Nat : New1(x, i) /\ New1(y, j) => x = y /\ i = j
  BY DEF Owned
<1>10. \A i \in DOMAIN frames : Owns(frames[i], e) <=> Fresh(i)
  BY <1>4
<1>11. \A i : Fresh(i) => i \in DOMAIN frames /\ i \in Nat
  BY <1>4
<1>12. \A i \in Nat : Old(c, i) => i \in 1..m
  BY <1>2
<1> HIDE DEF Old, New1, Fresh
<1>13. (\E i \in Nat : Fresh(i)) => \A x \in Calls : \A i \in Nat : Old(x, i) => x = c /\ i = 1
  <2>1. 1 \in Nat
    OBVIOUS
  <2> QED BY <2>1, <1>7, <1>8, <1>10, <1>11
<1>14. \A x, y \in Calls : \A i, j \in Nat : New1(x, i) /\ New1(y, j) => x = y /\ i = j
  <2> SUFFICES ASSUME NEW x \in Calls, NEW y \in Calls, NEW i \in Nat, NEW j \in Nat,
                      New1(x, i), New1(y, j)
               PROVE  x = y /\ i = j
    OBVIOUS
  <2>1. CASE x # c /\ y # c
    BY <2>1, <1>1, <1>8
  <2>2. CASE x = c /\ y = c
    <3>1. CASE Fresh(i) /\ Fresh(j)
      BY <2>2, <3>1, <1>10, <1>11
    <3>2. CASE ~Fresh(i) /\ ~Fresh(j)
      <4>1. /\ i - n + 1 \in 2..m /\ Old(c, i - n + 1)
            /\ j - n + 1 \in 2..m /\ Old(c, j - n + 1)
        BY <2>2, <3>2, <1>5
      <4>2. i - n + 1 \in Nat /\ j - n + 1 \in Nat
        BY <4>1, <1>4
      <4>3. i - n + 1 = j - n + 1
        BY <4>1, <4>2, <1>8
      <4> QED BY <4>3, <2>2, <1>4
    <3>3. CASE Fresh(i) /\ ~Fresh(j)
      <4>1. j - n + 1 \in 2..m /\ Old(c, j - n + 1)
        BY <2>2, <3>3, <1>5
      <4>2. j - n + 1 \in Nat /\ j - n + 1 # 1
        BY <4>1, <1>4
      <4> QED BY <4>1, <4>2, <3>3, <1>13
    <3>4. CASE ~Fresh(i) /\ Fresh(j)
      <4>1. i - n + 1 \in 2..m /\ Old(c, i - n + 1)
        BY <2>2, <3>4, <1>5
      <4>2. i - n + 1 \in Nat /\ i - n + 1 # 1
        BY <4>1, <1>4
      <4> QED BY <4>1, <4>2, <3>4, <1>13
    <3> QED BY <3>1, <3>2, <3>3, <3>4
  <2>3. \A z \in Calls, k \in Nat, l \in Nat : z # c /\ New1(z, k) => ~New1(c, l)
    <3> SUFFICES ASSUME NEW z \in Calls, NEW k \in Nat, NEW l \in Nat,
                        z # c, New1(z, k), New1(c, l)
                 PROVE  FALSE
      OBVIOUS
    <3>1. Old(z, k)
      BY <1>1
    <3>2. ~Fresh(l)
      BY <3>1, <1>13
    <3>3. Old(c, l - n + 1) /\ l - n + 1 \in 2..m
      BY <3>2, <1>5
    <3>4. l - n + 1 \in Nat
      BY <3>3, <1>4
    <3> QED BY <3>1, <3>3, <3>4, <1>8
  <2> QED BY <2>1, <2>2, <2>3
<1>15. ASSUME e \in assembling'
       PROVE  \E x \in Calls : \E i \in Nat : New1(x, i)
  <2>1. CASE \E i \in DOMAIN frames : Owns(frames[i], e)
    BY <2>1, <1>5, <1>10, <1>11
  <2>2. CASE e \in assembling /\ ~Owns(stack[c][1], e)
    <3>1. PICK x \in Calls : \E i \in Nat : Old(x, i)
      BY <2>2, <1>8
    <3>2. PICK i \in Nat : Old(x, i)
      BY <3>1
    <3>3. CASE x # c
      BY <3>2, <3>3, <1>1
    <3>4. CASE x = c
      <4>1. i \in 2..m
        BY <3>2, <3>4, <2>2, <1>7, <1>12, <1>4
      <4>2. i + n - 1 \in Nat
        BY <4>1, <1>4
      <4> QED BY <4>1, <4>2, <3>2, <3>4, <1>6
    <3> QED BY <3>3, <3>4
  <2> QED BY <1>15, <2>1, <2>2
<1>16. ASSUME NEW x \in Calls, NEW i \in Nat, New1(x, i)
       PROVE  e \in assembling'
  <2>1. CASE x # c
    <3>1. Old(x, i)
      BY <1>16, <2>1, <1>1
    <3>2. e \in assembling
      BY <3>1, <1>8
    <3>3. 1 \in Nat
      OBVIOUS
    <3>4. ~Owns(stack[c][1], e)
      BY <3>1, <3>3, <2>1, <1>7, <1>8
    <3> QED BY <3>2, <3>4
  <2>2. CASE x = c /\ Fresh(i)
    <3>1. i \in DOMAIN frames /\ Owns(frames[i], e)
      BY <2>2, <1>10, <1>11
    <3>2. \E j \in DOMAIN frames : Owns(frames[j], e)
      BY <3>1
    <3> QED BY <3>2
  <2>3. CASE x = c /\ ~Fresh(i)
    <3>1. Old(c, i - n + 1) /\ i - n + 1 \in 2..m
      BY <1>16, <2>3, <1>5
    <3>2. i - n + 1 \in Nat /\ i - n + 1 # 1 /\ 1 \in Nat
      BY <3>1, <1>4
    <3>3. e \in assembling
      BY <3>1, <3>2, <1>8
    <3>4. ~Owns(stack[c][1], e)
      BY <3>1, <3>2, <1>7, <1>8
    <3> QED BY <3>3, <3>4
  <2> QED BY <2>1, <2>2, <2>3
<1> QED BY <1>14, <1>15, <1>16

\* Where the metaschema of an assembly is, the new frames must keep.
LEMMA GroundsMove ==
  ASSUME NEW c \in Calls, NEW frames, Moves(c, frames),
         \A x \in Calls : \A i \in DOMAIN stack[x] : Grounded(x, i),
         \A u \in URIs : Has(u) => Has(u)',
         \A x \in Calls \ {c} : status'[x] = status[x],
         \A i \in DOMAIN frames : frames[i].at \in {"assemble", "settle"} =>
           \/ documents'[frames[i].uri] # None
           \/ i > 1 /\ frames[i - 1].at = "register" /\ At[frames[i - 1].doc] = frames[i].uri,
         stack[c][1].at = "register" =>
           \/ documents'[At[stack[c][1].doc]] # None
           \/ frames = << >> /\ status'[c] = "throwing"
           \/ Len(stack[c]) = 1
           \/ LET last == frames[Len(frames)]
              IN frames # << >> /\ last.at = "register" /\ At[last.doc] = At[stack[c][1].doc]
  PROVE  \A x \in Calls : \A i \in DOMAIN stack'[x] : Grounded(x, i)'
<1> DEFINE n == Len(frames)
           m == Len(stack[c])
           t == (stack[c])'
<1>1. /\ n \in Nat /\ m \in Nat /\ m > 0
      /\ DOMAIN frames = 1..n
      /\ DOMAIN stack[c] = 1..m
      /\ DOMAIN t = 1..(n + m - 1)
      /\ \A i \in 1..n : t[i] = frames[i]
      /\ \A i \in 2..m : t[i + n - 1] = stack[c][i]
      /\ \A i \in (n + 1)..(n + m - 1) : t[i] = stack[c][i - n + 1]
      /\ \A i \in 1..m : stack[c][i] \in Frames
  BY Moved
<1>2. \A x \in Calls \ {c} : (stack[x])' = stack[x] /\ stack[x] \in Seq(Frames)
  BY Moved DEF Moves, TypeOK
<1>3. frames = << >> <=> n = 0
  BY DEF Moves
<1> HIDE DEF n, m, t
<1>4. ASSUME NEW x \in Calls \ {c}, NEW i \in DOMAIN (stack[x])'
      PROVE  Grounded(x, i)'
  <2>1. i \in DOMAIN stack[x] /\ Grounded(x, i) /\ (stack[x])' = stack[x]
    BY <1>2
  <2>2. stack[x][i] \in Frames
    BY <1>2, <2>1
  <2>3. stack[x][i].at \in {"assemble", "settle"} => stack[x][i].uri \in URIs
    BY <2>2, FrameFacts
  <2> QED BY <2>1, <2>3 DEF Grounded
<1>5. ASSUME NEW i \in 1..n
      PROVE  Grounded(c, i)'
  <2>1. t[i] = frames[i] /\ (i > 1 => t[i - 1] = frames[i - 1])
    <3>1. i > 1 => i - 1 \in 1..n
      BY ONLY <1>1
    <3>2. \A j \in 1..n : t[j] = frames[j]
      BY ONLY <1>1
    <3> QED BY ONLY <3>1, <3>2, i \in 1..n
  <2>2. t[i].at \in {"assemble", "settle"} =>
          \/ documents'[t[i].uri] # None
          \/ i > 1 /\ t[i - 1].at = "register" /\ At[t[i - 1].doc] = t[i].uri
    <3>1. i \in DOMAIN frames
      BY <1>1
    <3>2. frames[i].at \in {"assemble", "settle"} =>
            \/ documents'[frames[i].uri] # None
            \/ i > 1 /\ frames[i - 1].at = "register" /\ At[frames[i - 1].doc] = frames[i].uri
      BY <3>1
    <3> QED BY <2>1, <3>2
  <2> QED BY <2>2 DEF Grounded, t, Has
<1>6. ASSUME NEW i \in 3..m
      PROVE  Grounded(c, i + n - 1)'
  <2>1. /\ t[i + n - 1] = stack[c][i] /\ t[(i + n - 1) - 1] = stack[c][i - 1]
        /\ i > 1 /\ i + n - 1 > 1
        /\ i # 1 /\ i \in 1..m
    <3>1. i \in 2..m /\ i - 1 \in 2..m
      BY <1>1
    <3>2. i + n - 1 > 1 /\ (i - 1) + n - 1 = (i + n - 1) - 1
      BY <1>1
    <3> QED BY <3>1, <3>2, <1>1
  <2>2. Grounded(c, i)
    BY <2>1, <1>1
  <2>3. stack[c][i].at \in {"assemble", "settle"} => stack[c][i].uri \in URIs
    BY <2>1, <1>1, FrameFacts
  <2>4. t[i + n - 1].at \in {"assemble", "settle"} =>
          \/ documents'[t[i + n - 1].uri] # None
          \/ t[(i + n - 1) - 1].at = "register" /\ At[t[(i + n - 1) - 1].doc] = t[i + n - 1].uri
    BY <2>1, <2>2, <2>3 DEF Grounded, Has
  <2> QED BY <2>1, <2>4 DEF Grounded, t, Has
<1>7. ASSUME 2 \in 1..m
      PROVE  Grounded(c, n + 1)'
  <2>1. t[n + 1] = stack[c][2]
    BY <1>7, <1>1
  <2>2. Grounded(c, 2) /\ stack[c][2] \in Frames
    BY <1>7, <1>1
  <2>3. SUFFICES ASSUME stack[c][2].at \in {"assemble", "settle"}, documents'[stack[c][2].uri] = None
                 PROVE  \/ n + 1 = 1 /\ status'[c] = "throwing"
                        \/ n + 1 > 1 /\ t[n].at = "register" /\ At[t[n].doc] = stack[c][2].uri
    BY <2>1, <1>1 DEF Grounded, t, Has
  <2>4. stack[c][2].uri \in URIs
    BY <2>2, <2>3, FrameFacts
  <2>5. stack[c][1].at = "register" /\ At[stack[c][1].doc] = stack[c][2].uri
    BY <2>2, <2>3, <2>4 DEF Grounded, Has
  <2>6. m # 1
    BY <1>7, <1>1
  <2>7. CASE n = 0
    <3>1. status'[c] = "throwing"
      BY <2>7, <2>3, <2>5, <2>6, <1>3 DEF m, Has
    <3> QED BY <2>7, <3>1
  <2>8. CASE n # 0
    <3>1. frames[n].at = "register" /\ At[frames[n].doc] = At[stack[c][1].doc]
      BY <2>8, <2>3, <2>5, <2>6, <1>3 DEF m, n, Has
    <3>2. n + 1 > 1 /\ t[n] = frames[n]
      BY <2>8, <1>1
    <3> QED BY <3>1, <3>2, <2>5
  <2> QED BY <2>7, <2>8
<1>8. ASSUME NEW i \in 1..(n + m - 1)
      PROVE  Grounded(c, i)'
  <2>1. CASE i \in 1..n
    BY <2>1, <1>5
  <2>2. CASE i = n + 1
    <3>1. 2 \in 1..m
      BY <2>2, <1>1
    <3> QED BY <2>2, <3>1, <1>7
  <2>3. CASE i > n + 1
    <3>1. i - n + 1 \in 3..m /\ (i - n + 1) + n - 1 = i
      BY <2>3, <1>1
    <3>2. Grounded(c, (i - n + 1) + n - 1)'
      BY <3>1, <1>6
    <3> QED BY <3>1, <3>2
  <2> QED BY <2>1, <2>2, <2>3, <1>1
<1>9. DOMAIN (stack[c])' = 1..(n + m - 1)
  BY <1>1 DEF t
<1> QED BY <1>4, <1>8, <1>9

\* What was covered stays so, if the frame that is gone passed its subject on.
LEMMA CoveredMoves ==
  ASSUME NEW c \in Calls, NEW frames, Moves(c, frames),
         NEW r, Covered(r),
         Has(r) => Has(r)',
         attempts \subseteq attempts',
         r \in ToSet(pending) =>
           \/ r \in ToSet(pending') \/ Has(r)'
           \/ \E i \in DOMAIN frames : r \in Attempted(frames[i]),
         r \in Attempted(stack[c][1]) =>
           \/ Has(r)' \/ r \in attempts'
           \/ \E i \in DOMAIN frames : r \in Attempted(frames[i])
  PROVE  Covered(r)'
<1> DEFINE n == Len(frames)
           m == Len(stack[c])
           t == (stack[c])'
<1>1. /\ n \in Nat /\ m \in Nat /\ m > 0
      /\ DOMAIN frames = 1..n
      /\ DOMAIN stack[c] = 1..m
      /\ DOMAIN t = 1..(n + m - 1)
      /\ \A i \in 1..n : t[i] = frames[i]
      /\ \A i \in 2..m : t[i + n - 1] = stack[c][i]
  BY ONLY Moved, Moves(c, frames), c \in Calls
<1>2. \A x \in Calls \ {c} : (stack[x])' = stack[x]
  BY ONLY Moved, Moves(c, frames), c \in Calls
<1>3. \A f : Attempted(f)' = Attempted(f)
  BY DEF Attempted
<1> HIDE DEF n, m, t
<1>4. ASSUME NEW i \in DOMAIN frames, r \in Attempted(frames[i])
      PROVE  Covered(r)'
  <2>1. i \in DOMAIN t /\ t[i] = frames[i]
    BY <1>4, <1>1
  <2>2. i \in DOMAIN stack'[c] /\ r \in Attempted(stack'[c][i])
    BY <2>1, <1>4 DEF t
  <2> QED BY <2>2, <1>3 DEF Covered
<1>5. ASSUME NEW x \in Calls, NEW i \in DOMAIN stack[x], r \in Attempted(stack[x][i])
      PROVE  Covered(r)'
  <2>1. CASE x # c
    <3>1. i \in DOMAIN stack'[x] /\ r \in Attempted(stack'[x][i])
      BY <2>1, <1>2, <1>5
    <3> QED BY <3>1, <1>3 DEF Covered
  <2>2. CASE x = c /\ i = 1
    <3>1. \/ Has(r)' \/ r \in attempts'
          \/ \E j \in DOMAIN frames : r \in Attempted(frames[j])
      BY <2>2, <1>5
    <3> QED BY <3>1, <1>4 DEF Covered
  <2>3. CASE x = c /\ i # 1
    <3>1. i \in 2..m
      BY <2>3, <1>1
    <3>2. i + n - 1 \in DOMAIN t /\ t[i + n - 1] = stack[c][i]
      BY <3>1, <1>1
    <3>3. i + n - 1 \in DOMAIN stack'[c] /\ r \in Attempted(stack'[c][i + n - 1])
      BY <3>2, <2>3, <1>5 DEF t
    <3> QED BY <3>3, <1>3 DEF Covered
  <2> QED BY <2>1, <2>2, <2>3
<1>6. CASE r \in ToSet(pending)
  BY <1>6, <1>4 DEF Covered
<1> QED BY <1>5, <1>6 DEF Covered

-----------------------------------------------------------------------------
(* What a step must guarantee to keep the invariant.                       *)

\* The parts of TypeOK other than the stacks.
Typed ==
  /\ documents \in [URIs -> Docs \union {None}]
  /\ pending \in Seq(URIs)
  /\ dialects \in SUBSET URIs
  /\ assembling \in SUBSET URIs
  /\ status \in [Calls -> Settled \union {"running", "throwing"}]
  /\ error \in [Calls -> [kind : Kinds, uri : URIs] \union {None}]
  /\ turn \in Calls \union {None}
  /\ target \in [Calls -> URIs \union {None}]
  /\ attempts \in SUBSET URIs

\* A document that is new in the registry has its references queued.
NewAreQueued ==
  \A u \in URIs : documents'[u] # documents[u] /\ documents'[u] # None =>
    ToSet(Refs[documents'[u]]) \subseteq ToSet(pending')

LEMMA RefsAreURIs ==
  ASSUME NEW d \in Docs
  PROVE  Refs[d] \in Seq(URIs) /\ ToSet(Refs[d]) \subseteq URIs
<1>1. Refs[d] \in Seq(URIs)
  BY LoadingAssumption DEF LoadingAssumption
<1>2. \A s \in Seq(URIs) : ToSet(s) \subseteq URIs
  BY DEF ToSet
<1> QED BY <1>1, <1>2

LEMMA ReferencesKept ==
  ASSUME TypeOK, documents' \in [URIs -> Docs \union {None}],
         NoReferenceLost, NewAreQueued,
         \A r \in URIs : Covered(r) => Covered(r)'
  PROVE  NoReferenceLost'
<1>1. SUFFICES ASSUME NEW u \in URIs, documents'[u] # None,
                      NEW r \in ToSet(Refs[documents'[u]])
               PROVE  Covered(r)'
  BY DEF NoReferenceLost, Covered, Has, Frame
<1>2. documents'[u] \in Docs
  BY <1>1
<1>3. r \in URIs
  BY <1>2, <1>1, RefsAreURIs
<1>4. CASE documents'[u] = documents[u]
  <2>1. Covered(r)
    BY <1>1, <1>4 DEF NoReferenceLost, Covered, Has, Frame
  <2> QED BY <2>1, <1>3
<1>5. CASE documents'[u] # documents[u]
  <2>1. r \in ToSet(pending')
    BY <1>1, <1>5 DEF NewAreQueued
  <2> QED BY <2>1 DEF Covered
<1> QED BY <1>4, <1>5

LEMMA StatusesMove ==
  ASSUME NEW c \in Calls, NEW frames, Moves(c, frames), StacksMatchStatus,
         \A x \in Calls \ {c} : status'[x] = status[x],
         status'[c] \in Settled <=> frames = << >> /\ Len(stack[c]) = 1
  PROVE  StacksMatchStatus'
<1>1. /\ Len(frames) \in Nat /\ Len(stack[c]) \in Nat /\ Len(stack[c]) > 0
      /\ Len((stack[c])') = Len(frames) + Len(stack[c]) - 1
      /\ (stack[c])' \in Seq(Frames)
      /\ \A x \in Calls \ {c} : (stack[x])' = stack[x]
  BY Moved
<1>2. frames = << >> <=> Len(frames) = 0
  BY DEF Moves
<1>3. (stack[c])' = << >> <=> Len((stack[c])') = 0
  BY <1>1
<1>4. stack'[c] = << >> <=> frames = << >> /\ Len(stack[c]) = 1
  <2> DEFINE l == Len((stack[c])')
             n == Len(frames)
             m == Len(stack[c])
  <2>1. n \in Nat /\ m \in Nat /\ m > 0 /\ l = n + m - 1
    BY <1>1
  <2> HIDE DEF l, n, m
  <2>2. l = 0 <=> n = 0 /\ m = 1
    BY <2>1
  <2> QED BY <2>2, <1>2, <1>3 DEF l, n, m
<1>5. Settled' = Settled
  BY DEF Settled
<1> QED BY <1>1, <1>4, <1>5 DEF StacksMatchStatus

LEMMA MoveKeeps ==
  ASSUME IInv, NEW c \in Calls, NEW frames, Moves(c, frames), Typed',
         \A u \in URIs : documents[u] # None => documents'[u] # None,
         \A x \in Calls \ {c} : status'[x] = status[x],
         status'[c] \in Settled <=> frames = << >> /\ Len(stack[c]) = 1,
         \* the assemblies
         \A e \in URIs :
           /\ \A i, j \in DOMAIN frames : Owns(frames[i], e) /\ Owns(frames[j], e) => i = j
           /\ (\E i \in DOMAIN frames : Owns(frames[i], e)) =>
                e \notin assembling \/ Owns(stack[c][1], e)
           /\ e \in assembling' <=>
                \/ \E i \in DOMAIN frames : Owns(frames[i], e)
                \/ e \in assembling /\ ~Owns(stack[c][1], e),
         \* their metaschemas
         \A i \in DOMAIN frames : frames[i].at \in {"assemble", "settle"} =>
           \/ documents'[frames[i].uri] # None
           \/ i > 1 /\ frames[i - 1].at = "register" /\ At[frames[i - 1].doc] = frames[i].uri,
         stack[c][1].at = "register" =>
           \/ documents'[At[stack[c][1].doc]] # None
           \/ frames = << >> /\ status'[c] = "throwing"
           \/ Len(stack[c]) = 1
           \/ LET last == frames[Len(frames)]
              IN frames # << >> /\ last.at = "register" /\ At[last.doc] = At[stack[c][1].doc],
         \A e \in dialects' \ dialects : documents'[e] # None \/ Dialect[Served[e]] = e,
         \* the references
         NewAreQueued,
         attempts \subseteq attempts',
         \A r \in ToSet(pending) :
           \/ r \in ToSet(pending') \/ documents'[r] # None
           \/ \E i \in DOMAIN frames : r \in Attempted(frames[i]),
         \A r \in Attempted(stack[c][1]) :
           \/ documents'[r] # None \/ r \in attempts'
           \/ \E i \in DOMAIN frames : r \in Attempted(frames[i])
  PROVE  IInv'
<1>1. TypeOK'
  BY Moved DEF Typed, TypeOK
<1>2. StacksMatchStatus'
  BY StatusesMove DEF IInv
<1>3. \A e \in URIs : Owned(e)'
  BY OwnersMove DEF IInv
<1>4. \A x \in Calls : \A i \in DOMAIN stack'[x] : Grounded(x, i)'
  <2>1. \A u \in URIs : Has(u) => Has(u)'
    BY DEF Has
  <2> QED BY <2>1, GroundsMove DEF IInv
<1>5. AssembledHasMetaschema'
  <2>1. \A e \in dialects' : e \in URIs
    BY DEF Typed
  <2> QED BY <2>1 DEF IInv, AssembledHasMetaschema, Has
<1>6. \A r \in URIs : Covered(r) => Covered(r)'
  <2> SUFFICES ASSUME NEW r \in URIs, Covered(r)  PROVE Covered(r)'
    OBVIOUS
  <2>1. Has(r) => Has(r)'
    BY DEF Has
  <2>2. r \in ToSet(pending) =>
          \/ r \in ToSet(pending') \/ Has(r)'
          \/ \E i \in DOMAIN frames : r \in Attempted(frames[i])
    BY DEF Has
  <2>3. r \in Attempted(stack[c][1]) =>
          \/ Has(r)' \/ r \in attempts'
          \/ \E i \in DOMAIN frames : r \in Attempted(frames[i])
    BY DEF Has
  <2> QED BY <2>1, <2>2, <2>3, CoveredMoves
<1>7. NoReferenceLost'
  BY <1>6, ReferencesKept DEF IInv, Typed
<1> QED BY <1>1, <1>2, <1>3, <1>4, <1>5, <1>7 DEF IInv

-----------------------------------------------------------------------------
(* The registry's part of a step.                                          *)

LEMMA QueueFacts ==
  ASSUME pending \in Seq(URIs), NEW uris \in Seq(URIs), Queue(uris)
  PROVE  /\ pending' \in Seq(URIs)
         /\ ToSet(pending) \subseteq ToSet(pending')
         /\ ToSet(uris) \subseteq ToSet(pending')
<1>0. PICK k \in 0..Len(uris) : \E from \in [1..k -> DOMAIN uris] :
        /\ {uris[from[i]] : i \in 1..k} = ToSet(uris) \ ToSet(pending)
        /\ pending' = pending \o [i \in 1..k |-> uris[from[i]]]
  BY DEF Queue
<1>1. PICK from \in [1..k -> DOMAIN uris] :
        /\ {uris[from[i]] : i \in 1..k} = ToSet(uris) \ ToSet(pending)
        /\ pending' = pending \o [i \in 1..k |-> uris[from[i]]]
  BY <1>0
<1> DEFINE new == [i \in 1..k |-> uris[from[i]]]
<1>2. k \in Nat
  BY <1>0
<1>3. /\ new \in Seq(URIs) /\ Len(new) = k /\ DOMAIN new = 1..k
      /\ \A i \in 1..k : new[i] = uris[from[i]]
  BY <1>1, <1>2
<1>4. pending' = pending \o new
  BY <1>1
<1> HIDE DEF new
<1>5. /\ pending' \in Seq(URIs)
      /\ Len(pending') = Len(pending) + k
      /\ DOMAIN pending' = 1..(Len(pending) + k)
      /\ \A i \in 1..Len(pending) : pending'[i] = pending[i]
      /\ \A i \in 1..k : pending'[Len(pending) + i] = new[i]
  <2>1. \A p, q \in Seq(URIs) :
          /\ p \o q \in Seq(URIs) /\ Len(p) \in Nat
          /\ Len(p \o q) = Len(p) + Len(q)
          /\ DOMAIN (p \o q) = 1..(Len(p) + Len(q))
          /\ \A i \in 1..Len(p) : (p \o q)[i] = p[i]
          /\ \A i \in 1..Len(q) : (p \o q)[Len(p) + i] = q[i]
    OBVIOUS
  <2> QED BY <2>1, <1>3, <1>4
<1>6. ASSUME NEW r \in ToSet(pending)
      PROVE  r \in ToSet(pending')
  <2>1. PICK i \in DOMAIN pending : r = pending[i]
    BY <1>6 DEF ToSet
  <2>2. i \in 1..Len(pending) /\ i \in DOMAIN pending'
    BY <2>1, <1>5, <1>2
  <2> QED BY <2>1, <2>2, <1>5 DEF ToSet
<1>7. ASSUME NEW r \in ToSet(uris) \ ToSet(pending)
      PROVE  r \in ToSet(pending')
  <2>1. PICK i \in 1..k : r = uris[from[i]]
    BY <1>1, <1>7
  <2>2. pending'[Len(pending) + i] = r
    BY <2>1, <1>3, <1>5
  <2>3. Len(pending) + i \in DOMAIN pending'
    BY <1>2, <1>5
  <2> QED BY <2>2, <2>3 DEF ToSet
<1> QED BY <1>5, <1>6, <1>7

\* A registration that is not refused adds one document and forgets nothing.
LEMMA CommitFacts ==
  ASSUME TypeOK, NEW d \in Docs, ~Refused(d), Commit(d)
  PROVE  /\ At[d] \in URIs
         /\ documents' \in [URIs -> Docs \union {None}]
         /\ documents'[At[d]] # None
         /\ \A u \in URIs : documents[u] # None => documents'[u] # None
         /\ pending' \in Seq(URIs)
         /\ ToSet(pending) \subseteq ToSet(pending')
         /\ NewAreQueued
<1>1. At[d] \in URIs /\ d # None
  BY LoadingAssumption DEF LoadingAssumption
<1>2. documents \in [URIs -> Docs \union {None}] /\ pending \in Seq(URIs)
  BY DEF TypeOK
<1>3. documents' = [documents EXCEPT ![At[d]] = d]
  BY DEF Commit
<1>4. /\ documents' \in [URIs -> Docs \union {None}]
      /\ documents'[At[d]] = d
      /\ \A u \in URIs \ {At[d]} : documents'[u] = documents[u]
  BY <1>1, <1>2, <1>3
<1>5. /\ pending' \in Seq(URIs)
      /\ ToSet(pending) \subseteq ToSet(pending')
      /\ ToSet(Refs[d]) \subseteq ToSet(pending')
  BY <1>2, RefsAreURIs, QueueFacts DEF Commit
<1>6. NewAreQueued
  BY <1>4, <1>5 DEF NewAreQueued
<1> QED BY <1>1, <1>4, <1>5, <1>6

\* A registry that does not change keeps what a step must keep of it.
LEMMA NothingNew ==
  ASSUME documents' = documents, pending' = pending
  PROVE  NewAreQueued
  BY DEF NewAreQueued

-----------------------------------------------------------------------------
(* The frame on top.                                                       *)

LEMMA TopFrame ==
  ASSUME IInv, NEW c \in Calls, status[c] \notin Settled
  PROVE  /\ stack[c] \in Seq(Frames) /\ stack[c] # << >>
         /\ Len(stack[c]) \in Nat /\ Len(stack[c]) > 0 /\ 1 \in DOMAIN stack[c]
         /\ stack[c][1] \in Frames
<1>1. stack[c] \in Seq(Frames)
  BY DEF IInv, TypeOK
<1>2. stack[c] # << >>
  BY DEF IInv, StacksMatchStatus
<1> QED BY <1>1, <1>2

LEMMA RunningFacts ==
  ASSUME IInv, NEW c \in Calls, NEW at, Running(c, at)
  PROVE  /\ status[c] = "running" /\ status[c] \notin Settled
         /\ stack[c] \in Seq(Frames) /\ stack[c] # << >>
         /\ Len(stack[c]) \in Nat /\ Len(stack[c]) > 0 /\ 1 \in DOMAIN stack[c]
         /\ stack[c][1] \in Frames
         /\ stack[c][1].at = at
  BY TopFrame DEF Running, Settled

\* What the top frame assembles is marked, and marked for it alone.
LEMMA TopOwns ==
  ASSUME IInv, NEW c \in Calls, stack[c] # << >>, NEW e \in URIs, Owns(stack[c][1], e)
  PROVE  e \in assembling
<1>1. stack[c] \in Seq(Frames)
  BY DEF IInv, TypeOK
<1>2. 1 \in DOMAIN stack[c] /\ 1 \in Nat
  BY <1>1
<1>3. Owner(c, 1, e)
  BY <1>2 DEF Owner, Owns
<1> QED BY <1>2, <1>3 DEF IInv, Owned

LEMMA StatusAfter ==
  ASSUME TypeOK, NEW c \in Calls, NEW s \in Settled \union {"running", "throwing"},
         status' = [status EXCEPT ![c] = s]
  PROVE  /\ status' \in [Calls -> Settled \union {"running", "throwing"}]
         /\ status'[c] = s
         /\ \A x \in Calls \ {c} : status'[x] = status[x]
  BY DEF TypeOK

\* A function that throws leaves everything else as it is.
LEMMA ThrowKeeps ==
  ASSUME IInv, NEW c \in Calls, status[c] \notin Settled,
         NEW kind \in Kinds, NEW uri \in URIs, Throw(c, kind, uri),
         UNCHANGED <<registry, assembling, target, attempts>>
  PROVE  IInv'
<1>1. /\ documents' = documents /\ pending' = pending /\ dialects' = dialects
      /\ assembling' = assembling /\ target' = target /\ attempts' = attempts /\ stack' = stack
      /\ turn' = c
  BY DEF Throw, Continue, registry
<1>2. /\ status' \in [Calls -> Settled \union {"running", "throwing"}]
      /\ status'[c] = "throwing"
      /\ \A x \in Calls \ {c} : status'[x] = status[x]
  BY StatusAfter DEF Throw, IInv
<1>3. error' \in [Calls -> [kind : Kinds, uri : URIs] \union {None}]
  BY DEF Throw, IInv, TypeOK
<1>4. TypeOK'
  BY <1>1, <1>2, <1>3 DEF IInv, TypeOK
<1>5. StacksMatchStatus'
  BY <1>1, <1>2 DEF IInv, StacksMatchStatus, Settled
<1>6. \A e \in URIs : Owned(e)'
  BY <1>1 DEF IInv, Owned, Owner, Assembling
<1>7. \A x \in Calls : \A i \in DOMAIN stack'[x] : Grounded(x, i)'
  <2> SUFFICES ASSUME NEW x \in Calls, NEW i \in DOMAIN stack[x]  PROVE Grounded(x, i)'
    BY <1>1
  <2>1. Grounded(x, i)
    BY DEF IInv
  <2>2. status[x] = "throwing" => status'[x] = "throwing"
    BY <1>2
  <2> QED BY <2>1, <2>2, <1>1 DEF Grounded, Has
<1>8. AssembledHasMetaschema' /\ NoReferenceLost'
  BY <1>1 DEF IInv, AssembledHasMetaschema, NoReferenceLost, Has, Frame, Attempted
<1> QED BY <1>4, <1>5, <1>6, <1>7, <1>8 DEF IInv

-----------------------------------------------------------------------------
(* The actions.                                                            *)

LEMMA NotAssembling ==
  ASSUME NEW f, f.at \in {"register", "fetch", "drain"}
  PROVE  /\ ~Assembling(f)
         /\ \A e : ~Owns(f, e)
  BY DEF Assembling, Owns

\* The function on top returns.
LEMMA ReturnKeeps ==
  ASSUME IInv, NEW c \in Calls, NEW at \in {"register", "fetch", "drain"},
         Running(c, at), Return(c), UNCHANGED <<dialects, assembling, target>>,
         documents' \in [URIs -> Docs \union {None}], pending' \in Seq(URIs),
         attempts' \in SUBSET URIs, attempts \subseteq attempts', NewAreQueued,
         \A u \in URIs : documents[u] # None => documents'[u] # None,
         at = "register" => documents'[At[stack[c][1].doc]] # None,
         \A r \in ToSet(pending) : r \in ToSet(pending') \/ documents'[r] # None,
         \A r \in Attempted(stack[c][1]) : documents'[r] # None \/ r \in attempts'
  PROVE  IInv'
<1>1. /\ stack[c] # << >> /\ stack[c][1].at = at /\ status[c] = "running"
      /\ Len(stack[c]) \in Nat
  BY RunningFacts
<1>2. Moves(c, << >>)
  BY <1>1 DEF Moves, Return, Replace, IInv
<1> DEFINE s == IF Len(stack[c]) = 1 THEN "resolved" ELSE status[c]
<1>3. s \in Settled \union {"running", "throwing"} /\ (s \in Settled <=> Len(stack[c]) = 1)
  BY <1>1 DEF Settled
<1>4. status' = [status EXCEPT ![c] = s]
  BY DEF Return
<1> HIDE DEF s
<1>5. /\ status' \in [Calls -> Settled \union {"running", "throwing"}]
      /\ status'[c] = s
      /\ \A x \in Calls \ {c} : status'[x] = status[x]
  BY <1>3, <1>4, StatusAfter DEF IInv
<1>6. Typed'
  BY <1>5 DEF IInv, TypeOK, Typed, Return, Await
<1>7. \A e \in URIs : ~Owns(stack[c][1], e)
  BY <1>1, NotAssembling
<1>8. << >> \in Seq(Frames) /\ DOMAIN << >> = {}
  OBVIOUS
<1> QED BY <1>1, <1>2, <1>3, <1>5, <1>6, <1>7, <1>8, MoveKeeps

\* What the frames put in the place of the one on top must take over from it:
\* the assembly it was, if any; a registration some assembly waits for; and
\* the references it was about.
TakeAssembly(c, frames) ==
  \A e \in URIs :
    /\ \A i, j \in DOMAIN frames : Owns(frames[i], e) /\ Owns(frames[j], e) => i = j
    /\ (\E i \in DOMAIN frames : Owns(frames[i], e)) =>
         e \notin assembling \/ Owns(stack[c][1], e)
    /\ e \in assembling' <=>
         \/ \E i \in DOMAIN frames : Owns(frames[i], e)
         \/ e \in assembling /\ ~Owns(stack[c][1], e)

TakeGround(c, frames) ==
  /\ \A i \in DOMAIN frames : frames[i].at \in {"assemble", "settle"} =>
       \/ documents[frames[i].uri] # None
       \/ i > 1 /\ frames[i - 1].at = "register" /\ At[frames[i - 1].doc] = frames[i].uri
  /\ stack[c][1].at = "register" =>
       /\ frames[Len(frames)].at = "register"
       /\ At[frames[Len(frames)].doc] = At[stack[c][1].doc]
  /\ \A e \in dialects' \ dialects : documents[e] # None \/ Dialect[Served[e]] = e

TakeReferences(c, frames) ==
  /\ \A r \in ToSet(pending) :
       \/ r \in ToSet(pending') \/ documents[r] # None
       \/ \E i \in DOMAIN frames : r \in Attempted(frames[i])
  /\ \A r \in Attempted(stack[c][1]) :
       \/ documents[r] # None
       \/ \E i \in DOMAIN frames : r \in Attempted(frames[i])

\* The function on top calls another, or awaits, and other frames take its place.
LEMMA GoingOn ==
  ASSUME IInv, NEW c \in Calls, NEW at, Running(c, at), NEW frames \in Seq(Frames), frames # << >>,
         stack' = [stack EXCEPT ![c] = frames \o Tail(@)],
         UNCHANGED <<documents, status, error, target, attempts>>,
         turn' \in {None, c}, dialects' \in SUBSET URIs, assembling' \in SUBSET URIs,
         pending' \in Seq(URIs),
         TakeAssembly(c, frames), TakeGround(c, frames), TakeReferences(c, frames)
  PROVE  IInv'
<1>1. stack[c] # << >> /\ stack[c][1].at = at /\ status[c] \notin Settled
  BY RunningFacts
<1>2. Moves(c, frames)
  BY <1>1 DEF Moves, IInv
<1>3. Typed'
  BY DEF IInv, TypeOK, Typed
<1>4. NewAreQueued
  BY DEF NewAreQueued
<1>5. /\ documents' = documents /\ status' = status /\ attempts' = attempts
      /\ status'[c] \notin Settled
  BY <1>1
<1> QED
  BY <1>1, <1>2, <1>3, <1>4, <1>5, MoveKeeps DEF TakeAssembly, TakeGround, TakeReferences

LEMMA DemandsAreURIs ==
  ASSUME NEW d \in Docs
  PROVE  /\ Demands(d) \in Seq(URIs)
         /\ \A i \in Unknown(d) : Demands(d)[i] \in URIs
         /\ Unresolvable(d) \subseteq URIs
<1>1. Dialect[d] \in URIs \union {None} /\ Embedded[d] \in Seq(URIs)
  BY LoadingAssumption DEF LoadingAssumption
<1>2. Demands(d) \in Seq(URIs)
  BY <1>1 DEF Demands
<1>3. ToSet(Demands(d)) \subseteq URIs
  BY <1>2 DEF ToSet
<1> QED BY <1>2, <1>3 DEF Unknown, Unresolvable, CheckedAgainst

LEMMA KindsHave ==
  {"unknown dialect", "metaschema cycle", "unknown vocabulary",
   "refused", "unresolvable", "invalid", "loader", "no loader"} \subseteq Kinds
  BY DEF Kinds

\* ensureDialectUri: the registration waits below the assembly it asked for.
LEMMA EnsureKeeps ==
  ASSUME IInv, NEW c \in Calls, Running(c, "register"),
         NEW e \in URIs, EnsureDialect(c, stack[c][1].doc, e, stack[c][1].attempted),
         UNCHANGED <<registry, target, attempts>>
  PROVE  IInv'
<1> DEFINE d == stack[c][1].doc
           attempted == stack[c][1].attempted
           f == IF Has(e) THEN [at |-> "assemble", uri |-> e, doc |-> documents[e]]
                ELSE [at |-> "meta", uri |-> e]
           g == [at |-> "register", doc |-> d, attempted |-> attempted \union {e}]
<1>1. /\ stack[c] # << >> /\ stack[c][1] \in Frames /\ stack[c][1].at = "register"
      /\ status[c] \notin Settled
      /\ d \in Docs /\ attempted \in SUBSET URIs
  BY RunningFacts, FrameFacts
<1>2. CASE e \in assembling
  BY <1>1, <1>2, KindsHave, ThrowKeeps DEF EnsureDialect
<1>3. CASE e \notin assembling
  <2>1. /\ assembling' = assembling \union {e}
        /\ stack' = [stack EXCEPT ![c] = <<f, g>> \o Tail(@)]
        /\ turn' \in {None, c}
        /\ UNCHANGED <<status, error>>
    BY <1>3 DEF EnsureDialect
  <2>2. documents[e] # None => documents[e] \in Docs
    BY DEF IInv, TypeOK
  <2>3. f \in Frames /\ g \in Frames
    BY <1>1, <2>2, FrameKinds DEF Has
  <2>4. /\ f.uri = e /\ Assembling(f)
        /\ f.at # "settle" /\ (f.at = "assemble" => documents[e] # None)
    BY DEF Assembling, Has
  <2>5. g.at = "register" /\ g.doc = d
    OBVIOUS
  <2> HIDE DEF f, g
  <2> DEFINE frames == <<f, g>>
  <2>6. /\ frames \in Seq(Frames) /\ frames # << >> /\ Len(frames) = 2 /\ DOMAIN frames = {1, 2}
        /\ frames[1] = f /\ frames[2] = g
    BY <2>3
  <2>7. stack' = [stack EXCEPT ![c] = frames \o Tail(@)]
    BY <2>1
  <2> HIDE DEF frames
  <2>8. \A x : (Owns(f, x) <=> x = e) /\ ~Owns(g, x) /\ ~Owns(stack[c][1], x)
    BY <1>1, <2>4, <2>5, NotAssembling DEF Owns
  <2>9. TakeAssembly(c, frames)
    BY <2>6, <2>8, <2>1, <1>3 DEF TakeAssembly
  <2>10. Attempted(stack[c][1]) = {At[d]} /\ Attempted(g) = {At[d]}
    BY <1>1, <2>3, <2>5, AttemptedFacts
  <2>11. \A r \in Attempted(stack[c][1]) : \E i \in DOMAIN frames : r \in Attempted(frames[i])
    BY <2>6, <2>10
  <2>12. /\ documents' = documents /\ pending' = pending /\ dialects' = dialects
         /\ target' = target /\ attempts' = attempts
    BY DEF registry
  <2>13. dialects' \in SUBSET URIs /\ assembling' \in SUBSET URIs /\ pending' \in Seq(URIs)
    BY <2>1, <2>12 DEF IInv, TypeOK
  <2>14. TakeGround(c, frames)
    BY <2>4, <2>5, <2>6, <2>12, <1>1 DEF TakeGround
  <2>15. TakeReferences(c, frames)
    BY <2>11, <2>12 DEF TakeReferences
  <2>16. UNCHANGED <<documents, status, error, target, attempts>>
    BY <2>1, <2>12
  <2> QED BY <2>1, <2>6, <2>7, <2>9, <2>13, <2>14, <2>15, <2>16, GoingOn
<1> QED BY <1>2, <1>3

LEMMA RegisterKeeps ==
  ASSUME IInv, NEW c \in Calls, Register(c)
  PROVE  IInv'
<1> DEFINE d         == stack[c][1].doc
           attempted == stack[c][1].attempted
           Fails(kind, uri) == Throw(c, kind, uri) /\ UNCHANGED <<registry, assembling, attempts>>
<1>1. Running(c, "register") /\ target' = target
  BY DEF Register
<1>2. /\ status[c] \notin Settled /\ stack[c] # << >>
      /\ stack[c][1] \in Frames /\ stack[c][1].at = "register"
      /\ d \in Docs /\ attempted \in SUBSET URIs /\ At[d] \in URIs
  <2>1. At \in [Docs -> URIs]
    BY LoadingAssumption DEF LoadingAssumption
  <2> QED BY <2>1, <1>1, RunningFacts, FrameFacts
<1>3. ASSUME NEW kind \in Kinds, NEW uri \in URIs, Fails(kind, uri)
      PROVE  IInv'
  BY <1>1, <1>2, <1>3, ThrowKeeps
<1>4. ASSUME NEW i \in Unknown(d), UNCHANGED <<registry, attempts>>,
             \/ Throw(c, "unknown dialect", Demands(d)[i]) /\ UNCHANGED assembling
             \/ EnsureDialect(c, d, Demands(d)[i], attempted)
      PROVE  IInv'
  <2>1. Demands(d)[i] \in URIs
    BY <1>2, DemandsAreURIs
  <2>2. CASE EnsureDialect(c, d, Demands(d)[i], attempted)
    BY <1>1, <1>4, <2>1, <2>2, EnsureKeeps
  <2>3. CASE Throw(c, "unknown dialect", Demands(d)[i]) /\ UNCHANGED assembling
    BY <1>1, <1>2, <1>4, <2>1, <2>3, KindsHave, ThrowKeeps
  <2> QED BY <1>4, <2>2, <2>3
<1>5. ASSUME Registrable(d), Commit(d), Return(c), attempts' = attempts \union {At[d]},
             UNCHANGED <<dialects, assembling>>
      PROVE  IInv'
  <2>1. ~Refused(d)
    BY <1>5 DEF Registrable
  <2>2. TypeOK
    BY DEF IInv
  <2>3. /\ documents' \in [URIs -> Docs \union {None}]
        /\ documents'[At[d]] # None
        /\ \A u \in URIs : documents[u] # None => documents'[u] # None
        /\ pending' \in Seq(URIs)
        /\ ToSet(pending) \subseteq ToSet(pending')
        /\ NewAreQueued
    BY <1>2, <1>5, <2>1, <2>2, CommitFacts
  <2>4. Attempted(stack[c][1]) = {At[d]}
    BY <1>2, AttemptedFacts
  <2>5. attempts' \in SUBSET URIs /\ attempts \subseteq attempts'
    BY <1>2, <1>5, <2>2 DEF TypeOK
  <2> QED BY <1>1, <1>5, <2>3, <2>4, <2>5, ReturnKeeps
<1>6. \/ \E i \in Unknown(d) :
           /\ UNCHANGED <<registry, attempts>>
           /\ \/ Throw(c, "unknown dialect", Demands(d)[i]) /\ UNCHANGED assembling
              \/ EnsureDialect(c, d, Demands(d)[i], attempted)
      \/ Fails("refused", At[d])
      \/ \E e \in Unresolvable(d) : Fails("unresolvable", e)
      \/ Fails("invalid", At[d])
      \/ /\ Registrable(d) /\ Commit(d) /\ Return(c)
         /\ attempts' = attempts \union {At[d]}
         /\ UNCHANGED <<dialects, assembling>>
  BY DEF Register
<1>7. Unresolvable(d) \subseteq URIs
  BY <1>2, DemandsAreURIs
<1> QED BY <1>2, <1>3, <1>4, <1>5, <1>6, <1>7, KindsHave

LEMMA ServedFacts ==
  ASSUME NEW u \in URIs
  PROVE  /\ Provided(u) => Served[u] \in Docs /\ At[Served[u]] = u
         /\ Provided(u) => [at |-> "register", doc |-> Served[u], attempted |-> {}] \in Frames
<1>1. Served[u] \in Docs \union {None} /\ (Served[u] # None => At[Served[u]] = u)
  BY LoadingAssumption DEF LoadingAssumption
<1>2. {} \in SUBSET URIs
  OBVIOUS
<1> QED BY <1>1, <1>2, FrameKinds DEF Provided

LEMMA FetchKeeps ==
  ASSUME IInv, NEW c \in Calls, FetchArrives(c)
  PROVE  IInv'
<1> DEFINE u == stack[c][1].uri
           g == [at |-> "register", doc |-> Served[u], attempted |-> {}]
<1>1. /\ Running(c, "fetch")
      /\ documents' = documents /\ pending' = pending /\ dialects' = dialects
      /\ assembling' = assembling /\ target' = target
  BY DEF FetchArrives, registry
<1>2. /\ status[c] \notin Settled /\ stack[c] # << >>
      /\ stack[c][1] \in Frames /\ stack[c][1].at = "fetch"
      /\ u \in URIs
  BY <1>1, RunningFacts, FrameFacts
<1>3. Attempted(stack[c][1]) = {u}
  BY <1>2, AttemptedFacts
<1>4. \A e \in URIs : ~Owns(stack[c][1], e)
  BY <1>2, NotAssembling
<1>5. TypeOK
  BY DEF IInv
<1>6. CASE /\ Provided(u) /\ Replace(c, <<g>>) /\ Continue(c)
           /\ UNCHANGED <<status, error, attempts>>
  <2>1. g \in Frames /\ g.at = "register" /\ At[g.doc] = u
    BY <1>2, <1>6, ServedFacts
  <2>2. Attempted(g) = {u} /\ \A e : ~Owns(g, e)
    BY <2>1, AttemptedFacts, NotAssembling
  <2> HIDE DEF g
  <2> DEFINE frames == <<g>>
  <2>3. /\ frames \in Seq(Frames) /\ frames # << >> /\ DOMAIN frames = {1} /\ frames[1] = g
        /\ Len(frames) = 1
    BY <2>1
  <2>4. stack' = [stack EXCEPT ![c] = frames \o Tail(@)] /\ turn' \in {None, c}
    BY <1>6 DEF Replace, Continue
  <2> HIDE DEF frames
  <2>5. TakeAssembly(c, frames)
    BY <1>1, <1>4, <2>2, <2>3 DEF TakeAssembly
  <2>6. TakeReferences(c, frames)
    BY <1>1, <1>3, <2>2, <2>3 DEF TakeReferences
  <2>7. dialects' \in SUBSET URIs /\ assembling' \in SUBSET URIs /\ pending' \in Seq(URIs)
    BY <1>1, <1>5 DEF TypeOK
  <2>8. TakeGround(c, frames)
    BY <1>1, <1>2, <2>1, <2>3 DEF TakeGround
  <2>9. UNCHANGED <<documents, status, error, target, attempts>>
    BY <1>1, <1>6
  <2> QED BY <1>1, <2>3, <2>4, <2>5, <2>6, <2>7, <2>8, <2>9, GoingOn
<1>7. CASE Return(c) /\ attempts' = attempts \union {u}
  <2>1. attempts' \in SUBSET URIs /\ attempts \subseteq attempts'
    BY <1>2, <1>5, <1>7 DEF TypeOK
  <2>2. documents' \in [URIs -> Docs \union {None}] /\ pending' \in Seq(URIs)
    BY <1>1, <1>5 DEF TypeOK
  <2>3. NewAreQueued
    BY <1>1, NothingNew
  <2> QED BY <1>1, <1>3, <1>7, <2>1, <2>2, <2>3, ReturnKeeps
<1>8. CASE Throw(c, "no loader", u) /\ UNCHANGED attempts
  BY <1>1, <1>2, <1>8, KindsHave, ThrowKeeps DEF registry
<1>9. CASE Throw(c, "loader", u) /\ UNCHANGED attempts
  BY <1>1, <1>2, <1>9, KindsHave, ThrowKeeps DEF registry
<1> QED BY <1>6, <1>7, <1>8, <1>9 DEF FetchArrives

LEMMA MetaKeeps ==
  ASSUME IInv, NEW c \in Calls, MetaArrives(c)
  PROVE  IInv'
<1> DEFINE e == stack[c][1].uri
           g == [at |-> "register", doc |-> Served[e], attempted |-> {}]
           settle == [at |-> "settle", uri |-> e]
           assemble == [at |-> "assemble", uri |-> e, doc |-> Served[e]]
<1>1. /\ Running(c, "meta")
      /\ documents' = documents /\ pending' = pending
      /\ assembling' = assembling /\ target' = target /\ attempts' = attempts
  BY DEF MetaArrives
<1>2. /\ status[c] \notin Settled /\ stack[c] # << >>
      /\ stack[c][1] \in Frames /\ stack[c][1].at = "meta"
      /\ e \in URIs
  BY <1>1, RunningFacts, FrameFacts
<1>3. Attempted(stack[c][1]) = {e} /\ \A x \in URIs : Owns(stack[c][1], x) <=> x = e
  BY <1>2, AttemptedFacts DEF Owns, Assembling
<1>4. TypeOK /\ e \in assembling
  BY <1>2, <1>3, TopOwns DEF IInv
\* The metaschema's registration goes on top of the frame that awaits it.
<1>5. ASSUME NEW f \in {settle, assemble}, Provided(e), Replace(c, <<g, f>>), Continue(c),
             UNCHANGED <<status, error>>, dialects' \in SUBSET URIs,
             \A x \in dialects' \ dialects : Dialect[Served[x]] = x
      PROVE  IInv'
  <2>1. /\ g \in Frames /\ g.at = "register" /\ At[g.doc] = e
        /\ f \in Frames /\ f.at \in {"settle", "assemble"} /\ f.uri = e
    <3>1. g \in Frames /\ g.at = "register" /\ At[g.doc] = e
      BY <1>2, <1>5, ServedFacts
    <3>2. settle \in Frames /\ assemble \in Frames
      BY <1>2, <1>5, ServedFacts, FrameKinds
    <3> QED BY <3>1, <3>2
  <2>2. /\ Attempted(f) = {e}
        /\ \A x : ~Owns(g, x) /\ (Owns(f, x) <=> x = e)
    BY <2>1, AttemptedFacts, NotAssembling DEF Owns, Assembling
  <2> HIDE DEF g, settle, assemble
  <2> DEFINE frames == <<g, f>>
  <2>3. /\ frames \in Seq(Frames) /\ frames # << >> /\ DOMAIN frames = {1, 2}
        /\ frames[1] = g /\ frames[2] = f /\ Len(frames) = 2
    BY <2>1
  <2>4. stack' = [stack EXCEPT ![c] = frames \o Tail(@)] /\ turn' \in {None, c}
    BY <1>5 DEF Replace, Continue
  <2> HIDE DEF frames
  <2>5. TakeAssembly(c, frames)
    BY <1>1, <1>3, <1>4, <2>2, <2>3 DEF TakeAssembly
  <2>6. TakeReferences(c, frames)
    BY <1>1, <1>3, <2>2, <2>3 DEF TakeReferences
  <2>7. assembling' \in SUBSET URIs /\ pending' \in Seq(URIs)
    BY <1>1, <1>4 DEF TypeOK
  <2>8. TakeGround(c, frames)
    <3>1. 2 > 1 /\ 2 - 1 = 1
      OBVIOUS
    <3> QED BY <3>1, <1>2, <1>5, <2>1, <2>3 DEF TakeGround
  <2>9. UNCHANGED <<documents, status, error, target, attempts>>
    BY <1>1, <1>5
  <2> QED BY <1>1, <1>5, <2>3, <2>4, <2>5, <2>6, <2>7, <2>8, <2>9, GoingOn
<1>6. CASE /\ Provided(e) /\ AssembleFirst(Served[e], e) /\ dialects' = dialects \union {e}
           /\ Replace(c, <<g, settle>>) /\ Continue(c) /\ UNCHANGED <<status, error>>
  <2>1. dialects' \in SUBSET URIs
    BY <1>2, <1>4, <1>6 DEF TypeOK
  <2> HIDE DEF g, settle, assemble
  <2> QED BY <1>5, <1>6, <2>1 DEF AssembleFirst
<1>7. CASE /\ Provided(e) /\ Replace(c, <<g, assemble>>) /\ Continue(c)
           /\ UNCHANGED <<dialects, status, error>>
  <2>1. dialects' \in SUBSET URIs /\ dialects' \ dialects = {}
    BY <1>4, <1>7 DEF TypeOK
  <2> HIDE DEF g, settle, assemble
  <2> QED BY <1>5, <1>7, <2>1
<1>8. ASSUME NEW kind \in Kinds, Throw(c, kind, e), UNCHANGED dialects
      PROVE  IInv'
  BY <1>1, <1>2, <1>8, ThrowKeeps DEF registry
<1>9. \/ /\ Provided(e) /\ AssembleFirst(Served[e], e) /\ dialects' = dialects \union {e}
         /\ Replace(c, <<g, settle>>) /\ Continue(c) /\ UNCHANGED <<status, error>>
      \/ /\ Provided(e) /\ Replace(c, <<g, assemble>>) /\ Continue(c)
         /\ UNCHANGED <<dialects, status, error>>
      \/ Throw(c, "unknown vocabulary", e) /\ UNCHANGED dialects
      \/ Throw(c, "unknown dialect", e) /\ UNCHANGED dialects
      \/ Throw(c, "loader", e) /\ UNCHANGED dialects
  BY DEF MetaArrives
<1> HIDE DEF g, settle, assemble
<1> QED BY <1>6, <1>7, <1>8, <1>9, KindsHave

\* The metaschema an assembly waited for is registered once the assembly runs.
LEMMA TopIsGrounded ==
  ASSUME IInv, NEW c \in Calls, NEW at \in {"assemble", "settle"}, Running(c, at)
  PROVE  /\ stack[c][1].uri \in URIs
         /\ documents[stack[c][1].uri] # None
<1>1. /\ status[c] = "running" /\ 1 \in DOMAIN stack[c]
      /\ stack[c][1] \in Frames /\ stack[c][1].at = at
  BY RunningFacts
<1>2. Grounded(c, 1)
  BY <1>1 DEF IInv
<1> QED BY <1>1, <1>2, FrameFacts DEF Grounded, Has

\* The end of an assembly: the mark goes, and the drain takes its place.
LEMMA DrainsKeep ==
  ASSUME IInv, NEW c \in Calls, NEW at \in {"assemble", "settle"}, Running(c, at),
         DrainClosure(c), assembling' = assembling \ {stack[c][1].uri},
         dialects' \in {dialects, dialects \union {stack[c][1].uri}},
         UNCHANGED <<documents, pending, target, attempts>>
  PROVE  IInv'
<1> DEFINE e == stack[c][1].uri
           f == [at |-> "drain"]
           frames == <<f>>
<1>1. /\ stack[c] # << >> /\ stack[c][1] \in Frames /\ stack[c][1].at = at
      /\ e \in URIs /\ documents[e] # None
  BY RunningFacts, TopIsGrounded
<1>2. Attempted(stack[c][1]) = {e} /\ \A x \in URIs : Owns(stack[c][1], x) <=> x = e
  BY <1>1, AttemptedFacts DEF Owns, Assembling
<1>3. f \in Frames /\ f.at = "drain" /\ \A x : ~Owns(f, x)
  BY FrameKinds, NotAssembling
<1> HIDE DEF f
<1>4. /\ frames \in Seq(Frames) /\ frames # << >> /\ DOMAIN frames = {1} /\ frames[1] = f
  BY <1>3
<1>5. /\ stack' = [stack EXCEPT ![c] = frames \o Tail(@)] /\ turn' \in {None, c}
      /\ UNCHANGED <<status, error>>
  BY DEF DrainClosure, Replace, Continue, f
<1> HIDE DEF frames
<1>6. TypeOK
  BY DEF IInv
<1>7. dialects' \in SUBSET URIs /\ assembling' \in SUBSET URIs /\ pending' \in Seq(URIs)
  BY <1>1, <1>6 DEF TypeOK
<1>8. TakeAssembly(c, frames)
  BY <1>2, <1>3, <1>4 DEF TakeAssembly
<1>9. TakeGround(c, frames)
  BY <1>1, <1>3, <1>4 DEF TakeGround
<1>10. TakeReferences(c, frames)
  BY <1>1, <1>2 DEF TakeReferences
<1> QED BY <1>4, <1>5, <1>7, <1>8, <1>9, <1>10, GoingOn

LEMMA AssembleKeeps ==
  ASSUME IInv, NEW c \in Calls, Assemble(c)
  PROVE  IInv'
<1> DEFINE frame == stack[c][1]
<1>1. /\ Running(c, "assemble") /\ status[c] \notin Settled
      /\ UNCHANGED <<documents, pending, target, attempts>>
      /\ frame.uri \in URIs
  BY RunningFacts, TopIsGrounded DEF Assemble
<1>2. CASE Throw(c, "unknown vocabulary", frame.uri) /\ UNCHANGED <<dialects, assembling>>
  BY <1>1, <1>2, KindsHave, ThrowKeeps DEF registry
<1>3. CASE /\ dialects' = dialects \union {frame.uri} /\ assembling' = assembling \ {frame.uri}
           /\ DrainClosure(c)
  BY <1>1, <1>3, DrainsKeep
<1> QED BY <1>2, <1>3 DEF Assemble

LEMMA SettleKeeps ==
  ASSUME IInv, NEW c \in Calls, Settle(c)
  PROVE  IInv'
<1>1. /\ Running(c, "settle") /\ DrainClosure(c)
      /\ assembling' = assembling \ {stack[c][1].uri}
      /\ UNCHANGED <<documents, pending, dialects, target, attempts>>
  BY DEF Settle, registry
<1> QED BY <1>1, DrainsKeep

\* What nextUnresolved leaves of the queue.
LEMMA RestFacts ==
  ASSUME pending \in Seq(URIs), NEW i \in DOMAIN pending
  PROVE  /\ Rest(i) \in Seq(URIs)
         /\ \A j \in DOMAIN pending : j > i => pending[j] \in ToSet(Rest(i))
<1>1. /\ i \in Nat /\ Len(pending) \in Nat /\ DOMAIN pending = 1..Len(pending)
      /\ i \in 1..Len(pending)
  OBVIOUS
<1>2. /\ Rest(i) \in Seq(URIs)
      /\ Len(Rest(i)) = Len(pending) - i
      /\ \A j \in 1..(Len(pending) - i) : Rest(i)[j] = pending[j + i]
  BY <1>1 DEF Rest
<1>3. ASSUME NEW j \in DOMAIN pending, j > i
      PROVE  pending[j] \in ToSet(Rest(i))
  <2>1. j - i \in 1..(Len(pending) - i) /\ (j - i) + i = j
    BY <1>1, <1>3
  <2>2. Rest(i)[j - i] = pending[j] /\ j - i \in DOMAIN Rest(i)
    BY <2>1, <1>1, <1>2
  <2> QED BY <2>2 DEF ToSet
<1> QED BY <1>2, <1>3

LEMMA DrainKeeps ==
  ASSUME IInv, NEW c \in Calls, Drain(c)
  PROVE  IInv'
<1> DEFINE top == stack[c][1]
           missing == {i \in DOMAIN pending : ~Has(pending[i])}
<1>1. /\ Running(c, "drain")
      /\ documents' = documents /\ dialects' = dialects /\ assembling' = assembling
      /\ target' = target /\ attempts' = attempts
  BY DEF Drain
<1>2. /\ stack[c] \in Seq(Frames) /\ stack[c] # << >>
      /\ top \in Frames /\ top.at = "drain"
  BY <1>1, RunningFacts
<1>3. Attempted(top) = {} /\ \A e : ~Owns(top, e)
  BY <1>2, AttemptedFacts, NotAssembling
<1>4. TypeOK /\ pending \in Seq(URIs)
  BY DEF IInv, TypeOK
<1>5. ASSUME NEW i \in missing, \A j \in missing : i <= j, pending' = Rest(i),
             Push(c, <<[at |-> "fetch", uri |-> pending[i], must |-> FALSE]>>), Await,
             UNCHANGED <<status, error>>
      PROVE  IInv'
  <2> DEFINE f == [at |-> "fetch", uri |-> pending[i], must |-> FALSE]
  <2>1. i \in DOMAIN pending /\ pending[i] \in URIs /\ DOMAIN pending \subseteq Nat
    BY <1>4
  <2>2. f \in Frames /\ f.at = "fetch" /\ f.uri = pending[i]
    BY <2>1, FrameKinds
  <2>3. stack' = [stack EXCEPT ![c] = <<f>> \o @] /\ turn' = None
    BY <1>5 DEF Push, Await
  <2> HIDE DEF f
  <2>4. Attempted(f) = {pending[i]} /\ \A e : ~Owns(f, e)
    BY <2>2, AttemptedFacts, NotAssembling
  <2> DEFINE frames == <<f, top>>
  <2>5. /\ frames \in Seq(Frames) /\ frames # << >> /\ DOMAIN frames = {1, 2}
        /\ frames[1] = f /\ frames[2] = top
    BY <2>2, <1>2
  <2>6. <<f>> \o stack[c] = frames \o Tail(stack[c])
    <3> HIDE DEF top, frames
    <3>1. stack[c] = <<top>> \o Tail(stack[c])
      BY <1>2 DEF top
    <3>2. <<f>> \o (<<top>> \o Tail(stack[c])) = <<f, top>> \o Tail(stack[c])
      <4>1. Tail(stack[c]) \in Seq(Frames)
        BY <1>2
      <4> QED BY <4>1, <1>2, <2>2
    <3> QED BY <3>1, <3>2 DEF frames
  <2>7. stack' = [stack EXCEPT ![c] = frames \o Tail(@)]
    BY <2>3, <2>6
  <2> HIDE DEF frames, top
  <2>8. TakeAssembly(c, frames)
    BY <1>1, <1>3, <2>4, <2>5 DEF TakeAssembly, top
  <2>9. ASSUME NEW r \in ToSet(pending)
        PROVE  \/ r \in ToSet(pending') \/ documents[r] # None
               \/ \E j \in DOMAIN frames : r \in Attempted(frames[j])
    <3>1. PICK j \in DOMAIN pending : r = pending[j]
      BY <2>9 DEF ToSet
    <3>2. CASE j > i
      BY <3>1, <3>2, <1>4, <1>5, <2>1, RestFacts
    <3>3. CASE j = i
      BY <3>1, <3>3, <2>4, <2>5
    <3>4. CASE ~(j > i) /\ j # i
      <4>1. ~(i <= j)
        BY <3>4, <3>1, <2>1
      <4>2. j \notin missing
        BY <4>1, <1>5
      <4> QED BY <4>2, <3>1 DEF Has
    <3> QED BY <3>2, <3>3, <3>4
  <2>10. \A r \in Attempted(stack[c][1]) : FALSE
    BY <1>3 DEF top
  <2>11. /\ dialects' \in SUBSET URIs /\ assembling' \in SUBSET URIs /\ pending' \in Seq(URIs)
    BY <1>1, <1>4, <1>5, <2>1, RestFacts DEF TypeOK
  <2>12. TakeGround(c, frames)
    BY <1>1, <1>2, <2>2, <2>5 DEF TakeGround, top
  <2>13. TakeReferences(c, frames)
    BY <2>9, <2>10 DEF TakeReferences
  <2>14. UNCHANGED <<documents, status, error, target, attempts>>
    BY <1>1, <1>5
  <2> QED BY <1>1, <2>3, <2>5, <2>7, <2>8, <2>11, <2>12, <2>13, <2>14, GoingOn
<1>6. ASSUME missing = {}, pending' = << >>, Return(c)
      PROVE  IInv'
  <2>1. NewAreQueued
    BY <1>1 DEF NewAreQueued
  <2>2. \A r \in ToSet(pending) : documents'[r] # None
    BY <1>1, <1>6 DEF ToSet, Has
  <2>3. /\ documents' \in [URIs -> Docs \union {None}] /\ pending' \in Seq(URIs)
        /\ attempts' \in SUBSET URIs
    BY <1>1, <1>4, <1>6 DEF TypeOK
  <2> QED BY <1>1, <1>3, <1>6, <2>1, <2>2, <2>3, ReturnKeeps
<1> QED BY <1>5, <1>6 DEF Drain

LEMMA UnwindKeeps ==
  ASSUME IInv, NEW c \in Calls, Unwind(c)
  PROVE  IInv'
<1> DEFINE frame == stack[c][1]
           s == IF Len(stack[c]) = 1 THEN "rejected" ELSE status[c]
<1>1. /\ status[c] = "throwing" /\ status[c] \notin Settled
      /\ UNCHANGED <<registry, error, target>> /\ turn' = None
  BY DEF Unwind, Settled, Await
<1>2. /\ stack[c] # << >> /\ frame \in Frames /\ Len(stack[c]) \in Nat
  BY <1>1, TopFrame
<1>3. Moves(c, << >>)
  BY <1>2 DEF Moves, Unwind, Replace, IInv
<1>4. s \in Settled \union {"running", "throwing"} /\ (s \in Settled <=> Len(stack[c]) = 1)
      /\ (Len(stack[c]) = 1 \/ s = "throwing")
  BY <1>1 DEF Settled
<1>5. status' = [status EXCEPT ![c] = s]
  BY DEF Unwind
<1> HIDE DEF s
<1>6. /\ status' \in [Calls -> Settled \union {"running", "throwing"}]
      /\ status'[c] = s
      /\ \A x \in Calls \ {c} : status'[x] = status[x]
  BY <1>4, <1>5, StatusAfter DEF IInv
<1>7. /\ attempts' = attempts \union Attempted(frame)
      /\ assembling' = assembling \ (IF Assembling(frame) THEN {frame.uri} ELSE {})
  BY DEF Unwind
<1>8. Attempted(frame) \subseteq URIs
  <2>1. At \in [Docs -> URIs]
    BY LoadingAssumption DEF LoadingAssumption
  <2> QED BY <2>1, <1>2, FrameFacts, AttemptedFacts
<1>9. Typed'
  BY <1>1, <1>6, <1>7, <1>8 DEF IInv, TypeOK, Typed, registry
<1>10. \A e \in URIs : e \in assembling' <=> e \in assembling /\ ~Owns(frame, e)
  BY <1>7 DEF Owns
<1>11. << >> \in Seq(Frames) /\ DOMAIN << >> = {}
  OBVIOUS
<1>12. NewAreQueued /\ documents' = documents /\ pending' = pending /\ dialects' = dialects
  BY <1>1 DEF NewAreQueued, registry
<1> QED BY <1>3, <1>4, <1>6, <1>7, <1>9, <1>10, <1>11, <1>12, MoveKeeps

-----------------------------------------------------------------------------
(* The public operations.                                                  *)

LEMMA StartKeeps ==
  ASSUME IInv, NEW c \in Calls, NEW u \in URIs, NEW frames \in Seq(Frames), frames # << >>,
         \A i \in DOMAIN frames : frames[i].at \in {"register", "fetch", "drain"},
         Start(c, u, frames), turn' \in {None, c}
  PROVE  IInv'
<1>1. /\ documents' = documents /\ pending' = pending /\ dialects' = dialects
      /\ assembling' = assembling /\ attempts' = attempts
      /\ status[c] \in Settled
      /\ status' = [status EXCEPT ![c] = "running"]
      /\ stack' = [stack EXCEPT ![c] = frames]
      /\ error' = [error EXCEPT ![c] = None]
      /\ target' = [target EXCEPT ![c] = u]
  BY DEF Start, registry
<1>2. TypeOK
  BY DEF IInv
<1>3. /\ status' \in [Calls -> Settled \union {"running", "throwing"}]
      /\ status'[c] = "running"
      /\ \A x \in Calls \ {c} : status'[x] = status[x]
  BY <1>1, <1>2, StatusAfter
<1>4. /\ stack' \in [Calls -> Seq(Frames)]
      /\ stack'[c] = frames
      /\ \A x \in Calls \ {c} : stack'[x] = stack[x]
  BY <1>1, <1>2 DEF TypeOK
<1>5. stack[c] = << >>
  BY <1>1 DEF IInv, StacksMatchStatus
<1>6. /\ error' \in [Calls -> [kind : Kinds, uri : URIs] \union {None}]
      /\ target' \in [Calls -> URIs \union {None}]
  BY <1>1, <1>2 DEF TypeOK
<1>7. TypeOK'
  BY <1>1, <1>2, <1>3, <1>4, <1>6 DEF TypeOK
<1>8. StacksMatchStatus'
  BY <1>3, <1>4 DEF IInv, StacksMatchStatus, Settled
<1>9. ASSUME NEW e \in URIs
      PROVE  Owned(e)'
  <2>1. \A x \in Calls, i \in Nat : Owner(x, i, e)' <=> Owner(x, i, e)
    <3> SUFFICES ASSUME NEW x \in Calls, NEW i \in Nat
                 PROVE  Owner(x, i, e)' <=> Owner(x, i, e)
      OBVIOUS
    <3>1. CASE x # c
      BY <3>1, <1>4 DEF Owner, Assembling
    <3>2. CASE x = c
      <4>1. ~Owner(c, i, e)
        BY <1>5 DEF Owner
      <4>2. ~Owner(c, i, e)'
        BY <1>4 DEF Owner, Assembling
      <4> QED BY <3>2, <4>1, <4>2
    <3> QED BY <3>1, <3>2
  <2>2. Owned(e)
    BY DEF IInv
  <2> QED BY <2>1, <2>2, <1>1 DEF Owned
<1>10. ASSUME NEW x \in Calls, NEW i \in DOMAIN stack'[x]
       PROVE  Grounded(x, i)'
  <2>1. CASE x # c
    <3>1. stack'[x] = stack[x] /\ status'[x] = status[x] /\ Grounded(x, i)
      BY <2>1, <1>3, <1>4 DEF IInv
    <3> QED BY <3>1, <1>1 DEF Grounded, Has
  <2>2. CASE x = c
    BY <2>2, <1>4 DEF Grounded
  <2> QED BY <2>1, <2>2
<1>11. AssembledHasMetaschema'
  BY <1>1 DEF IInv, AssembledHasMetaschema, Has
<1>12. \A r \in URIs : Covered(r) => Covered(r)'
  <2> SUFFICES ASSUME NEW r \in URIs, Covered(r)  PROVE Covered(r)'
    OBVIOUS
  <2>1. CASE Has(r) \/ r \in ToSet(pending) \/ r \in attempts
    BY <2>1, <1>1 DEF Covered, Has
  <2>2. CASE \E x \in Calls : \E i \in DOMAIN stack[x] : r \in Attempted(stack[x][i])
    <3>1. PICK x \in Calls : \E i \in DOMAIN stack[x] : r \in Attempted(stack[x][i])
      BY <2>2
    <3>2. x # c
      BY <3>1, <1>5
    <3>3. \E i \in DOMAIN stack'[x] : r \in Attempted(stack'[x][i])
      BY <3>1, <3>2, <1>4
    <3>4. \A f : Attempted(f)' = Attempted(f)
      BY DEF Attempted
    <3> QED BY <3>3, <3>4 DEF Covered
  <2> QED BY <2>1, <2>2 DEF Covered
<1>13. NoReferenceLost'
  <2>1. NewAreQueued
    BY <1>1, NothingNew
  <2>2. documents' \in [URIs -> Docs \union {None}]
    BY <1>7 DEF TypeOK
  <2> QED BY <1>2, <1>12, <2>1, <2>2, ReferencesKept DEF IInv
<1> QED BY <1>7, <1>8, <1>9, <1>10, <1>11, <1>13 DEF IInv

LEMMA LoadSchemaKeeps ==
  ASSUME IInv, NEW c \in Calls, NEW d \in Loadable, LoadSchema(c, d)
  PROVE  IInv'
<1> DEFINE f == [at |-> "register", doc |-> d, attempted |-> {}]
           g == [at |-> "drain"]
<1>1. At[d] \in URIs /\ d \in Docs
  BY LoadingAssumption DEF LoadingAssumption
<1>2. f \in Frames /\ f.at = "register" /\ g \in Frames /\ g.at = "drain"
  <2>1. {} \in SUBSET URIs
    OBVIOUS
  <2> QED BY <1>1, <2>1, FrameKinds
<1>3. Start(c, At[d], <<f, g>>) /\ turn' = c
  BY DEF LoadSchema, Continue
<1> HIDE DEF f, g
<1>4. /\ <<f, g>> \in Seq(Frames) /\ <<f, g>> # << >>
      /\ \A i \in DOMAIN <<f, g>> : <<f, g>>[i].at \in {"register", "fetch", "drain"}
  BY <1>2
<1> QED BY <1>1, <1>3, <1>4, StartKeeps

LEMMA LoadKeeps ==
  ASSUME IInv, NEW c \in Calls, NEW u \in Fetchable, Load(c, u)
  PROVE  IInv'
<1> DEFINE f == [at |-> "fetch", uri |-> u, must |-> TRUE]
           g == [at |-> "drain"]
<1>1. u \in URIs
  BY LoadingAssumption DEF LoadingAssumption
<1>2. f \in Frames /\ f.at = "fetch" /\ g \in Frames /\ g.at = "drain"
  BY <1>1, FrameKinds
<1>3. Start(c, u, (IF Has(u) THEN << >> ELSE <<f>>) \o <<g>>) /\ turn' = None
  BY DEF Load, Await
<1> HIDE DEF f, g
<1>4. \A p, q \in Seq(Frames) :
        /\ p \o q \in Seq(Frames) /\ Len(p) \in Nat /\ Len(p \o q) = Len(p) + Len(q)
        /\ \A i \in DOMAIN (p \o q) : \/ i \in DOMAIN p /\ (p \o q)[i] = p[i]
                                     \/ \E j \in DOMAIN q : (p \o q)[i] = q[j]
  <2> SUFFICES ASSUME NEW p \in Seq(Frames), NEW q \in Seq(Frames), NEW i \in DOMAIN (p \o q)
               PROVE  \/ i \in DOMAIN p /\ (p \o q)[i] = p[i]
                      \/ \E j \in DOMAIN q : (p \o q)[i] = q[j]
    OBVIOUS
  <2>1. CASE i \in 1..Len(p)
    BY <2>1
  <2>2. CASE i \notin 1..Len(p)
    <3>1. i - Len(p) \in DOMAIN q /\ (p \o q)[i] = q[i - Len(p)]
      BY <2>2
    <3> QED BY <3>1
  <2> QED BY <2>1, <2>2
<1> DEFINE first == IF Has(u) THEN << >> ELSE <<f>>
<1>5. /\ first \in Seq(Frames) /\ \A i \in DOMAIN first : first[i].at = "fetch"
      /\ <<g>> \in Seq(Frames) /\ Len(<<g>>) = 1
      /\ \A i \in DOMAIN <<g>> : <<g>>[i].at = "drain"
  <2>1. /\ <<g>> \in Seq(Frames) /\ Len(<<g>>) = 1
        /\ \A i \in DOMAIN <<g>> : <<g>>[i].at = "drain"
    BY <1>2
  <2>2. <<f>> \in Seq(Frames) /\ \A i \in DOMAIN <<f>> : <<f>>[i].at = "fetch"
    BY <1>2
  <2>3. << >> \in Seq(Frames) /\ \A i \in DOMAIN << >> : << >>[i].at = "fetch"
    OBVIOUS
  <2>4. first = << >> \/ first = <<f>>
    OBVIOUS
  <2> HIDE DEF first
  <2> QED BY <2>1, <2>2, <2>3, <2>4
<1> HIDE DEF first
<1> DEFINE frames == first \o <<g>>
<1>6. /\ frames \in Seq(Frames) /\ frames # << >>
      /\ \A i \in DOMAIN frames : frames[i].at \in {"register", "fetch", "drain"}
  <2>1. frames \in Seq(Frames) /\ Len(frames) = Len(first) + 1 /\ Len(first) \in Nat
    BY <1>4, <1>5
  <2>2. \A i \in DOMAIN frames : frames[i].at \in {"fetch", "drain"}
    BY <1>4, <1>5
  <2> HIDE DEF frames
  <2> QED BY <2>1, <2>2
<1> HIDE DEF frames
<1>7. Start(c, u, frames)
  BY <1>3 DEF frames, first
<1> QED BY <1>1, <1>3, <1>6, <1>7, StartKeeps

\* A document registered beside the calls disturbs none of them.
LEMMA RegisterSchemaKeeps ==
  ASSUME IInv, NEW d \in Local, RegisterSchema(d)
  PROVE  IInv'
<1>1. /\ dialects' = dialects /\ assembling' = assembling /\ stack' = stack
      /\ status' = status /\ error' = error /\ turn' = turn /\ target' = target
      /\ attempts' = attempts \union {At[d]}
  BY DEF RegisterSchema
<1>2. TypeOK
  BY DEF IInv
<1>3. d \in Docs /\ ~Refused(d) /\ Commit(d)
  BY LoadingAssumption DEF LoadingAssumption, RegisterSchema, Registrable
<1>4. /\ At[d] \in URIs
      /\ documents' \in [URIs -> Docs \union {None}]
      /\ \A u \in URIs : documents[u] # None => documents'[u] # None
      /\ pending' \in Seq(URIs)
      /\ ToSet(pending) \subseteq ToSet(pending')
      /\ NewAreQueued
  BY <1>2, <1>3, CommitFacts
<1>5. TypeOK'
  BY <1>1, <1>2, <1>4 DEF TypeOK
<1>6. StacksMatchStatus'
  BY <1>1 DEF IInv, StacksMatchStatus, Settled
<1>7. \A e \in URIs : Owned(e)'
  BY <1>1 DEF IInv, Owned, Owner, Assembling
<1>8. ASSUME NEW x \in Calls, NEW i \in DOMAIN stack'[x]
      PROVE  Grounded(x, i)'
  <2>1. Grounded(x, i) /\ stack[x] \in Seq(Frames) /\ stack[x][i] \in Frames
    BY <1>1, <1>2 DEF IInv, TypeOK
  <2>2. stack[x][i].at \in {"assemble", "settle"} => stack[x][i].uri \in URIs
    BY <2>1, FrameFacts
  <2> QED BY <2>1, <2>2, <1>1, <1>4 DEF Grounded, Has
<1>9. AssembledHasMetaschema'
  <2>1. \A e \in dialects : e \in URIs
    BY <1>2 DEF TypeOK
  <2> QED BY <2>1, <1>1, <1>4 DEF IInv, AssembledHasMetaschema, Has
<1>10. \A r \in URIs : Covered(r) => Covered(r)'
  BY <1>1, <1>4 DEF Covered, Has, Attempted
<1>11. NoReferenceLost'
  BY <1>2, <1>4, <1>10, ReferencesKept DEF IInv
<1> QED BY <1>5, <1>6, <1>7, <1>8, <1>9, <1>11 DEF IInv

-----------------------------------------------------------------------------
(* The invariant.                                                          *)

LEMMA InitInv == Init => IInv
<1> SUFFICES ASSUME Init  PROVE IInv
  OBVIOUS
<1>1. TypeOK
  BY DEF Init, TypeOK, Settled
<1>2. StacksMatchStatus
  BY DEF Init, StacksMatchStatus, Settled
<1>3. \A e \in URIs : Owned(e)
  BY DEF Init, Owned, Owner
<1>4. \A c \in Calls : \A i \in DOMAIN stack[c] : Grounded(c, i)
  BY DEF Init
<1>5. AssembledHasMetaschema /\ NoReferenceLost
  BY DEF Init, AssembledHasMetaschema, NoReferenceLost, Has
<1> QED BY <1>1, <1>2, <1>3, <1>4, <1>5 DEF IInv

LEMMA StutterKeeps == IInv /\ UNCHANGED vars => IInv'
<1> SUFFICES ASSUME IInv, UNCHANGED vars  PROVE IInv'
  OBVIOUS
<1>1. /\ documents' = documents /\ pending' = pending /\ dialects' = dialects
      /\ assembling' = assembling /\ stack' = stack /\ status' = status /\ error' = error
      /\ turn' = turn /\ target' = target /\ attempts' = attempts
  BY DEF vars, registry
<1>2. TypeOK' /\ StacksMatchStatus'
  BY <1>1 DEF IInv, TypeOK, StacksMatchStatus, Settled
<1>3. \A e \in URIs : Owned(e)'
  BY <1>1 DEF IInv, Owned, Owner, Assembling
<1>4. \A x \in Calls : \A i \in DOMAIN stack'[x] : Grounded(x, i)'
  BY <1>1 DEF IInv, Grounded, Has
<1>5. AssembledHasMetaschema' /\ NoReferenceLost'
  BY <1>1 DEF IInv, AssembledHasMetaschema, NoReferenceLost, Has, Frame, Attempted
<1> QED BY <1>2, <1>3, <1>4, <1>5 DEF IInv

LEMMA NextInv == IInv /\ [Next]_vars => IInv'
<1> SUFFICES ASSUME IInv, [Next]_vars  PROVE IInv'
  OBVIOUS
<1>1. ASSUME NEW c \in Calls, Step(c)  PROVE IInv'
  BY <1>1, RegisterKeeps, FetchKeeps, MetaKeeps, AssembleKeeps, SettleKeeps, DrainKeeps,
     UnwindKeeps DEF Step
<1>2. ASSUME NEW c \in Calls, NEW d \in Loadable, LoadSchema(c, d)  PROVE IInv'
  BY <1>2, LoadSchemaKeeps
<1>3. ASSUME NEW c \in Calls, NEW u \in Fetchable, Load(c, u)  PROVE IInv'
  BY <1>3, LoadKeeps
<1>4. ASSUME NEW d \in Local, RegisterSchema(d)  PROVE IInv'
  BY <1>4, RegisterSchemaKeeps
<1>5. CASE UNCHANGED vars
  BY <1>5, StutterKeeps
<1> QED BY <1>1, <1>2, <1>3, <1>4, <1>5 DEF Next

LEMMA Invariance == Spec => []IInv
  BY InitInv, NextInv, PTL DEF Spec

\* The loading code's state keeps its types through every interleaving of calls
\* (index.ts: loadSchema, load, registerAssembling, ensureDialectUri, loadPending).
THEOREM TypeCorrect == Spec => []TypeOK
  BY Invariance, PTL DEF IInv

\* A mark with exactly one owner, as a cardinality.
LEMMA OwnedOnce == IInv => AssemblingIsOwned
<1> SUFFICES ASSUME IInv, NEW e \in URIs
             PROVE  LET owners == {f \in UNION {{c} \X DOMAIN stack[c] : c \in Calls} :
                                     Assembling(Frame(f[1], f[2])) /\ Frame(f[1], f[2]).uri = e}
                    IN Cardinality(owners) = IF e \in assembling THEN 1 ELSE 0
  BY DEF AssemblingIsOwned
<1> DEFINE owners == {f \in UNION {{c} \X DOMAIN stack[c] : c \in Calls} :
                        Assembling(Frame(f[1], f[2])) /\ Frame(f[1], f[2]).uri = e}
<1>1. Owned(e)
  BY DEF IInv
<1>2. \A c \in Calls : \A i \in DOMAIN stack[c] : i \in Nat
  BY DEF IInv, TypeOK
<1>3. \A f \in owners : \E c \in Calls : \E i \in Nat : f = <<c, i>> /\ Owner(c, i, e)
  <2> SUFFICES ASSUME NEW f \in owners
               PROVE  \E c \in Calls : \E i \in Nat : f = <<c, i>> /\ Owner(c, i, e)
    OBVIOUS
  <2>1. PICK c \in Calls : f \in {c} \X DOMAIN stack[c]
    OBVIOUS
  <2>2. PICK i \in DOMAIN stack[c] : f = <<c, i>>
    BY <2>1
  <2>3. Owner(c, i, e)
    BY <2>2 DEF Owner, Frame
  <2> QED BY <2>2, <2>3, <1>2
<1>4. \A c \in Calls, i \in Nat : Owner(c, i, e) => <<c, i>> \in owners
  <2> SUFFICES ASSUME NEW c \in Calls, NEW i \in Nat, Owner(c, i, e)
               PROVE  <<c, i>> \in owners
    OBVIOUS
  <2>1. <<c, i>> \in {c} \X DOMAIN stack[c]
    BY DEF Owner
  <2>2. <<c, i>> \in UNION {{x} \X DOMAIN stack[x] : x \in Calls}
    BY <2>1
  <2> QED BY <2>2 DEF Owner, Frame
<1> HIDE DEF owners
<1>5. CASE e \in assembling
  <2>1. PICK c \in Calls, i \in Nat : Owner(c, i, e)
    BY <1>1, <1>5 DEF Owned
  <2>2. <<c, i>> \in owners
    BY <2>1, <1>4
  <2>3. \A f \in owners : f = <<c, i>>
    BY <2>1, <1>1, <1>3 DEF Owned
  <2>4. owners = {<<c, i>>}
    BY <2>2, <2>3
  <2>5. Cardinality({<<c, i>>}) = 1
    BY FS_Singleton
  <2> QED BY <2>4, <2>5, <1>5 DEF owners
<1>6. CASE e \notin assembling
  <2>1. owners = {}
    BY <1>1, <1>3, <1>6 DEF Owned
  <2> QED BY <2>1, <1>6, FS_EmptySet DEF owners
<1> QED BY <1>5, <1>6

\* The assembling set is what the calls in flight are assembling, each dialect
\* by one of them: the finally of ensureDialectUri clears every mark.
THEOREM MarksAreOwned == Spec => []AssemblingIsOwned
  BY Invariance, OwnedOnce, PTL

\* No document whose references were never asked for (walk, nextUnresolved,
\* loadPending).
THEOREM ReferencesAreKept == Spec => []NoReferenceLost
  BY Invariance, PTL DEF IInv

\* Every assembled dialect has its metaschema in the registry, or is described
\* by the metaschema that is still on its way (ensureDialectUri).
THEOREM DialectsAreGrounded == Spec => []AssembledHasMetaschema
  BY Invariance, PTL DEF IInv

-----------------------------------------------------------------------------
(* What a call that resolves has loaded.  A running call ends in the drain *)
(* of the references, and until its own document is registered, the frame   *)
(* above that drain is the one that is to register it.                      *)

\* Frame f is registering u's document, or fetching it and failing without it.
Seeks(f, u) ==
  \/ f.at = "register" /\ At[f.doc] = u
  \/ f.at = "fetch" /\ f.must = TRUE /\ f.uri = u

\* The target of call c is registered, or its last frame but the drain seeks it.
Sought(c) ==
  status[c] = "running" =>
    /\ target[c] \in URIs
    /\ stack[c][Len(stack[c])].at = "drain"
    /\ \/ Has(target[c])
       \/ Len(stack[c]) > 1 /\ Seeks(stack[c][Len(stack[c]) - 1], target[c])

LInv == IInv /\ \A c \in Calls : Sought(c)

\* The frames put where the top frame was take over its search.
TakeSearch(c, frames) ==
  /\ Len(stack[c]) = 1 => frames # << >> /\ frames[Len(frames)].at = "drain"
  /\ \A u \in URIs : Seeks(stack[c][1], u) =>
       documents'[u] # None \/ (frames # << >> /\ Seeks(frames[Len(frames)], u))

LEMMA SearchMoves ==
  ASSUME NEW c \in Calls, NEW frames, Moves(c, frames), Sought(c), status[c] = "running",
         target' = target, \A u \in URIs : documents[u] # None => documents'[u] # None,
         TakeSearch(c, frames)
  PROVE  Sought(c)'
<1> DEFINE n == Len(frames)
           m == Len(stack[c])
           s == stack[c]
           t == (stack[c])'
           u == target[c]
<1>1. /\ n \in Nat /\ m \in Nat /\ m > 0 /\ Len(t) = n + m - 1
      /\ \A i \in 1..n : t[i] = frames[i]
      /\ \A i \in 2..m : t[i + n - 1] = s[i]
  BY Moved
<1>2. frames = << >> <=> n = 0
  BY DEF Moves
<1>3. /\ u \in URIs /\ s[m].at = "drain"
      /\ documents[u] # None \/ (m > 1 /\ Seeks(s[m - 1], u))
  BY DEF Sought, Has
<1>4. /\ m = 1 => n # 0 /\ frames[n].at = "drain"
      /\ Seeks(s[1], u) => documents'[u] # None \/ (n # 0 /\ Seeks(frames[n], u))
  BY <1>2, <1>3 DEF TakeSearch
<1>5. documents[u] # None => documents'[u] # None
  BY <1>3
<1>6. SUFFICES /\ t[Len(t)].at = "drain"
               /\ documents'[u] # None \/ (Len(t) > 1 /\ Seeks(t[Len(t) - 1], u))
  <2>1. \A f : Seeks(f, u)' <=> Seeks(f, u)
    BY DEF Seeks
  <2> QED BY <1>3, <2>1 DEF Sought, Has, Seeks
<1> HIDE DEF n, m, s, t, u
<1>7. CASE m = 1
  <2>1. Len(t) = n /\ n \in 1..n
    BY <1>1, <1>4, <1>7
  <2>2. t[n] = frames[n]
    BY ONLY <2>1, <1>1
  <2>3. Seeks(s[m - 1], u) => FALSE \/ ~(m > 1)
    BY <1>7
  <2>4. documents'[u] # None
    BY <2>3, <1>3, <1>5
  <2> QED BY <2>1, <2>2, <2>4, <1>4, <1>7
<1>8. CASE m = 2
  <2>1. Len(t) = n + 1 /\ 2 \in 2..m /\ 2 + n - 1 = n + 1 /\ Len(t) - 1 = n
    BY <1>1, <1>8
  <2>2. t[Len(t)] = s[2]
    BY <2>1, <1>1
  <2>3. m - 1 = 1
    BY <1>8
  <2>4. n # 0 => n \in 1..n /\ Len(t) > 1
    BY <1>1, <2>1
  <2>5. n # 0 => t[Len(t) - 1] = frames[n]
    BY <2>1, <2>4, <1>1
  <2>6. t[Len(t)].at = "drain"
    BY <2>2, <1>3, <1>8
  <2>7. documents[u] # None \/ Seeks(s[1], u)
    BY <2>3, <1>3
  <2>8. Seeks(s[1], u) => documents'[u] # None \/ (Len(t) > 1 /\ Seeks(t[Len(t) - 1], u))
    BY <2>4, <2>5, <1>4
  <2> QED BY <2>6, <2>7, <2>8, <1>5
<1>9. CASE m > 2
  <2>1. /\ m \in 2..m /\ m - 1 \in 2..m
        /\ m + n - 1 = Len(t) /\ (m - 1) + n - 1 = Len(t) - 1 /\ Len(t) > 1
    BY <1>1, <1>9
  <2>2. t[Len(t)] = s[m] /\ t[Len(t) - 1] = s[m - 1]
    BY <2>1, <1>1
  <2> QED BY <2>1, <2>2, <1>3, <1>5
<1> QED BY <1>1, <1>7, <1>8, <1>9

\* A step of one call, and the registry's growth, leave the others' search alone.
LEMMA SearchesKept ==
  ASSUME LInv, NEW c,
         \A x \in Calls \ {c} : /\ stack'[x] = stack[x] /\ target'[x] = target[x]
                               /\ status'[x] = status[x],
         \A u \in URIs : documents[u] # None => documents'[u] # None,
         c \in Calls => Sought(c)'
  PROVE  \A x \in Calls : Sought(x)'
<1> SUFFICES ASSUME NEW x \in Calls, x # c  PROVE Sought(x)'
  OBVIOUS
<1>1. Sought(x)
  BY DEF LInv
<1>2. stack'[x] = stack[x] /\ target'[x] = target[x] /\ status'[x] = status[x]
  OBVIOUS
<1>3. \A f, u : Seeks(f, u)' <=> Seeks(f, u)
  BY DEF Seeks
<1> QED BY <1>1, <1>2, <1>3 DEF Sought, Has, Seeks

LEMMA ThrowSought ==
  ASSUME LInv, NEW c \in Calls, NEW kind, NEW uri, Throw(c, kind, uri),
         documents' = documents, target' = target
  PROVE  \A x \in Calls : Sought(x)'
<1>1. stack' = stack /\ status' = [status EXCEPT ![c] = "throwing"]
  BY DEF Throw
<1>2. /\ status'[c] = "throwing"
      /\ \A x \in Calls \ {c} : status'[x] = status[x]
  BY <1>1 DEF LInv, IInv, TypeOK
<1>3. Sought(c)'
  BY <1>2 DEF Sought
<1> QED BY <1>1, <1>2, <1>3, SearchesKept

\* The function on top returns: it may not be the one that seeks the target,
\* unless the target is registered.
LEMMA ReturnSought ==
  ASSUME LInv, NEW c \in Calls, status[c] = "running", Return(c), target' = target,
         \A u \in URIs : documents[u] # None => documents'[u] # None,
         \A u \in URIs : Seeks(stack[c][1], u) => documents'[u] # None
  PROVE  \A x \in Calls : Sought(x)'
<1>1. stack[c] # << >> /\ TypeOK /\ << >> \in Seq(Frames)
  BY TopFrame DEF LInv, IInv, Settled
<1>2. Moves(c, << >>)
  BY <1>1 DEF Moves, Return, Replace
<1>3. status' = [status EXCEPT ![c] = IF Len(stack[c]) = 1 THEN "resolved" ELSE @]
  BY DEF Return
<1>4. \A x \in Calls \ {c} : stack'[x] = stack[x] /\ status'[x] = status[x]
  <2>1. \A x \in Calls \ {c} : stack'[x] = stack[x]
    BY <1>2, Moved
  <2>2. \A x \in Calls \ {c} : status'[x] = status[x]
    BY <1>1, <1>3 DEF TypeOK
  <2> QED BY <2>1, <2>2
<1>5. Sought(c)'
  <2>1. CASE Len(stack[c]) = 1
    <3>1. status'[c] = "resolved"
      BY <1>1, <1>3, <2>1 DEF TypeOK
    <3> QED BY <3>1 DEF Sought
  <2>2. CASE Len(stack[c]) # 1
    <3>1. TakeSearch(c, << >>)
      BY <2>2 DEF TakeSearch
    <3> QED BY <3>1, <1>2, SearchMoves DEF LInv
  <2> QED BY <2>1, <2>2
<1> QED BY <1>4, <1>5, SearchesKept

\* The function on top gives way to other frames.
LEMMA GoingOnSought ==
  ASSUME LInv, NEW c \in Calls, status[c] = "running", NEW frames \in Seq(Frames),
         stack' = [stack EXCEPT ![c] = frames \o Tail(@)],
         status' = status, target' = target, documents' = documents,
         Len(stack[c]) = 1 => frames # << >> /\ frames[Len(frames)].at = "drain",
         \A u \in URIs : Seeks(stack[c][1], u) => frames # << >> /\ Seeks(frames[Len(frames)], u)
  PROVE  \A x \in Calls : Sought(x)'
<1>1. stack[c] # << >> /\ TypeOK
  BY TopFrame DEF LInv, IInv, Settled
<1>2. Moves(c, frames)
  BY <1>1 DEF Moves
<1>3. TakeSearch(c, frames)
  BY DEF TakeSearch
<1>4. Sought(c)'
  BY <1>2, <1>3, SearchMoves DEF LInv
<1>5. \A x \in Calls \ {c} : stack'[x] = stack[x]
  BY <1>2, Moved
<1> QED BY <1>4, <1>5, SearchesKept

\* Only the drain is ever alone on a running call's stack.
LEMMA BottomDrains ==
  ASSUME LInv, NEW c \in Calls, NEW at, Running(c, at), at # "drain"
  PROVE  Len(stack[c]) # 1
<1>1. status[c] = "running" /\ stack[c][1].at = at
  BY DEF Running
<1> QED BY <1>1 DEF LInv, Sought

LEMMA RegisterSought ==
  ASSUME LInv, NEW c \in Calls, Register(c)
  PROVE  \A x \in Calls : Sought(x)'
<1> DEFINE d == stack[c][1].doc
           attempted == stack[c][1].attempted
<1>1. Running(c, "register") /\ target' = target /\ IInv
  BY DEF Register, LInv
<1>2. /\ status[c] = "running" /\ stack[c][1] \in Frames /\ stack[c][1].at = "register"
      /\ d \in Docs /\ attempted \in SUBSET URIs /\ Len(stack[c]) # 1
  BY <1>1, RunningFacts, FrameFacts, BottomDrains
<1>3. \A u : Seeks(stack[c][1], u) => u = At[d]
  BY <1>2 DEF Seeks
<1>4. ASSUME NEW kind, NEW uri, Throw(c, kind, uri), UNCHANGED registry
      PROVE  \A x \in Calls : Sought(x)'
  BY <1>1, <1>4, ThrowSought DEF registry
<1>5. ASSUME NEW e \in URIs, EnsureDialect(c, d, e, attempted), UNCHANGED registry
      PROVE  \A x \in Calls : Sought(x)'
  <2>1. CASE e \in assembling
    BY <1>4, <1>5, <2>1 DEF EnsureDialect
  <2>2. CASE e \notin assembling
    <3> DEFINE f == IF Has(e) THEN [at |-> "assemble", uri |-> e, doc |-> documents[e]]
                    ELSE [at |-> "meta", uri |-> e]
               g == [at |-> "register", doc |-> d, attempted |-> attempted \union {e}]
    <3>1. /\ stack' = [stack EXCEPT ![c] = <<f, g>> \o Tail(@)]
          /\ status' = status /\ documents' = documents
      BY <1>5, <2>2 DEF EnsureDialect, registry
    <3>2. documents[e] # None => documents[e] \in Docs
      BY <1>1 DEF IInv, TypeOK
    <3>3. f \in Frames /\ g \in Frames
      BY <1>2, <3>2, FrameKinds DEF Has
    <3>4. g.at = "register" /\ g.doc = d
      OBVIOUS
    <3> HIDE DEF f, g
    <3>5. <<f, g>> \in Seq(Frames) /\ <<f, g>> # << >> /\ <<f, g>>[Len(<<f, g>>)] = g
      BY <3>3
    <3>6. \A u : Seeks(stack[c][1], u) => Seeks(g, u)
      BY <1>2, <1>3, <3>4 DEF Seeks
    <3> QED BY <1>1, <1>2, <3>1, <3>5, <3>6, GoingOnSought
  <2> QED BY <2>1, <2>2
<1>6. ASSUME NEW i \in Unknown(d), UNCHANGED registry,
             \/ Throw(c, "unknown dialect", Demands(d)[i])
             \/ EnsureDialect(c, d, Demands(d)[i], attempted)
      PROVE  \A x \in Calls : Sought(x)'
  BY <1>2, <1>4, <1>5, <1>6, DemandsAreURIs
<1>7. ASSUME Registrable(d), Commit(d), Return(c)
      PROVE  \A x \in Calls : Sought(x)'
  <2>1. /\ documents'[At[d]] # None
        /\ \A u \in URIs : documents[u] # None => documents'[u] # None
    BY <1>1, <1>2, <1>7, CommitFacts DEF Registrable, IInv
  <2> QED BY <1>1, <1>2, <1>3, <1>7, <2>1, ReturnSought
<1>8. \/ \E i \in Unknown(d) :
           /\ UNCHANGED registry
           /\ \/ Throw(c, "unknown dialect", Demands(d)[i])
              \/ EnsureDialect(c, d, Demands(d)[i], attempted)
      \/ Throw(c, "refused", At[d]) /\ UNCHANGED registry
      \/ \E e \in Unresolvable(d) : Throw(c, "unresolvable", e) /\ UNCHANGED registry
      \/ Throw(c, "invalid", At[d]) /\ UNCHANGED registry
      \/ Registrable(d) /\ Commit(d) /\ Return(c)
  BY DEF Register
<1> QED BY <1>4, <1>6, <1>7, <1>8

LEMMA FetchSought ==
  ASSUME LInv, NEW c \in Calls, FetchArrives(c)
  PROVE  \A x \in Calls : Sought(x)'
<1> DEFINE frame == stack[c][1]
           u == stack[c][1].uri
           g == [at |-> "register", doc |-> Served[u], attempted |-> {}]
<1>1. /\ Running(c, "fetch") /\ documents' = documents /\ target' = target /\ IInv
  BY DEF FetchArrives, registry, LInv
<1>2. /\ status[c] = "running" /\ frame \in Frames /\ frame.at = "fetch"
      /\ u \in URIs /\ frame.must \in BOOLEAN /\ Len(stack[c]) # 1
  BY <1>1, RunningFacts, FrameFacts, BottomDrains
<1>3. \A x : Seeks(frame, x) => x = u /\ frame.must = TRUE
  BY <1>2 DEF Seeks
<1>4. CASE Provided(u) /\ Replace(c, <<g>>) /\ UNCHANGED status
  <2>1. g \in Frames /\ g.at = "register" /\ At[g.doc] = u
    BY <1>2, <1>4, ServedFacts
  <2>2. stack' = [stack EXCEPT ![c] = <<g>> \o Tail(@)]
    BY <1>4 DEF Replace
  <2> HIDE DEF g
  <2>3. <<g>> \in Seq(Frames) /\ <<g>> # << >> /\ <<g>>[Len(<<g>>)] = g
    BY <2>1
  <2>4. \A x : Seeks(frame, x) => Seeks(g, x)
    BY <1>3, <2>1 DEF Seeks
  <2> QED BY <1>1, <1>2, <1>4, <2>2, <2>3, <2>4, GoingOnSought
<1>5. CASE Return(c) /\ ~frame.must
  BY <1>1, <1>2, <1>3, <1>5, ReturnSought
<1>6. ASSUME NEW kind, Throw(c, kind, u)
      PROVE  \A x \in Calls : Sought(x)'
  BY <1>1, <1>6, ThrowSought
<1>7. \/ Provided(u) /\ Replace(c, <<g>>) /\ UNCHANGED status
      \/ Return(c) /\ ~frame.must
      \/ Throw(c, "no loader", u)
      \/ Throw(c, "loader", u)
  BY DEF FetchArrives
<1> QED BY <1>4, <1>5, <1>6, <1>7

\* An assembly seeks nothing: what takes its place is free.
LEMMA AssemblySought ==
  ASSUME LInv, NEW c \in Calls, NEW at \in {"meta", "assemble", "settle"}, Running(c, at),
         NEW frames \in Seq(Frames), stack' = [stack EXCEPT ![c] = frames \o Tail(@)],
         status' = status, target' = target, documents' = documents
  PROVE  \A x \in Calls : Sought(x)'
<1>1. /\ status[c] = "running" /\ stack[c][1].at = at /\ Len(stack[c]) # 1
  BY BottomDrains DEF Running
<1>2. \A u : ~Seeks(stack[c][1], u)
  BY <1>1 DEF Seeks
<1> QED BY <1>1, <1>2, GoingOnSought

LEMMA MetaSought ==
  ASSUME LInv, NEW c \in Calls, MetaArrives(c)
  PROVE  \A x \in Calls : Sought(x)'
<1> DEFINE e == stack[c][1].uri
           g == [at |-> "register", doc |-> Served[e], attempted |-> {}]
           settle == [at |-> "settle", uri |-> e]
           assemble == [at |-> "assemble", uri |-> e, doc |-> Served[e]]
<1>1. /\ Running(c, "meta") /\ documents' = documents /\ target' = target /\ IInv
  BY DEF MetaArrives, LInv
<1>2. e \in URIs
  BY <1>1, RunningFacts, FrameFacts
<1>3. ASSUME NEW f \in {settle, assemble}, Provided(e), Replace(c, <<g, f>>), UNCHANGED status
      PROVE  \A x \in Calls : Sought(x)'
  <2>1. g \in Frames /\ settle \in Frames /\ assemble \in Frames
    BY <1>2, <1>3, ServedFacts, FrameKinds
  <2>2. f \in Frames
    BY <2>1
  <2>3. stack' = [stack EXCEPT ![c] = <<g, f>> \o Tail(@)]
    BY <1>3 DEF Replace
  <2> HIDE DEF g, settle, assemble
  <2>4. <<g, f>> \in Seq(Frames)
    BY <2>1, <2>2
  <2> QED BY <1>1, <1>3, <2>3, <2>4, AssemblySought
<1>4. ASSUME NEW kind, Throw(c, kind, e)
      PROVE  \A x \in Calls : Sought(x)'
  BY <1>1, <1>4, ThrowSought
<1>5. \/ Provided(e) /\ Replace(c, <<g, settle>>) /\ UNCHANGED status
      \/ Provided(e) /\ Replace(c, <<g, assemble>>) /\ UNCHANGED status
      \/ Throw(c, "unknown vocabulary", e)
      \/ Throw(c, "unknown dialect", e)
      \/ Throw(c, "loader", e)
  BY DEF MetaArrives
<1> HIDE DEF g, settle, assemble
<1> QED BY <1>3, <1>4, <1>5

LEMMA AssembleSought ==
  ASSUME LInv, NEW c \in Calls, Assemble(c) \/ Settle(c)
  PROVE  \A x \in Calls : Sought(x)'
<1>1. /\ Running(c, "assemble") \/ Running(c, "settle")
      /\ documents' = documents /\ target' = target
  BY DEF Assemble, Settle, registry
<1>2. CASE DrainClosure(c)
  <2>1. /\ stack' = [stack EXCEPT ![c] = <<[at |-> "drain"]>> \o Tail(@)]
        /\ status' = status
    BY <1>2 DEF DrainClosure, Replace
  <2>2. <<[at |-> "drain"]>> \in Seq(Frames)
    BY FrameKinds
  <2> QED BY <1>1, <2>1, <2>2, AssemblySought
<1>3. CASE Throw(c, "unknown vocabulary", stack[c][1].uri)
  BY <1>1, <1>3, ThrowSought
<1> QED BY <1>2, <1>3 DEF Assemble, Settle

LEMMA DrainSought ==
  ASSUME LInv, NEW c \in Calls, Drain(c)
  PROVE  \A x \in Calls : Sought(x)'
<1> DEFINE top == stack[c][1]
<1>1. /\ Running(c, "drain") /\ documents' = documents /\ target' = target /\ IInv
  BY DEF Drain, LInv
<1>2. /\ status[c] = "running" /\ stack[c] \in Seq(Frames) /\ stack[c] # << >>
      /\ top \in Frames /\ top.at = "drain"
  BY <1>1, RunningFacts
<1>3. \A u : ~Seeks(top, u)
  BY <1>2 DEF Seeks
<1>4. ASSUME NEW i \in DOMAIN pending,
             Push(c, <<[at |-> "fetch", uri |-> pending[i], must |-> FALSE]>>),
             UNCHANGED status
      PROVE  \A x \in Calls : Sought(x)'
  <2> DEFINE f == [at |-> "fetch", uri |-> pending[i], must |-> FALSE]
  <2>1. pending[i] \in URIs
    BY <1>1 DEF IInv, TypeOK
  <2>2. f \in Frames
    BY <2>1, FrameKinds
  <2>3. stack' = [stack EXCEPT ![c] = <<f>> \o @]
    BY <1>4 DEF Push
  <2> HIDE DEF f
  <2>4. /\ <<f, top>> \in Seq(Frames) /\ <<f, top>> # << >>
        /\ <<f, top>>[Len(<<f, top>>)] = top
    BY <1>2, <2>2
  <2>5. <<f>> \o stack[c] = <<f, top>> \o Tail(stack[c])
    <3> HIDE DEF top
    <3>1. stack[c] = <<top>> \o Tail(stack[c])
      BY <1>2 DEF top
    <3>2. <<f>> \o (<<top>> \o Tail(stack[c])) = <<f, top>> \o Tail(stack[c])
      <4>1. Tail(stack[c]) \in Seq(Frames)
        BY <1>2
      <4> QED BY <4>1, <1>2, <2>2
    <3> QED BY <3>1, <3>2
  <2>6. stack' = [stack EXCEPT ![c] = <<f, top>> \o Tail(@)]
    BY <2>3, <2>5
  <2> HIDE DEF top
  <2> QED BY <1>1, <1>2, <1>3, <1>4, <2>4, <2>6, GoingOnSought DEF top
<1>5. CASE Return(c)
  BY <1>1, <1>2, <1>3, <1>5, ReturnSought
<1> QED BY <1>4, <1>5 DEF Drain

LEMMA UnwindSought ==
  ASSUME LInv, NEW c \in Calls, Unwind(c)
  PROVE  \A x \in Calls : Sought(x)'
<1>1. /\ status[c] = "throwing" /\ documents' = documents /\ target' = target
      /\ stack' = [stack EXCEPT ![c] = << >> \o Tail(@)]
      /\ status' = [status EXCEPT ![c] = IF Len(stack[c]) = 1 THEN "rejected" ELSE @]
  BY DEF Unwind, Replace, registry
<1>2. status'[c] # "running"
  BY <1>1 DEF LInv, IInv, TypeOK
<1>3. \A x \in Calls \ {c} : stack'[x] = stack[x] /\ status'[x] = status[x]
  BY <1>1 DEF LInv, IInv, TypeOK
<1>4. Sought(c)'
  BY <1>2 DEF Sought
<1> QED BY <1>1, <1>3, <1>4, SearchesKept

LEMMA StartSought ==
  ASSUME LInv, NEW c \in Calls, NEW u \in URIs, NEW frames \in Seq(Frames), frames # << >>,
         Start(c, u, frames), frames[Len(frames)].at = "drain",
         Has(u) \/ (Len(frames) > 1 /\ Seeks(frames[Len(frames) - 1], u))
  PROVE  \A x \in Calls : Sought(x)'
<1>1. /\ documents' = documents
      /\ status' = [status EXCEPT ![c] = "running"]
      /\ stack' = [stack EXCEPT ![c] = frames]
      /\ target' = [target EXCEPT ![c] = u]
  BY DEF Start, registry
<1>2. /\ stack'[c] = frames /\ target'[c] = u
      /\ \A x \in Calls \ {c} : /\ stack'[x] = stack[x] /\ target'[x] = target[x]
                               /\ status'[x] = status[x]
  BY <1>1 DEF LInv, IInv, TypeOK
<1>3. Sought(c)'
  <2>1. \A f : Seeks(f, u)' <=> Seeks(f, u)
    BY DEF Seeks
  <2> QED BY <1>1, <1>2, <2>1 DEF Sought, Has, Seeks
<1> QED BY <1>1, <1>2, <1>3, SearchesKept

LEMMA TwoFrames ==
  ASSUME NEW f \in Frames, NEW g \in Frames
  PROVE  /\ <<f, g>> \in Seq(Frames) /\ <<f, g>> # << >> /\ Len(<<f, g>>) > 1
         /\ <<f, g>>[Len(<<f, g>>)] = g /\ <<f, g>>[Len(<<f, g>>) - 1] = f
         /\ <<f>> \o <<g>> = <<f, g>>
<1>1. Len(<<f, g>>) = 2 /\ 2 - 1 = 1
  OBVIOUS
<1>2. <<f>> \o <<g>> \in Seq(Frames) /\ <<f, g>> \in Seq(Frames) /\ Len(<<f>> \o <<g>>) = 2
  OBVIOUS
<1>3. (<<f>> \o <<g>>)[1] = f /\ (<<f>> \o <<g>>)[2] = g
  OBVIOUS
<1>4. \A i \in 1..Len(<<f>> \o <<g>>) : (<<f>> \o <<g>>)[i] = <<f, g>>[i]
  BY <1>2, <1>3
<1>5. <<f>> \o <<g>> = <<f, g>>
  BY <1>1, <1>2, <1>4, SeqEqual
<1> QED BY <1>1, <1>5

LEMMA LoadSchemaSought ==
  ASSUME LInv, NEW c \in Calls, NEW d \in Loadable, LoadSchema(c, d)
  PROVE  \A x \in Calls : Sought(x)'
<1> DEFINE f == [at |-> "register", doc |-> d, attempted |-> {}]
           g == [at |-> "drain"]
<1>1. At[d] \in URIs /\ d \in Docs /\ {} \in SUBSET URIs
  BY LoadingAssumption DEF LoadingAssumption
<1>2. f \in Frames /\ Seeks(f, At[d]) /\ g \in Frames /\ g.at = "drain"
  BY <1>1, FrameKinds DEF Seeks
<1>3. Start(c, At[d], <<f, g>>)
  BY DEF LoadSchema
<1> HIDE DEF f, g
<1> DEFINE frames == <<f, g>>
<1>4. /\ frames \in Seq(Frames) /\ frames # << >> /\ Len(frames) > 1
      /\ frames[Len(frames)] = g /\ frames[Len(frames) - 1] = f
  BY <1>2, TwoFrames
<1>5. Start(c, At[d], frames)
  BY <1>3
<1> HIDE DEF frames
<1> QED BY <1>1, <1>2, <1>4, <1>5, StartSought

LEMMA LoadSought ==
  ASSUME LInv, NEW c \in Calls, NEW u \in Fetchable, Load(c, u)
  PROVE  \A x \in Calls : Sought(x)'
<1> DEFINE f == [at |-> "fetch", uri |-> u, must |-> TRUE]
           g == [at |-> "drain"]
<1>1. u \in URIs
  BY LoadingAssumption DEF LoadingAssumption
<1>2. f \in Frames /\ Seeks(f, u) /\ g \in Frames /\ g.at = "drain"
  BY <1>1, FrameKinds DEF Seeks
<1>3. Start(c, u, (IF Has(u) THEN << >> ELSE <<f>>) \o <<g>>)
  BY DEF Load
<1> HIDE DEF f, g
<1>4. CASE Has(u)
  <2>1. << >> \o <<g>> = <<g>>
    BY <1>2
  <2>2. <<g>> \in Seq(Frames) /\ <<g>> # << >> /\ <<g>>[Len(<<g>>)] = g
    BY <1>2
  <2> QED BY <1>1, <1>2, <1>3, <1>4, <2>1, <2>2, StartSought
<1>5. CASE ~Has(u)
  <2> DEFINE frames == <<f, g>>
  <2>1. <<f>> \o <<g>> = frames
    BY <1>2, TwoFrames
  <2>2. /\ frames \in Seq(Frames) /\ frames # << >> /\ Len(frames) > 1
        /\ frames[Len(frames)] = g /\ frames[Len(frames) - 1] = f
    BY <1>2, TwoFrames
  <2>3. Start(c, u, frames)
    BY <1>3, <1>5, <2>1
  <2> HIDE DEF frames
  <2> QED BY <1>1, <1>2, <2>2, <2>3, StartSought
<1> QED BY <1>4, <1>5

LEMMA RegisterSchemaSought ==
  ASSUME LInv, NEW d \in Local, RegisterSchema(d)
  PROVE  \A x \in Calls : Sought(x)'
<1>1. d \in Docs /\ ~Refused(d) /\ Commit(d)
  BY LoadingAssumption DEF LoadingAssumption, RegisterSchema, Registrable
<1>2. \A u \in URIs : documents[u] # None => documents'[u] # None
  BY <1>1, CommitFacts DEF LInv, IInv
<1>3. stack' = stack /\ status' = status /\ target' = target
  BY DEF RegisterSchema
<1> SUFFICES ASSUME NEW x \in Calls  PROVE Sought(x)'
  OBVIOUS
<1>4. Sought(x)
  BY DEF LInv
<1>5. \A f, u : Seeks(f, u)' <=> Seeks(f, u)
  BY DEF Seeks
<1> QED BY <1>2, <1>3, <1>4, <1>5 DEF Sought, Has, Seeks

LEMMA LInvInit == Init => LInv
<1> SUFFICES ASSUME Init  PROVE LInv
  OBVIOUS
<1>1. IInv
  BY InitInv
<1>2. \A c \in Calls : status[c] # "running"
  BY DEF Init
<1> QED BY <1>1, <1>2 DEF LInv, Sought

LEMMA LInvNext == LInv /\ [Next]_vars => LInv'
<1> SUFFICES ASSUME LInv, [Next]_vars  PROVE \A x \in Calls : Sought(x)'
  <2>1. LInv => IInv
    BY DEF LInv
  <2> QED BY <2>1, NextInv DEF LInv
<1>1. ASSUME NEW c \in Calls, Step(c)  PROVE \A x \in Calls : Sought(x)'
  BY <1>1, RegisterSought, FetchSought, MetaSought, AssembleSought, DrainSought,
     UnwindSought DEF Step
<1>2. ASSUME NEW c \in Calls, NEW d \in Loadable, LoadSchema(c, d)
      PROVE  \A x \in Calls : Sought(x)'
  BY <1>2, LoadSchemaSought
<1>3. ASSUME NEW c \in Calls, NEW u \in Fetchable, Load(c, u)
      PROVE  \A x \in Calls : Sought(x)'
  BY <1>3, LoadSought
<1>4. ASSUME NEW d \in Local, RegisterSchema(d)
      PROVE  \A x \in Calls : Sought(x)'
  BY <1>4, RegisterSchemaSought
<1>5. CASE UNCHANGED vars
  <2>1. documents' = documents /\ stack' = stack /\ status' = status /\ target' = target
    BY <1>5 DEF vars, registry
  <2>2. \A f, u : Seeks(f, u)' <=> Seeks(f, u)
    BY DEF Seeks
  <2> QED BY <2>1, <2>2 DEF LInv, Sought, Has, Seeks
<1> QED BY <1>1, <1>2, <1>3, <1>4, <1>5 DEF Next

LEMMA Searching == Spec => []LInv
  BY LInvInit, LInvNext, PTL DEF Spec

\* No call but c is in flight.
Alone(c) == \A x \in Calls \ {c} : stack[x] = << >>

Resolves(c) == status[c] = "running" /\ status'[c] = "resolved"

Attainable == attempts \union {u \in URIs : Has(u)}

\* Only the drain at the bottom of its stack resolves a call, its queue empty.
LEMMA ResolvesDraining ==
  ASSUME LInv, NEW c \in Calls, Next, Resolves(c)
  PROVE  /\ Len(stack[c]) = 1 /\ stack[c][1].at = "drain"
         /\ Has(target[c])
         /\ \A r \in ToSet(pending) : Has(r)
         /\ documents' = documents /\ attempts' = attempts /\ target' = target
<1>1. TypeOK /\ IInv
  BY DEF LInv, IInv
\* A step that leaves c's status alone, or sets it to something else.
<1>2. ASSUME NEW x \in Calls, NEW s, s # "resolved", status' = [status EXCEPT ![x] = s]
      PROVE  FALSE
  BY <1>1, <1>2 DEF Resolves, TypeOK
<1>3. status' # status
  BY DEF Resolves
<1>4. ASSUME NEW x \in Calls, NEW kind, NEW uri, Throw(x, kind, uri)
      PROVE  FALSE
  BY <1>2, <1>4 DEF Throw
<1>5. ASSUME NEW x \in Calls, Return(x)
      PROVE  x = c /\ Len(stack[c]) = 1
  BY <1>1, <1>5 DEF Return, Resolves, TypeOK
<1>6. ASSUME NEW x \in Calls, Return(x), NEW at, Running(x, at), at # "drain"
      PROVE  FALSE
  BY <1>5, <1>6, BottomDrains
<1>7. ASSUME NEW x \in Calls, Step(x)
      PROVE  Drain(x)
  <2>1. CASE Register(x)
    BY <2>1, <1>3, <1>4, <1>6 DEF Register, EnsureDialect
  <2>2. CASE FetchArrives(x)
    BY <2>2, <1>3, <1>4, <1>6 DEF FetchArrives
  <2>3. CASE MetaArrives(x)
    BY <2>3, <1>3, <1>4 DEF MetaArrives
  <2>4. CASE Assemble(x) \/ Settle(x)
    BY <2>4, <1>3, <1>4 DEF Assemble, Settle, DrainClosure
  <2>5. CASE Unwind(x)
    <3>1. /\ status[x] = "throwing"
          /\ status' = [status EXCEPT ![x] = IF Len(stack[x]) = 1 THEN "rejected" ELSE @]
      BY <2>5 DEF Unwind
    <3> QED BY <3>1, <1>1 DEF Resolves, TypeOK
  <2> QED BY <1>7, <2>1, <2>2, <2>3, <2>4, <2>5 DEF Step
<1>8. ASSUME NEW x \in Calls, NEW u, NEW frames, Start(x, u, frames)
      PROVE  FALSE
  BY <1>2, <1>8 DEF Start
<1>9. ASSUME NEW d \in Local, RegisterSchema(d)
      PROVE  FALSE
  BY <1>3, <1>9 DEF RegisterSchema
<1>10. PICK x \in Calls : Drain(x)
  BY <1>7, <1>8, <1>9 DEF Next, LoadSchema, Load
<1>11. /\ Running(x, "drain") /\ Return(x)
       /\ {i \in DOMAIN pending : ~Has(pending[i])} = {}
       /\ documents' = documents /\ attempts' = attempts /\ target' = target
  BY <1>3, <1>10 DEF Drain
<1>12. x = c /\ Len(stack[c]) = 1
  BY <1>5, <1>11
<1>13. stack[c][1].at = "drain"
  BY <1>11, <1>12 DEF Running
<1>14. Has(target[c])
  BY <1>12 DEF LInv, Sought, Resolves
<1>15. \A r \in ToSet(pending) : Has(r)
  BY <1>11 DEF ToSet
<1> QED BY <1>11, <1>12, <1>13, <1>14, <1>15

\* What is registered references nothing that is neither registered nor tried.
LEMMA ResolvesLoaded ==
  ASSUME LInv, NEW c \in Calls, Next, Resolves(c), Alone(c)
  PROVE  ReachesOnly(documents[target[c]], Attainable)'
<1>1. /\ Len(stack[c]) = 1 /\ stack[c][1].at = "drain"
      /\ Has(target[c]) /\ target[c] \in URIs
      /\ \A r \in ToSet(pending) : Has(r)
      /\ documents' = documents /\ attempts' = attempts /\ target' = target
  BY ResolvesDraining DEF LInv, Sought, Resolves
<1>2. Attainable' = Attainable
  BY <1>1 DEF Attainable, Has
<1>3. \A x \in Calls : \A i \in DOMAIN stack[x] : Attempted(Frame(x, i)) = {}
  <2> SUFFICES ASSUME NEW x \in Calls, NEW i \in DOMAIN stack[x]
               PROVE  Attempted(stack[x][i]) = {}
    BY DEF Frame
  <2>1. stack[x] \in Seq(Frames)
    BY DEF LInv, IInv, TypeOK
  <2>2. x = c
    BY DEF Alone
  <2>3. i = 1
    BY <1>1, <2>1, <2>2
  <2> QED BY <1>1, <2>2, <2>3 DEF Attempted
<1>4. ASSUME NEW u \in URIs, Has(u)
      PROVE  ToSet(Refs[documents[u]]) \subseteq Attainable
  <2> SUFFICES ASSUME NEW r \in ToSet(Refs[documents[u]])  PROVE r \in Attainable
    OBVIOUS
  <2>1. documents[u] \in Docs
    BY <1>4 DEF LInv, IInv, TypeOK, Has
  <2>2. r \in URIs
    BY <2>1, RefsAreURIs
  <2>3. \/ Has(r) \/ r \in ToSet(pending) \/ r \in attempts
        \/ \E x \in Calls : \E i \in DOMAIN stack[x] : r \in Attempted(Frame(x, i))
    BY <1>4 DEF LInv, IInv, NoReferenceLost
  <2> QED BY <2>2, <2>3, <1>1, <1>3 DEF Attainable
<1>5. \A u \in Attainable : u \in URIs
  BY DEF Attainable, LInv, IInv, TypeOK
<1>6. /\ ToSet(Refs[documents[target[c]]]) \subseteq Attainable
      /\ \A u \in Attainable : Has(u) => ToSet(Refs[documents[u]]) \subseteq Attainable
  BY <1>1, <1>4, <1>5
<1> QED BY <1>1, <1>2, <1>6 DEF ReachesOnly, Has

\* A call that resolves while no other is in flight has loaded its document and
\* all it transitively references, or tried to (loadSchema, load: loadPending
\* drains the whole queue).  Of two calls at once one may resolve while the other
\* still fetches what it needs.
THEOREM ResolvedAloneIsLoaded ==
  Spec => [][\A c \in Calls :
               Resolves(c) /\ Alone(c) => ReachesOnly(documents[target[c]], Attainable)']_vars
<1>1. ASSUME LInv, [Next]_vars
      PROVE  [\A c \in Calls :
               Resolves(c) /\ Alone(c) => ReachesOnly(documents[target[c]], Attainable)']_vars
  BY <1>1, ResolvesLoaded
<1> QED BY <1>1, Searching, PTL DEF Spec

\* With one call at a time, whatever is registered synchronously meanwhile, a
\* promise that resolves means everything was loaded or tried (loadSchema, load).
THEOREM ResolvedIsLoaded ==
  (\E only : Calls = {only}) => (Spec => ResolvedMeansLoaded)
<1>1. ASSUME LInv, [Next]_vars
      PROVE  (\E only : Calls = {only}) => [\A c \in Calls :
                status[c] = "running" /\ status'[c] = "resolved" =>
                  ReachesOnly(documents[target[c]], attempts \union {u \in URIs : Has(u)})']_vars
  <2> SUFFICES ASSUME Next, \E only : Calls = {only}, NEW c \in Calls, Resolves(c)
               PROVE  ReachesOnly(documents[target[c]], attempts \union {u \in URIs : Has(u)})'
    BY <1>1 DEF Resolves
  <2>1. Alone(c)
    BY DEF Alone
  <2> QED BY <1>1, <2>1, ResolvesLoaded DEF Attainable
<1>2. (\E only : Calls = {only}) => [](\E only : Calls = {only})
  <2>1. ASSUME \E only : Calls = {only}  PROVE [](\E only : Calls = {only})
    BY <2>1, PTL
  <2> QED BY <2>1
<1> QED BY <1>1, <1>2, Searching, PTL DEF Spec, ResolvedMeansLoaded

-----------------------------------------------------------------------------
(* Metaschema cycles a call finds by itself.  How a frame can stand on the *)
(* one below it is an invariant; what a call meets under its own mark then *)
(* follows from its stack alone.                                           *)

Referenced == UNION {ToSet(Refs[d]) : d \in Docs}

\* Frame a may stand on frame b while these dialects exist.
Sits(a, b, exist) ==
  \/ /\ a.at = "register" /\ b.at \in {"assemble", "settle"}
     /\ Served[b.uri] = a.doc /\ b.uri \notin a.attempted
     /\ b.at = "settle" => b.uri \in exist
     /\ b.at = "assemble" => Dialect[a.doc] # b.uri
  \/ a.at \in {"register", "fetch"} /\ b.at = "drain"
  \/ Assembling(a) /\ b.at = "register" /\ a.uri \in b.attempted
  \/ a.at = "drain" /\ b.at = "register" /\ b.attempted # {}

\* A registration tried no dialect its document does not demand.
Demanded(f) == f.at = "register" => f.attempted \subseteq ToSet(Demands(f.doc))

\* What a drain is loading was taken from the queue.
Queued(f) ==
  \/ f.at = "register" /\ \E u \in Referenced : Served[u] = f.doc
  \/ f.at = "fetch" /\ f.uri \in Referenced

\* Only the drain at the bottom may carry something else, what the call was for.
Laid(c) ==
  /\ \A i \in 1..Len(stack[c]) : Demanded(stack[c][i])
  /\ \A i \in 2..Len(stack[c]) : Sits(stack[c][i - 1], stack[c][i], dialects)
  /\ \A i \in 2..(Len(stack[c]) - 1) : stack[c][i].at = "drain" => Queued(stack[c][i - 1])

PendingIsReferenced == ToSet(pending) \subseteq Referenced

CInv == IInv /\ PendingIsReferenced /\ \A c \in Calls : Laid(c)

LEMMA SitsOn ==
  ASSUME NEW D, NEW E, D \subseteq E, NEW a, NEW b, Sits(a, b, D)
  PROVE  Sits(a, b, E)
  BY DEF Sits, Assembling

\* The frames put where the top frame was stand on each other and where it stood.
TakeStand(c, frames) ==
  /\ \A i \in 1..Len(frames) : Demanded(frames[i])
  /\ Len(frames) <= 2
  /\ Len(frames) = 2 =>
       /\ Sits(frames[1], frames[2], dialects')
       /\ frames[2].at = "drain" => Len(stack[c]) = 1 \/ Queued(frames[1])
  /\ frames # << >> /\ Len(stack[c]) > 1 => Sits(frames[Len(frames)], stack[c][2], dialects')
  /\ frames # << >> /\ Queued(stack[c][1]) => Queued(frames[Len(frames)])

LEMMA LaidMoves ==
  ASSUME NEW c \in Calls, NEW frames, Moves(c, frames), Laid(c),
         dialects \subseteq dialects', TakeStand(c, frames)
  PROVE  Laid(c)'
<1> DEFINE n == Len(frames)
           m == Len(stack[c])
           s == stack[c]
           t == (stack[c])'
<1>1. /\ n \in Nat /\ m \in Nat /\ m > 0 /\ Len(t) = n + m - 1
      /\ \A i \in 1..n : t[i] = frames[i]
      /\ \A i \in (n + 1)..(n + m - 1) : t[i] = s[i - n + 1]
  BY Moved
<1>2. frames = << >> <=> n = 0
  BY DEF Moves
<1>3. /\ \A i \in 1..m : Demanded(s[i])
      /\ \A i \in 2..m : Sits(s[i - 1], s[i], dialects)
      /\ \A i \in 2..(m - 1) : s[i].at = "drain" => Queued(s[i - 1])
  BY DEF Laid
<1>4. /\ \A i \in 1..n : Demanded(frames[i])
      /\ n <= 2
      /\ n = 2 => /\ Sits(frames[1], frames[2], dialects')
                  /\ frames[2].at = "drain" => m = 1 \/ Queued(frames[1])
      /\ n # 0 /\ m > 1 => Sits(frames[n], s[2], dialects')
      /\ n # 0 /\ Queued(s[1]) => Queued(frames[n])
  BY <1>2 DEF TakeStand
<1>5. \A i \in 2..m : Sits(s[i - 1], s[i], dialects')
  BY <1>3, SitsOn
<1>6. SUFFICES /\ \A i \in 1..Len(t) : Demanded(t[i])
               /\ \A i \in 2..Len(t) : Sits(t[i - 1], t[i], dialects')
               /\ \A i \in 2..(Len(t) - 1) : t[i].at = "drain" => Queued(t[i - 1])
  BY DEF Laid, Demanded, Queued
<1> HIDE DEF n, m, s, t
<1>7. ASSUME NEW i \in 1..Len(t)  PROVE Demanded(t[i])
  <2>1. CASE i <= n
    BY <2>1, <1>1, <1>4
  <2>2. CASE i > n
    <3>1. i \in (n + 1)..(n + m - 1) /\ i - n + 1 \in 1..m
      BY <2>2, <1>1
    <3> QED BY <3>1, <1>1, <1>3
  <2> QED BY <2>1, <2>2, <1>1
<1>8. ASSUME NEW i \in 2..Len(t)
      PROVE  /\ Sits(t[i - 1], t[i], dialects')
             /\ i \in 2..(Len(t) - 1) /\ t[i].at = "drain" => Queued(t[i - 1])
  <2>1. CASE i <= n
    <3>1. n = 2 /\ i = 2 /\ i - 1 = 1
      BY <2>1, <1>1, <1>4
    <3>2. t[1] = frames[1] /\ t[2] = frames[2]
      BY <3>1, <1>1
    <3>3. i \in 2..(Len(t) - 1) => m # 1
      BY <3>1, <1>1
    <3> QED BY <3>1, <3>2, <3>3, <1>4
  <2>2. CASE i = n + 1
    <3>1. n # 0 /\ n \in 1..n /\ i - 1 = n /\ m > 1 /\ i \in (n + 1)..(n + m - 1)
          /\ i - n + 1 = 2
      BY <2>2, <1>1
    <3>2. t[i] = s[2] /\ t[i - 1] = frames[n]
      BY <3>1, <1>1
    <3>3. i \in 2..(Len(t) - 1) => 2 \in 2..(m - 1) /\ 2 - 1 = 1
      BY <3>1, <1>1, <2>2
    <3>4. i \in 2..(Len(t) - 1) /\ t[i].at = "drain" => Queued(s[1])
      BY <3>2, <3>3, <1>3
    <3> QED BY <3>1, <3>2, <3>4, <1>4
  <2>3. CASE i > n + 1
    <3>1. /\ i \in (n + 1)..(n + m - 1) /\ i - 1 \in (n + 1)..(n + m - 1)
          /\ i - n + 1 \in 2..m /\ (i - 1) - n + 1 = (i - n + 1) - 1
          /\ i \in 2..(Len(t) - 1) => i - n + 1 \in 2..(m - 1)
      BY <2>3, <1>1
    <3>2. t[i] = s[i - n + 1] /\ t[i - 1] = s[(i - n + 1) - 1]
      BY <3>1, <1>1
    <3> QED BY <3>1, <3>2, <1>3, <1>5
  <2> QED BY <2>1, <2>2, <2>3, <1>1
<1> QED BY <1>7, <1>8

\* Whoever steps, the other calls' stacks stand.
LEMMA OthersLaid ==
  ASSUME CInv, NEW c, \A x \in Calls \ {c} : stack'[x] = stack[x],
         dialects \subseteq dialects', c \in Calls => Laid(c)'
  PROVE  \A x \in Calls : Laid(x)'
<1> SUFFICES ASSUME NEW x \in Calls, x # c  PROVE Laid(x)'
  OBVIOUS
<1>1. Laid(x) /\ stack'[x] = stack[x]
  BY DEF CInv
<1>2. \A i \in 2..Len(stack[x]) : Sits(stack[x][i - 1], stack[x][i], dialects')
  BY <1>1, SitsOn DEF Laid
<1> QED BY <1>1, <1>2 DEF Laid, Demanded, Queued, Sits, Assembling

LEMMA StackedLaid ==
  ASSUME CInv, NEW c \in Calls, status[c] \notin Settled, NEW frames \in Seq(Frames),
         stack' = [stack EXCEPT ![c] = frames \o Tail(@)],
         dialects \subseteq dialects', TakeStand(c, frames)
  PROVE  \A x \in Calls : Laid(x)'
<1>1. Moves(c, frames)
  BY TopFrame DEF Moves, CInv, IInv
<1>2. Laid(c)'
  BY <1>1, LaidMoves DEF CInv
<1>3. \A x \in Calls \ {c} : stack'[x] = stack[x]
  BY <1>1, Moved
<1> QED BY <1>2, <1>3, OthersLaid

LEMMA UnmovedLaid ==
  ASSUME CInv, stack' = stack, dialects \subseteq dialects'
  PROVE  \A x \in Calls : Laid(x)'
<1> SUFFICES ASSUME NEW c \in Calls  PROVE Laid(c)'
  OBVIOUS
<1>1. Laid(c) /\ stack'[c] = stack[c]
  BY DEF CInv
<1>2. \A i \in 2..Len(stack[c]) : Sits(stack[c][i - 1], stack[c][i], dialects')
  BY <1>1, SitsOn DEF Laid
<1> QED BY <1>1, <1>2 DEF Laid, Demanded, Queued, Sits, Assembling

\* The top frame goes and nothing takes its place.
LEMMA LeftLaid ==
  ASSUME CInv, NEW c \in Calls, status[c] \notin Settled, Replace(c, << >>),
         dialects \subseteq dialects'
  PROVE  \A x \in Calls : Laid(x)'
<1>1. /\ << >> \in Seq(Frames)
      /\ stack' = [stack EXCEPT ![c] = << >> \o Tail(@)]
  BY DEF Replace
<1>2. TakeStand(c, << >>)
  BY DEF TakeStand
<1> QED BY <1>1, <1>2, StackedLaid

LEMMA TopLaid ==
  ASSUME CInv, NEW c \in Calls, status[c] \notin Settled
  PROVE  /\ Demanded(stack[c][1])
         /\ Len(stack[c]) > 1 =>
              /\ Sits(stack[c][1], stack[c][2], dialects)
              /\ stack[c][2] \in Frames /\ 2 \in DOMAIN stack[c]
<1>1. /\ stack[c] \in Seq(Frames) /\ Len(stack[c]) \in Nat /\ Len(stack[c]) > 0
  BY TopFrame DEF CInv
<1>2. 1 \in 1..Len(stack[c]) /\ (Len(stack[c]) > 1 => 2 \in 2..Len(stack[c]) /\ 2 - 1 = 1)
  BY <1>1
<1>3. Demanded(stack[c][1])
  BY <1>2 DEF CInv, Laid
<1>4. Len(stack[c]) > 1 => Sits(stack[c][2 - 1], stack[c][2], dialects)
  BY <1>2 DEF CInv, Laid
<1>5. Len(stack[c]) > 1 => 2 \in DOMAIN stack[c] /\ stack[c][2] \in Frames
  BY <1>1
<1> QED BY <1>2, <1>3, <1>4, <1>5

LEMMA OneStands ==
  ASSUME NEW c, NEW f \in Frames, Demanded(f),
         Len(stack[c]) > 1 => Sits(f, stack[c][2], dialects'),
         Queued(stack[c][1]) => Queued(f)
  PROVE  TakeStand(c, <<f>>) /\ <<f>> \in Seq(Frames)
<1>1. <<f>> \in Seq(Frames) /\ Len(<<f>>) = 1 /\ <<f>>[1] = f /\ <<f>> # << >>
  BY Pairs
<1>2. \A i \in 1..1 : i = 1
  OBVIOUS
<1> QED BY <1>1, <1>2 DEF TakeStand

LEMMA TwoStand ==
  ASSUME NEW c, NEW f \in Frames, NEW g \in Frames, Demanded(f), Demanded(g),
         Sits(f, g, dialects'), g.at = "drain" => Queued(f),
         Len(stack[c]) > 1 => Sits(g, stack[c][2], dialects'),
         Queued(stack[c][1]) => Queued(g)
  PROVE  TakeStand(c, <<f, g>>) /\ <<f, g>> \in Seq(Frames)
<1>1. /\ <<f, g>> \in Seq(Frames) /\ Len(<<f, g>>) = 2
      /\ <<f, g>>[1] = f /\ <<f, g>>[2] = g /\ <<f, g>> # << >>
  BY Pairs
<1>2. \A i \in 1..2 : i = 1 \/ i = 2
  OBVIOUS
<1> QED BY <1>1, <1>2 DEF TakeStand

LEMMA RegisterLaid ==
  ASSUME CInv, NEW c \in Calls, Register(c)
  PROVE  \A x \in Calls : Laid(x)'
<1> DEFINE d == stack[c][1].doc
           attempted == stack[c][1].attempted
<1>1. IInv /\ Running(c, "register")
  BY DEF Register, CInv
<1>2. /\ status[c] \notin Settled /\ stack[c][1].at = "register"
      /\ d \in Docs /\ attempted \in SUBSET URIs
  BY <1>1, RunningFacts, FrameFacts
<1>3. attempted \subseteq ToSet(Demands(d))
  BY <1>2, TopLaid DEF Demanded
<1>4. ASSUME NEW kind, NEW uri, Throw(c, kind, uri), UNCHANGED registry
      PROVE  \A x \in Calls : Laid(x)'
  <2>1. stack' = stack /\ dialects' = dialects
    BY <1>4 DEF Throw, registry
  <2> QED BY <2>1, UnmovedLaid
<1>5. ASSUME NEW e \in URIs, e \in ToSet(Demands(d)),
             EnsureDialect(c, d, e, attempted), UNCHANGED registry
      PROVE  \A x \in Calls : Laid(x)'
  <2>1. CASE e \in assembling
    BY <1>4, <1>5, <2>1 DEF EnsureDialect
  <2>2. CASE e \notin assembling
    <3> DEFINE f == IF Has(e) THEN [at |-> "assemble", uri |-> e, doc |-> documents[e]]
                    ELSE [at |-> "meta", uri |-> e]
               g == [at |-> "register", doc |-> d, attempted |-> attempted \union {e}]
    <3>1. /\ stack' = [stack EXCEPT ![c] = <<f, g>> \o Tail(@)]
          /\ dialects' = dialects
      BY <1>5, <2>2 DEF EnsureDialect, registry
    <3>2. documents[e] # None => documents[e] \in Docs
      BY <1>1 DEF IInv, TypeOK
    <3>3. f \in Frames /\ g \in Frames
      BY <1>2, <3>2, FrameKinds DEF Has
    <3>4. /\ g.at = "register" /\ g.doc = d /\ g.attempted = attempted \union {e}
          /\ f.at \in {"assemble", "meta"} /\ f.uri = e
      BY DEF Has
    <3> HIDE DEF f, g
    <3>5. Demanded(f) /\ Demanded(g)
      BY <1>3, <1>5, <3>4 DEF Demanded
    <3>6. Sits(f, g, dialects')
      BY <3>4 DEF Sits, Assembling
    <3>7. ASSUME Len(stack[c]) > 1  PROVE Sits(g, stack[c][2], dialects')
      <4>1. /\ Sits(stack[c][1], stack[c][2], dialects)
            /\ stack[c][2] \in Frames /\ 2 \in DOMAIN stack[c]
        BY <1>2, <3>7, TopLaid
      <4>2. CASE stack[c][2].at = "drain"
        BY <4>2, <3>4 DEF Sits
      <4>3. CASE stack[c][2].at # "drain"
        <5>1. /\ stack[c][2].at \in {"assemble", "settle"}
              /\ Served[stack[c][2].uri] = d /\ stack[c][2].uri \notin attempted
              /\ stack[c][2].at = "settle" => stack[c][2].uri \in dialects
              /\ stack[c][2].at = "assemble" => Dialect[d] # stack[c][2].uri
          BY <4>1, <4>3, <1>2 DEF Sits, Assembling
        <5>2. stack[c][2].uri \in URIs
          BY <4>1, <5>1, FrameFacts
        <5>3. Owner(c, 2, stack[c][2].uri)
          BY <4>1, <5>1 DEF Owner, Assembling
        <5>4. stack[c][2].uri \in assembling
          BY <1>1, <5>2, <5>3 DEF IInv, Owned
        <5>5. stack[c][2].uri # e
          BY <2>2, <5>4
        <5> QED BY <5>1, <5>5, <3>1, <3>4 DEF Sits
      <4> QED BY <4>2, <4>3
    <3>8. Queued(stack[c][1]) => Queued(g)
      BY <1>2, <3>4 DEF Queued
    <3>9. /\ TakeStand(c, <<f, g>>) /\ <<f, g>> \in Seq(Frames)
      <4>1. g.at = "drain" => Queued(f)
        BY <3>4
      <4> QED BY <3>3, <3>5, <3>6, <3>7, <3>8, <4>1, TwoStand
    <3> QED BY <1>2, <3>1, <3>9, StackedLaid
  <2> QED BY <2>1, <2>2
<1>6. ASSUME NEW i \in Unknown(d), UNCHANGED registry,
             \/ Throw(c, "unknown dialect", Demands(d)[i])
             \/ EnsureDialect(c, d, Demands(d)[i], attempted)
      PROVE  \A x \in Calls : Laid(x)'
  <2>1. Demands(d)[i] \in ToSet(Demands(d))
    BY DEF Unknown, ToSet
  <2> QED BY <1>2, <1>4, <1>5, <1>6, <2>1, DemandsAreURIs
<1>7. ASSUME Return(c), UNCHANGED dialects
      PROVE  \A x \in Calls : Laid(x)'
  BY <1>2, <1>7, LeftLaid DEF Return
<1>8. \/ \E i \in Unknown(d) :
           /\ UNCHANGED registry
           /\ \/ Throw(c, "unknown dialect", Demands(d)[i])
              \/ EnsureDialect(c, d, Demands(d)[i], attempted)
      \/ Throw(c, "refused", At[d]) /\ UNCHANGED registry
      \/ \E e \in Unresolvable(d) : Throw(c, "unresolvable", e) /\ UNCHANGED registry
      \/ Throw(c, "invalid", At[d]) /\ UNCHANGED registry
      \/ Return(c) /\ UNCHANGED dialects
  BY DEF Register
<1> QED BY <1>4, <1>6, <1>7, <1>8

LEMMA FetchLaid ==
  ASSUME CInv, NEW c \in Calls, FetchArrives(c)
  PROVE  \A x \in Calls : Laid(x)'
<1> DEFINE u == stack[c][1].uri
           g == [at |-> "register", doc |-> Served[u], attempted |-> {}]
<1>1. Running(c, "fetch") /\ dialects' = dialects /\ IInv
  BY DEF FetchArrives, registry, CInv
<1>2. status[c] \notin Settled /\ stack[c][1].at = "fetch" /\ u \in URIs
  BY <1>1, RunningFacts, FrameFacts
<1>3. CASE Provided(u) /\ Replace(c, <<g>>)
  <2>1. /\ g \in Frames /\ g.at = "register" /\ g.doc = Served[u] /\ g.attempted = {}
    BY <1>2, <1>3, ServedFacts
  <2>2. stack' = [stack EXCEPT ![c] = <<g>> \o Tail(@)]
    BY <1>3 DEF Replace
  <2> HIDE DEF g
  <2>3. Demanded(g)
    BY <2>1 DEF Demanded
  <2>4. Len(stack[c]) > 1 => Sits(g, stack[c][2], dialects')
    BY <1>2, <2>1, TopLaid DEF Sits, Assembling
  <2>5. Queued(stack[c][1]) => Queued(g)
    BY <1>2, <2>1 DEF Queued
  <2>6. TakeStand(c, <<g>>) /\ <<g>> \in Seq(Frames)
    BY <2>1, <2>3, <2>4, <2>5, OneStands
  <2> QED BY <1>1, <1>2, <2>2, <2>6, StackedLaid
<1>4. CASE Return(c)
  BY <1>1, <1>2, <1>4, LeftLaid DEF Return
<1>5. CASE stack' = stack
  BY <1>1, <1>5, UnmovedLaid
<1> QED BY <1>3, <1>4, <1>5 DEF FetchArrives, Throw

LEMMA MetaLaid ==
  ASSUME CInv, NEW c \in Calls, MetaArrives(c)
  PROVE  \A x \in Calls : Laid(x)'
<1> DEFINE e == stack[c][1].uri
           g == [at |-> "register", doc |-> Served[e], attempted |-> {}]
           settle == [at |-> "settle", uri |-> e]
           assemble == [at |-> "assemble", uri |-> e, doc |-> Served[e]]
<1>1. Running(c, "meta") /\ IInv
  BY DEF MetaArrives, CInv
<1>2. status[c] \notin Settled /\ stack[c][1].at = "meta" /\ e \in URIs
  BY <1>1, RunningFacts, FrameFacts
<1>3. ASSUME Provided(e), NEW f \in {settle, assemble}, Replace(c, <<g, f>>),
             dialects \subseteq dialects',
             f = settle => e \in dialects',
             f = assemble => Dialect[Served[e]] # e
      PROVE  \A x \in Calls : Laid(x)'
  <2>1. /\ g \in Frames /\ settle \in Frames /\ assemble \in Frames
        /\ g.at = "register" /\ g.doc = Served[e] /\ g.attempted = {}
    BY <1>2, <1>3, ServedFacts, FrameKinds
  <2>2. /\ settle.at = "settle" /\ settle.uri = e
        /\ assemble.at = "assemble" /\ assemble.uri = e
    OBVIOUS
  <2>3. stack' = [stack EXCEPT ![c] = <<g, f>> \o Tail(@)]
    BY <1>3 DEF Replace
  <2> HIDE DEF g, settle, assemble
  <2>4. f \in Frames /\ f.at \in {"settle", "assemble"} /\ f.uri = e
    BY <2>1, <2>2
  <2>5. Demanded(g) /\ Demanded(f)
    BY <2>1, <2>4 DEF Demanded
  <2>6. Sits(g, f, dialects')
    BY <1>3, <2>1, <2>2, <2>4 DEF Sits
  <2>7. Len(stack[c]) > 1 => Sits(f, stack[c][2], dialects')
    BY <1>2, <2>4, TopLaid DEF Sits, Assembling
  <2>8. Queued(stack[c][1]) => Queued(f)
    BY <1>2 DEF Queued
  <2>9. f.at = "drain" => Queued(g)
    BY <2>4
  <2>10. TakeStand(c, <<g, f>>) /\ <<g, f>> \in Seq(Frames)
    BY <2>1, <2>4, <2>5, <2>6, <2>7, <2>8, <2>9, TwoStand
  <2> QED BY <1>2, <1>3, <2>3, <2>10, StackedLaid
<1>4. CASE stack' = stack /\ dialects' = dialects
  BY <1>4, UnmovedLaid
<1>5. \/ /\ Provided(e) /\ Replace(c, <<g, settle>>) /\ dialects' = dialects \union {e}
      \/ /\ Provided(e) /\ Replace(c, <<g, assemble>>) /\ dialects' = dialects
         /\ Dialect[Served[e]] # e
      \/ stack' = stack /\ dialects' = dialects
  BY DEF MetaArrives, Throw, AssembleFirst
<1>6. settle # assemble
  OBVIOUS
<1> HIDE DEF g, settle, assemble
<1> QED BY <1>3, <1>4, <1>5, <1>6

LEMMA AssembleLaid ==
  ASSUME CInv, NEW c \in Calls, Assemble(c) \/ Settle(c)
  PROVE  \A x \in Calls : Laid(x)'
<1> DEFINE g == [at |-> "drain"]
<1>1. Running(c, "assemble") \/ Running(c, "settle")
  BY DEF Assemble, Settle
<1>2. status[c] \notin Settled /\ stack[c][1].at \in {"assemble", "settle"}
  BY <1>1, RunningFacts DEF CInv
<1>3. dialects \subseteq dialects'
  BY DEF Assemble, Settle, registry
<1>4. CASE DrainClosure(c)
  <2>1. stack' = [stack EXCEPT ![c] = <<g>> \o Tail(@)]
    BY <1>4 DEF DrainClosure, Replace
  <2>2. g \in Frames /\ g.at = "drain"
    BY FrameKinds
  <2> HIDE DEF g
  <2>3. Demanded(g) /\ ~Queued(stack[c][1])
    BY <1>2, <2>2 DEF Demanded, Queued
  <2>4. Len(stack[c]) > 1 => Sits(g, stack[c][2], dialects')
    BY <1>2, <2>2, TopLaid DEF Sits, Assembling
  <2>5. TakeStand(c, <<g>>) /\ <<g>> \in Seq(Frames)
    BY <2>2, <2>3, <2>4, OneStands
  <2> QED BY <1>2, <1>3, <2>1, <2>5, StackedLaid
<1>5. CASE stack' = stack
  BY <1>3, <1>5, UnmovedLaid
<1> QED BY <1>4, <1>5 DEF Assemble, Settle, Throw

LEMMA DrainLaid ==
  ASSUME CInv, NEW c \in Calls, Drain(c)
  PROVE  \A x \in Calls : Laid(x)'
<1> DEFINE top == stack[c][1]
<1>1. Running(c, "drain") /\ dialects' = dialects /\ IInv
  BY DEF Drain, CInv
<1>2. /\ status[c] \notin Settled /\ stack[c] \in Seq(Frames) /\ stack[c] # << >>
      /\ top \in Frames /\ top.at = "drain"
  BY <1>1, RunningFacts
<1>3. ASSUME NEW i \in DOMAIN pending,
             Push(c, <<[at |-> "fetch", uri |-> pending[i], must |-> FALSE]>>)
      PROVE  \A x \in Calls : Laid(x)'
  <2> DEFINE f == [at |-> "fetch", uri |-> pending[i], must |-> FALSE]
  <2>1. pending[i] \in URIs /\ pending[i] \in Referenced
    BY <1>1 DEF IInv, TypeOK, CInv, PendingIsReferenced, ToSet
  <2>2. f \in Frames /\ f.at = "fetch" /\ f.uri \in Referenced
    BY <2>1, FrameKinds
  <2>3. stack' = [stack EXCEPT ![c] = <<f>> \o @]
    BY <1>3 DEF Push
  <2> HIDE DEF f
  <2>4. <<f>> \o stack[c] = <<f, top>> \o Tail(stack[c])
    <3> HIDE DEF top
    <3>1. stack[c] = <<top>> \o Tail(stack[c])
      BY <1>2 DEF top
    <3>2. <<f>> \o (<<top>> \o Tail(stack[c])) = <<f, top>> \o Tail(stack[c])
      <4>1. Tail(stack[c]) \in Seq(Frames)
        BY <1>2
      <4> QED BY <4>1, <1>2, <2>2
    <3> QED BY <3>1, <3>2
  <2>5. stack' = [stack EXCEPT ![c] = <<f, top>> \o Tail(@)]
    BY <2>3, <2>4
  <2>6. Len(stack[c]) > 1 => Sits(top, stack[c][2], dialects')
    BY <1>1, <1>2, TopLaid
  <2>7. Demanded(f) /\ Demanded(top) /\ Queued(f)
    BY <1>2, <2>2 DEF Demanded, Queued
  <2> HIDE DEF top
  <2>8. Sits(f, top, dialects')
    BY <1>2, <2>2 DEF Sits
  <2>9. TakeStand(c, <<f, top>>) /\ <<f, top>> \in Seq(Frames)
    <3>1. Queued(stack[c][1]) => Queued(top)
      BY DEF top
    <3> QED BY <1>2, <2>2, <2>6, <2>7, <2>8, <3>1, TwoStand
  <2> QED BY <1>1, <1>2, <2>5, <2>9, StackedLaid
<1>4. CASE Return(c)
  BY <1>1, <1>2, <1>4, LeftLaid DEF Return
<1> QED BY <1>3, <1>4 DEF Drain

LEMMA UnwindLaid ==
  ASSUME CInv, NEW c \in Calls, Unwind(c)
  PROVE  \A x \in Calls : Laid(x)'
<1>1. status[c] = "throwing" /\ Replace(c, << >>) /\ dialects' = dialects
  BY DEF Unwind, registry
<1>2. status[c] \notin Settled
  BY <1>1 DEF Settled
<1> QED BY <1>1, <1>2, LeftLaid

\* A new call's stack stands, and is where its drain is at the bottom.
LEMMA StartLaid ==
  ASSUME CInv, NEW c \in Calls, NEW u, NEW frames \in Seq(Frames), Start(c, u, frames),
         Len(frames) <= 2,
         \A i \in 1..Len(frames) : Demanded(frames[i]),
         Len(frames) = 2 => Sits(frames[1], frames[2], dialects)
  PROVE  \A x \in Calls : Laid(x)'
<1>1. stack' = [stack EXCEPT ![c] = frames] /\ dialects' = dialects
  BY DEF Start, registry
<1>2. stack'[c] = frames /\ \A x \in Calls \ {c} : stack'[x] = stack[x]
  BY <1>1 DEF CInv, IInv, TypeOK
<1>3. Len(frames) \in Nat
  OBVIOUS
<1>4. \A i \in 2..Len(frames) : i = 2 /\ i - 1 = 1 /\ Len(frames) = 2
  <2>1. \A n \in Nat : n <= 2 => \A i \in 2..n : i = 2 /\ i - 1 = 1 /\ n = 2
    OBVIOUS
  <2> QED BY ONLY <2>1, <1>3, Len(frames) <= 2
<1>5. \A i \in 2..(Len(frames) - 1) : FALSE
  BY ONLY <1>3, Len(frames) <= 2
<1>6. \A i \in 2..Len(frames) : Sits(frames[i - 1], frames[i], dialects')
  BY <1>1, <1>4
<1>7. Laid(c)'
  BY <1>1, <1>2, <1>5, <1>6 DEF Laid, Demanded, Sits, Assembling
<1> QED BY <1>1, <1>2, <1>7, OthersLaid

LEMMA LoadSchemaLaid ==
  ASSUME CInv, NEW c \in Calls, NEW d \in Loadable, LoadSchema(c, d)
  PROVE  \A x \in Calls : Laid(x)'
<1> DEFINE f == [at |-> "register", doc |-> d, attempted |-> {}]
           g == [at |-> "drain"]
<1>1. d \in Docs /\ {} \in SUBSET URIs
  BY LoadingAssumption DEF LoadingAssumption
<1>2. f \in Frames /\ f.at = "register" /\ f.attempted = {} /\ g \in Frames /\ g.at = "drain"
  BY <1>1, FrameKinds
<1>3. Start(c, At[d], <<f, g>>)
  BY DEF LoadSchema
<1> HIDE DEF f, g
<1>4. Demanded(f) /\ Demanded(g) /\ Sits(f, g, dialects)
  BY <1>2 DEF Demanded, Sits
<1> DEFINE frames == <<f, g>>
<1>5. /\ frames \in Seq(Frames) /\ Len(frames) = 2 /\ frames[1] = f /\ frames[2] = g
  BY <1>2, Pairs
<1>6. Start(c, At[d], frames)
  BY <1>3
<1> HIDE DEF frames
<1>7. \A i \in 1..Len(frames) : Demanded(frames[i])
  <2>1. \A i \in 1..2 : i = 1 \/ i = 2
    OBVIOUS
  <2> QED BY <2>1, <1>4, <1>5
<1>8. Len(frames) <= 2 /\ (Len(frames) = 2 => Sits(frames[1], frames[2], dialects))
  BY <1>4, <1>5
<1> QED BY <1>5, <1>6, <1>7, <1>8, StartLaid

LEMMA LoadLaid ==
  ASSUME CInv, NEW c \in Calls, NEW u \in Fetchable, Load(c, u)
  PROVE  \A x \in Calls : Laid(x)'
<1> DEFINE f == [at |-> "fetch", uri |-> u, must |-> TRUE]
           g == [at |-> "drain"]
<1>1. u \in URIs
  BY LoadingAssumption DEF LoadingAssumption
<1>2. f \in Frames /\ f.at = "fetch" /\ g \in Frames /\ g.at = "drain"
  BY <1>1, FrameKinds
<1>3. Start(c, u, (IF Has(u) THEN << >> ELSE <<f>>) \o <<g>>)
  BY DEF Load
<1> HIDE DEF f, g
<1>4. Demanded(f) /\ Demanded(g) /\ Sits(f, g, dialects)
  BY <1>2 DEF Demanded, Sits
<1>5. CASE Has(u)
  <2> DEFINE frames == <<g>>
  <2>1. << >> \o <<g>> = frames
    BY <1>2
  <2>2. frames \in Seq(Frames) /\ Len(frames) = 1 /\ frames[1] = g
    BY <1>2, Pairs
  <2>3. Start(c, u, frames)
    BY <1>3, <1>5, <2>1
  <2> HIDE DEF frames
  <2>4. \A i \in 1..Len(frames) : Demanded(frames[i])
    <3>1. \A i \in 1..1 : i = 1
      OBVIOUS
    <3> QED BY <3>1, <1>4, <2>2
  <2>5. Len(frames) <= 2 /\ (Len(frames) = 2 => Sits(frames[1], frames[2], dialects))
    BY <1>4, <2>2
  <2> QED BY <2>2, <2>3, <2>4, <2>5, StartLaid
<1>6. CASE ~Has(u)
  <2> DEFINE frames == <<f, g>>
  <2>1. <<f>> \o <<g>> = frames
    BY <1>2, TwoFrames
  <2>2. frames \in Seq(Frames) /\ Len(frames) = 2 /\ frames[1] = f /\ frames[2] = g
    BY <1>2, Pairs
  <2>3. Start(c, u, frames)
    BY <1>3, <1>6, <2>1
  <2> HIDE DEF frames
  <2>4. \A i \in 1..Len(frames) : Demanded(frames[i])
    <3>1. \A i \in 1..2 : i = 1 \/ i = 2
      OBVIOUS
    <3> QED BY <3>1, <1>4, <2>2
  <2>5. Len(frames) <= 2 /\ (Len(frames) = 2 => Sits(frames[1], frames[2], dialects))
    BY <1>4, <2>2
  <2> QED BY <2>2, <2>3, <2>4, <2>5, StartLaid
<1> QED BY <1>5, <1>6

\* What is queued new is a reference of the document that queued it.
LEMMA QueueOnly ==
  ASSUME pending \in Seq(URIs), NEW uris \in Seq(URIs), Queue(uris)
  PROVE  ToSet(pending') \subseteq ToSet(pending) \union ToSet(uris)
<1>0. PICK k \in 0..Len(uris) : \E from \in [1..k -> DOMAIN uris] :
        pending' = pending \o [i \in 1..k |-> uris[from[i]]]
  BY DEF Queue
<1>1. PICK from \in [1..k -> DOMAIN uris] : pending' = pending \o [i \in 1..k |-> uris[from[i]]]
  BY <1>0
<1> DEFINE new == [i \in 1..k |-> uris[from[i]]]
<1>2. k \in Nat
  BY <1>0
<1>3. /\ new \in Seq(URIs) /\ Len(new) = k
      /\ \A i \in 1..k : new[i] = uris[from[i]]
  BY <1>1, <1>2
<1>4. pending' = pending \o new
  BY <1>1
<1> HIDE DEF new
<1>5. \A p, q \in Seq(URIs) : ToSet(p \o q) \subseteq ToSet(p) \union ToSet(q)
  <2> SUFFICES ASSUME NEW p \in Seq(URIs), NEW q \in Seq(URIs), NEW i \in DOMAIN (p \o q)
               PROVE  (p \o q)[i] \in ToSet(p) \union ToSet(q)
    BY DEF ToSet
  <2>1. /\ Len(p) \in Nat /\ Len(q) \in Nat /\ i \in 1..(Len(p) + Len(q))
        /\ DOMAIN p = 1..Len(p) /\ DOMAIN q = 1..Len(q)
    OBVIOUS
  <2>2. CASE i <= Len(p)
    <3>1. i \in DOMAIN p /\ (p \o q)[i] = p[i]
      BY <2>1, <2>2
    <3> QED BY <3>1 DEF ToSet
  <2>3. CASE i > Len(p)
    <3>1. i - Len(p) \in DOMAIN q /\ (p \o q)[i] = q[i - Len(p)]
      BY <2>1, <2>3
    <3> QED BY <3>1 DEF ToSet
  <2> QED BY <2>1, <2>2, <2>3
<1>6. ToSet(new) \subseteq ToSet(uris)
  <2> SUFFICES ASSUME NEW i \in DOMAIN new  PROVE new[i] \in ToSet(uris)
    BY DEF ToSet
  <2>1. i \in 1..k /\ from[i] \in DOMAIN uris
    BY <1>1, <1>2, <1>3
  <2> QED BY <2>1, <1>3 DEF ToSet
<1> QED BY <1>3, <1>4, <1>5, <1>6

LEMMA RestOnly ==
  ASSUME pending \in Seq(URIs), NEW i \in DOMAIN pending
  PROVE  ToSet(Rest(i)) \subseteq ToSet(pending)
<1>1. /\ i \in Nat /\ Len(pending) \in Nat /\ DOMAIN pending = 1..Len(pending)
      /\ i \in 1..Len(pending)
  OBVIOUS
<1>2. /\ DOMAIN Rest(i) = 1..(Len(pending) - i)
      /\ \A j \in 1..(Len(pending) - i) : Rest(i)[j] = pending[j + i]
  BY <1>1 DEF Rest
<1> SUFFICES ASSUME NEW j \in DOMAIN Rest(i)  PROVE Rest(i)[j] \in ToSet(pending)
  BY DEF ToSet
<1>3. Rest(i)[j] = pending[j + i] /\ j + i \in DOMAIN pending
  BY <1>1, <1>2
<1> QED BY <1>3 DEF ToSet

LEMMA CommitQueues ==
  ASSUME CInv, NEW d \in Docs, Commit(d)
  PROVE  PendingIsReferenced'
<1>1. Refs[d] \in Seq(URIs) /\ pending \in Seq(URIs)
  BY RefsAreURIs DEF CInv, IInv, TypeOK
<1>2. ToSet(pending') \subseteq ToSet(pending) \union ToSet(Refs[d])
  BY <1>1, QueueOnly DEF Commit
<1>3. ToSet(Refs[d]) \subseteq Referenced
  BY DEF Referenced
<1> QED BY <1>2, <1>3 DEF CInv, PendingIsReferenced

LEMMA PendingKept ==
  ASSUME CInv, [Next]_vars
  PROVE  PendingIsReferenced'
<1>1. PendingIsReferenced /\ pending \in Seq(URIs) /\ IInv
  BY DEF CInv, IInv, TypeOK
<1>2. CASE pending' = pending
  BY <1>1, <1>2 DEF PendingIsReferenced
<1>3. ASSUME NEW c \in Calls, Register(c)  PROVE PendingIsReferenced'
  <2>1. Running(c, "register")
    BY <1>3 DEF Register
  <2>2. stack[c][1].doc \in Docs
    BY <1>1, <2>1, RunningFacts, FrameFacts
  <2>3. pending' = pending \/ Commit(stack[c][1].doc)
    BY <1>3 DEF Register, registry
  <2> QED BY <1>2, <2>2, <2>3, CommitQueues
<1>4. ASSUME NEW c \in Calls, Drain(c)  PROVE PendingIsReferenced'
  <2>1. CASE pending' = << >>
    BY <2>1 DEF PendingIsReferenced, ToSet
  <2>2. ASSUME NEW i \in DOMAIN pending, pending' = Rest(i)  PROVE PendingIsReferenced'
    <3>1. ToSet(Rest(i)) \subseteq ToSet(pending)
      BY <1>1, RestOnly
    <3> QED BY <1>1, <2>2, <3>1 DEF PendingIsReferenced
  <2> QED BY <1>4, <2>1, <2>2 DEF Drain
<1>5. ASSUME NEW d \in Local, RegisterSchema(d)  PROVE PendingIsReferenced'
  <2>1. d \in Docs /\ Commit(d)
    BY <1>5, LoadingAssumption DEF RegisterSchema, LoadingAssumption
  <2> QED BY <2>1, CommitQueues
<1>6. ASSUME NEW c \in Calls,
             \/ FetchArrives(c) \/ MetaArrives(c) \/ Assemble(c) \/ Settle(c) \/ Unwind(c)
             \/ \E d \in Loadable : LoadSchema(c, d)
             \/ \E u \in Fetchable : Load(c, u)
      PROVE  pending' = pending
  BY <1>6 DEF FetchArrives, MetaArrives, Assemble, Settle, Unwind, LoadSchema, Load, Start, registry
<1>7. CASE UNCHANGED vars
  BY <1>2, <1>7 DEF vars, registry
<1> QED BY <1>2, <1>3, <1>4, <1>5, <1>6, <1>7 DEF Next, Step

LEMMA CInvInit == Init => CInv
<1> SUFFICES ASSUME Init  PROVE CInv
  OBVIOUS
<1>1. IInv
  BY InitInv
<1>2. PendingIsReferenced
  BY DEF Init, PendingIsReferenced, ToSet
<1>3. \A c \in Calls : Laid(c)
  <2>1. \A c \in Calls : stack[c] = << >>
    BY DEF Init
  <2>2. Len(<< >>) = 0 /\ 1..0 = {} /\ 2..0 = {} /\ 2..(0 - 1) = {}
    OBVIOUS
  <2> QED BY <2>1, <2>2 DEF Laid
<1> QED BY <1>1, <1>2, <1>3 DEF CInv

LEMMA CInvNext == CInv /\ [Next]_vars => CInv'
<1> SUFFICES ASSUME CInv, [Next]_vars  PROVE \A x \in Calls : Laid(x)'
  <2>1. CInv => IInv
    BY DEF CInv
  <2> QED BY <2>1, NextInv, PendingKept DEF CInv
<1>1. ASSUME NEW c \in Calls, Step(c)  PROVE \A x \in Calls : Laid(x)'
  BY <1>1, RegisterLaid, FetchLaid, MetaLaid, AssembleLaid, DrainLaid, UnwindLaid DEF Step
<1>2. ASSUME NEW c \in Calls, NEW d \in Loadable, LoadSchema(c, d)
      PROVE  \A x \in Calls : Laid(x)'
  BY <1>2, LoadSchemaLaid
<1>3. ASSUME NEW c \in Calls, NEW u \in Fetchable, Load(c, u)
      PROVE  \A x \in Calls : Laid(x)'
  BY <1>3, LoadLaid
<1>4. ASSUME (\E d \in Local : RegisterSchema(d)) \/ UNCHANGED vars
      PROVE  \A x \in Calls : Laid(x)'
  <2>1. stack' = stack /\ dialects' = dialects
    BY <1>4 DEF RegisterSchema, vars, registry
  <2> QED BY <2>1, UnmovedLaid
<1> QED BY <1>1, <1>2, <1>3, <1>4 DEF Next

LEMMA Standing == Spec => []CInv
  BY CInvInit, CInvNext, PTL DEF Spec

\* The metaschema of dialect e demands e itself at the most.
Flat(e) == Served[e] # None => ToSet(Demands(Served[e])) \subseteq {e}

\* What references lead to is written in such dialects, or in the default one.
PlainReferences ==
  \A u \in Referenced : Served[u] # None => \A e \in ToSet(Demands(Served[u])) : Flat(e)

\* A metaschema that demands its own dialect anywhere is written in it.
SelfDescribing ==
  \A e \in URIs :
    Served[e] # None /\ e \in ToSet(Demands(Served[e])) => Dialect[Served[e]] = e

\* What stands on an assembly is the registration of its metaschema.
LEMMA OnAssembly ==
  ASSUME IInv, NEW c \in Calls, Laid(c), NEW k \in DOMAIN stack[c], k > 1,
         Assembling(stack[c][k])
  PROVE  LET a == stack[c][k - 1]
             b == stack[c][k]
         IN /\ k - 1 \in DOMAIN stack[c] /\ a.at = "register" /\ a.doc \in Docs
            /\ b.uri \in URIs /\ Served[b.uri] = a.doc /\ Served[b.uri] # None
            /\ b.uri \notin a.attempted
            /\ b.uri \in dialects \/ Dialect[a.doc] # b.uri
<1>1. stack[c] \in Seq(Frames)
  BY DEF IInv, TypeOK
<1>2. /\ k \in 2..Len(stack[c]) /\ k - 1 \in DOMAIN stack[c]
      /\ stack[c][k] \in Frames /\ stack[c][k - 1] \in Frames
  BY <1>1
<1>3. Sits(stack[c][k - 1], stack[c][k], dialects)
  BY <1>2 DEF Laid
<1>4. stack[c][k].uri \in URIs
  BY <1>2, FrameFacts DEF Assembling
<1>5. /\ stack[c][k - 1].at = "register" /\ stack[c][k].at \in {"assemble", "settle"}
      /\ Served[stack[c][k].uri] = stack[c][k - 1].doc
      /\ stack[c][k].uri \notin stack[c][k - 1].attempted
      /\ stack[c][k].at = "settle" => stack[c][k].uri \in dialects
      /\ stack[c][k].at = "assemble" => Dialect[stack[c][k - 1].doc] # stack[c][k].uri
  BY <1>3 DEF Sits, Assembling
<1>6. stack[c][k - 1].doc \in Docs
  BY <1>2, <1>5, FrameFacts
<1>7. None \notin Docs
  BY LoadingAssumption DEF LoadingAssumption
<1> QED BY <1>2, <1>4, <1>5, <1>6, <1>7

\* What stands on a registration is the assembly of a dialect its document
\* demands, or the drain of what that assembly queued.
LEMMA OnRegister ==
  ASSUME IInv, NEW c \in Calls, Laid(c), NEW k \in DOMAIN stack[c], k > 1,
         stack[c][k].at = "register"
  PROVE  LET a == stack[c][k - 1]
             b == stack[c][k]
         IN /\ k - 1 \in DOMAIN stack[c]
            /\ b.attempted # {} /\ b.attempted \subseteq ToSet(Demands(b.doc))
            /\ \/ Assembling(a) /\ a.uri \in b.attempted
               \/ a.at = "drain"
<1>1. stack[c] \in Seq(Frames)
  BY DEF IInv, TypeOK
<1>2. k \in 2..Len(stack[c]) /\ k \in 1..Len(stack[c]) /\ k - 1 \in DOMAIN stack[c]
  BY <1>1
<1>3. Sits(stack[c][k - 1], stack[c][k], dialects)
  BY <1>2 DEF Laid
<1>4. Demanded(stack[c][k])
  BY <1>2 DEF Laid
<1>5. stack[c][k].attempted \subseteq ToSet(Demands(stack[c][k].doc))
  BY <1>4 DEF Demanded
<1>6. \/ Assembling(stack[c][k - 1]) /\ stack[c][k - 1].uri \in stack[c][k].attempted
      \/ stack[c][k - 1].at = "drain" /\ stack[c][k].attempted # {}
  BY <1>3 DEF Sits
<1> QED BY <1>2, <1>5, <1>6

\* A metaschema that demands its own dialect alone is registered at the top.
LEMMA FlatTop ==
  ASSUME IInv, NEW c \in Calls, Laid(c), stack[c][1].at = "register",
         NEW k \in DOMAIN stack[c], Assembling(stack[c][k]), Flat(stack[c][k].uri)
  PROVE  k = 2
<1>1. k \in Nat /\ k > 0 /\ k # 1
  BY DEF IInv, TypeOK, Assembling
<1> SUFFICES ASSUME k > 2  PROVE FALSE
  BY <1>1
<1>2. /\ k - 1 \in DOMAIN stack[c] /\ stack[c][k - 1].at = "register"
      /\ Served[stack[c][k].uri] = stack[c][k - 1].doc /\ Served[stack[c][k].uri] # None
      /\ stack[c][k].uri \notin stack[c][k - 1].attempted
  BY <1>1, OnAssembly
<1>3. k - 1 > 1
  BY <1>1
<1>4. /\ stack[c][k - 1].attempted # {}
      /\ stack[c][k - 1].attempted \subseteq ToSet(Demands(stack[c][k - 1].doc))
  BY <1>2, <1>3, OnRegister
<1>5. ToSet(Demands(stack[c][k - 1].doc)) \subseteq {stack[c][k].uri}
  BY <1>2 DEF Flat
<1> QED BY <1>2, <1>4, <1>5

\* A call that meets its own mark has found a cycle.  Down to the assembly it
\* meets, each metaschema is demanded by the one that is to register next.  A
\* drain in between would be loading a reference, and a plain one demands
\* nothing that is being assembled below.
LEMMA OwnCycle ==
  ASSUME IInv, NEW c \in Calls, Laid(c), stack[c][1].at = "register", stack[c] # << >>,
         NEW e \in URIs, e \in ToSet(Demands(stack[c][1].doc)), e \notin dialects,
         NEW j \in Nat, Owner(c, j, e), PlainReferences, SelfDescribing
  PROVE  Cyclic(e)
<1> DEFINE s == stack[c]
<1>1. s \in Seq(Frames) /\ 1 \in DOMAIN s /\ DOMAIN s = 1..Len(s) /\ Len(s) \in Nat
  BY DEF IInv, TypeOK
<1>2. j \in DOMAIN s /\ Assembling(s[j]) /\ s[j].uri = e
  BY DEF Owner
<1>3. j > 1
  BY <1>1, <1>2 DEF Assembling
<1>4. s[1].doc \in Docs
  BY <1>1, FrameFacts
<1>5. \A i, k \in DOMAIN s :
        Assembling(s[i]) /\ Assembling(s[k]) /\ s[i].uri = s[k].uri => i = k
  <2> SUFFICES ASSUME NEW i \in DOMAIN s, NEW k \in DOMAIN s, Assembling(s[i]),
                      Assembling(s[k]), s[i].uri = s[k].uri
               PROVE  i = k
    OBVIOUS
  <2>1. s[i].uri \in URIs
    BY <1>1, FrameFacts DEF Assembling
  <2>2. Owner(c, i, s[i].uri) /\ Owner(c, k, s[i].uri) /\ i \in Nat /\ k \in Nat
    BY <1>1 DEF Owner
  <2> QED BY <2>1, <2>2 DEF IInv, Owned
<1>6. CASE \A k \in 1..j : s[k].at # "drain"
  <2> DEFINE S == {s[k].uri : k \in {x \in 2..j : Assembling(s[x])}}
  <2>1. e \in S
    BY <1>2, <1>3
  <2>2. ASSUME NEW x \in S
        PROVE  x \in URIs /\ Served[x] # None /\ ToSet(Demands(Served[x])) \intersect (S \ {x}) # {}
    <3>1. PICK k \in 2..j : Assembling(s[k]) /\ x = s[k].uri
      OBVIOUS
    <3>2. k \in DOMAIN s /\ k > 1
      BY <1>1, <1>2
    <3>3. /\ k - 1 \in DOMAIN s /\ s[k - 1].at = "register"
          /\ x \in URIs /\ Served[x] = s[k - 1].doc /\ Served[x] # None
          /\ x \in dialects \/ Dialect[Served[x]] # x
      BY <3>1, <3>2, OnAssembly
    <3>4. CASE k = 2
      <4>1. e \in ToSet(Demands(Served[x]))
        BY <3>3, <3>4
      <4>2. x # e
        BY <3>3, <4>1 DEF SelfDescribing
      <4> QED BY <2>1, <3>3, <4>1, <4>2
    <3>5. CASE k > 2
      <4>1. k - 1 > 1 /\ (k - 1) - 1 = k - 2 /\ k - 2 \in 1..j
        BY <3>2, <3>5, <1>1
      <4>2. /\ k - 2 \in DOMAIN s /\ s[k - 1].attempted \subseteq ToSet(Demands(s[k - 1].doc))
            /\ \/ Assembling(s[k - 2]) /\ s[k - 2].uri \in s[k - 1].attempted
               \/ s[k - 2].at = "drain"
        BY <3>3, <4>1, OnRegister
      <4>3. Assembling(s[k - 2]) /\ s[k - 2].uri \in ToSet(Demands(Served[x]))
        BY <1>6, <3>3, <4>1, <4>2
      <4>4. k - 2 # 1
        BY <4>3 DEF Assembling
      <4>5. k - 2 \in 2..j /\ k - 2 # k
        BY <4>1, <4>4, <1>1
      <4>6. s[k - 2].uri \in S
        BY <4>3, <4>5
      <4>7. s[k - 2].uri # x
        BY <1>5, <3>1, <3>2, <4>2, <4>3, <4>5
      <4> QED BY <3>3, <4>3, <4>6, <4>7
    <3> QED BY <3>3, <3>4, <3>5
  <2> HIDE DEF S
  <2>3. S \in SUBSET URIs
    BY <2>2
  <2> QED BY <2>1, <2>2, <2>3 DEF Cyclic
<1>7. ASSUME NEW k0 \in 1..j, s[k0].at = "drain"
      PROVE  FALSE
  <2> DEFINE T == {k \in 1..j : s[k].at = "drain"}
  <2>1. T \subseteq Nat /\ T # {}
    BY <1>7
  <2>2. PICK i \in T : \A k \in T : i <= k
    <3> HIDE DEF T
    <3> QED BY <2>1, LeastNumber
  <2>3. /\ i \in 1..j /\ s[i].at = "drain" /\ \A k \in 1..j : k < i => s[k].at # "drain"
    BY <2>2
  <2>4. i # 1 /\ i # j
    BY <2>3, <1>2 DEF Assembling
  <2>5. i \in 2..(Len(s) - 1) /\ i < j /\ i \in 2..Len(s) /\ i - 1 \in DOMAIN s
    BY <2>3, <2>4, <1>1, <1>2
  <2>6. Queued(s[i - 1])
    BY <2>3, <2>5 DEF Laid
  <2>7. s[i - 1].at = "register"
    <3>1. CASE i = 2
      BY <3>1
    <3>2. CASE i > 2
      <4>1. i - 1 \in 2..Len(s)
        BY <2>5, <3>2
      <4>2. Sits(s[(i - 1) - 1], s[i - 1], dialects)
        BY <4>1 DEF Laid
      <4> QED BY <2>6, <4>2 DEF Sits, Queued
    <3> QED BY <2>5, <3>1, <3>2
  <2>8. \A f \in ToSet(Demands(s[i - 1].doc)) : Flat(f)
    <3>1. PICK u \in Referenced : Served[u] = s[i - 1].doc
      BY <2>6, <2>7 DEF Queued
    <3>2. s[i - 1].doc \in Docs
      BY <2>5, <2>7, <1>1, FrameFacts
    <3>3. Served[u] # None
      BY <3>1, <3>2, LoadingAssumption DEF LoadingAssumption
    <3> QED BY <3>1, <3>3 DEF PlainReferences
  <2>9. CASE i = 2
    <3>1. Flat(e)
      BY <2>8, <2>9
    <3>2. j = 2
      BY <1>2, <3>1, FlatTop
    <3> QED BY <2>5, <2>9, <3>2
  <2>10. CASE i > 2
    <3>1. i - 1 > 1 /\ (i - 1) - 1 = i - 2 /\ i - 2 \in 1..j /\ i - 2 < i
      BY <2>10, <2>5, <1>1
    <3>2. /\ i - 2 \in DOMAIN s /\ s[i - 1].attempted \subseteq ToSet(Demands(s[i - 1].doc))
          /\ \/ Assembling(s[i - 2]) /\ s[i - 2].uri \in s[i - 1].attempted
             \/ s[i - 2].at = "drain"
      BY <2>5, <2>7, <3>1, OnRegister
    <3>3. Assembling(s[i - 2]) /\ Flat(s[i - 2].uri)
      BY <2>3, <2>8, <3>1, <3>2
    <3>4. i - 2 = 2
      BY <3>2, <3>3, FlatTop
    <3>5. Assembling(s[2]) /\ Flat(s[2].uri) /\ 2 \in DOMAIN s /\ 2 > 1 /\ 2 - 1 = 1
      BY <3>2, <3>3, <3>4
    <3>6. Served[s[2].uri] = s[1].doc /\ Served[s[2].uri] # None
      BY <3>5, OnAssembly
    <3>7. e = s[2].uri
      BY <3>5, <3>6 DEF Flat
    <3>8. j = 2
      BY <1>2, <1>5, <3>5, <3>7
    <3> QED BY <2>5, <3>8, <2>10
  <2> QED BY <2>5, <2>9, <2>10
<1> QED BY <1>6, <1>7

\* Only a registration that meets a mark reports a cycle.
LEMMA CycleReports ==
  ASSUME CInv, [Next]_vars, NEW c \in Calls, error'[c] # error[c],
         error'[c] # None, error'[c].kind = "metaschema cycle"
  PROVE  \E e \in URIs :
           /\ error'[c].uri = e /\ e \in assembling /\ e \notin dialects
           /\ stack[c] # << >> /\ stack[c][1].at = "register"
           /\ e \in ToSet(Demands(stack[c][1].doc))
<1>1. IInv /\ error \in [Calls -> [kind : Kinds, uri : URIs] \union {None}]
  BY DEF CInv, IInv, TypeOK
<1>2. ASSUME NEW x \in Calls, NEW kind, NEW uri, Throw(x, kind, uri)
      PROVE  x = c /\ kind = "metaschema cycle" /\ error'[c].uri = uri
  <2>1. error' = [error EXCEPT ![x] = [kind |-> kind, uri |-> uri]]
    BY <1>2 DEF Throw
  <2>2. x = c
    BY <1>1, <2>1
  <2>3. error'[c] = [kind |-> kind, uri |-> uri]
    BY <1>1, <2>1, <2>2
  <2>4. error'[c].kind = kind /\ error'[c].uri = uri
    <3>1. [kind |-> kind, uri |-> uri].kind = kind /\ [kind |-> kind, uri |-> uri].uri = uri
      OBVIOUS
    <3> QED BY ONLY <3>1, <2>3
  <2>5. kind = "metaschema cycle"
    BY <2>4
  <2> QED BY <2>2, <2>4, <2>5
<1>3. ASSUME NEW x \in Calls, NEW kind, NEW uri, Throw(x, kind, uri),
             kind \in Kinds \ {"metaschema cycle"}
      PROVE  FALSE
  BY <1>2, <1>3
<1>4. ASSUME NEW x \in Calls, Register(x)
      PROVE  \E e \in URIs :
               /\ error'[c].uri = e /\ e \in assembling /\ e \notin dialects
               /\ stack[c] # << >> /\ stack[c][1].at = "register"
               /\ e \in ToSet(Demands(stack[c][1].doc))
  <2> DEFINE d == stack[x][1].doc
             attempted == stack[x][1].attempted
  <2>1. Running(x, "register")
    BY <1>4 DEF Register
  <2>2. /\ stack[x] # << >> /\ stack[x][1].at = "register" /\ d \in Docs
    <3>1. stack[x] # << >> /\ stack[x][1] \in Frames /\ stack[x][1].at = "register"
      BY <1>1, <2>1, RunningFacts
    <3> QED BY <3>1, FrameFacts
  <2>3. \/ \E i \in Unknown(d) :
             \/ Throw(x, "unknown dialect", Demands(d)[i])
             \/ EnsureDialect(x, d, Demands(d)[i], attempted)
        \/ \E kind \in Kinds \ {"metaschema cycle"} : \E uri : Throw(x, kind, uri)
        \/ error' = error
    <3>1. {"refused", "unresolvable", "invalid"} \subseteq Kinds \ {"metaschema cycle"}
      BY DEF Kinds
    <3>2. \/ \E i \in Unknown(d) :
               \/ Throw(x, "unknown dialect", Demands(d)[i])
               \/ EnsureDialect(x, d, Demands(d)[i], attempted)
          \/ Throw(x, "refused", At[d])
          \/ \E e \in Unresolvable(d) : Throw(x, "unresolvable", e)
          \/ Throw(x, "invalid", At[d])
          \/ error' = error
      BY <1>4 DEF Register, Return
    <3> QED BY <3>1, <3>2
  <2>4. "unknown dialect" \in Kinds \ {"metaschema cycle"}
    BY DEF Kinds
  <2>5. PICK i \in Unknown(d) : EnsureDialect(x, d, Demands(d)[i], attempted)
    BY <1>3, <2>3, <2>4
  <2>6. /\ Demands(d)[i] \in assembling
        /\ Throw(x, "metaschema cycle", Demands(d)[i])
    BY <2>5 DEF EnsureDialect
  <2>7. x = c /\ error'[c].uri = Demands(d)[i]
    BY <1>2, <2>6
  <2>8. /\ Demands(d)[i] \in URIs /\ Demands(d)[i] \notin dialects
        /\ Demands(d)[i] \in ToSet(Demands(d))
    BY <2>2, DemandsAreURIs DEF Unknown, ToSet
  <2> QED BY <2>2, <2>6, <2>7, <2>8
<1>5. ASSUME NEW x \in Calls,
             FetchArrives(x) \/ MetaArrives(x) \/ Assemble(x) \/ Settle(x) \/ Drain(x) \/ Unwind(x)
      PROVE  FALSE
  <2>1. {"no loader", "loader", "unknown vocabulary", "unknown dialect"}
          \subseteq Kinds \ {"metaschema cycle"}
    BY DEF Kinds
  <2>2. \/ error' = error
        \/ \E kind \in {"no loader", "loader", "unknown vocabulary", "unknown dialect"} :
             \E uri : Throw(x, kind, uri)
    BY <1>5 DEF FetchArrives, MetaArrives, Assemble, Settle, Drain, Unwind, DrainClosure, Return
  <2> QED BY <1>3, <2>1, <2>2
<1>6. ASSUME NEW x \in Calls, NEW u, NEW frames, Start(x, u, frames)
      PROVE  FALSE
  <2>1. error' = [error EXCEPT ![x] = None]
    BY <1>6 DEF Start
  <2> QED BY <1>1, <2>1
<1>7. CASE (\E d \in Local : RegisterSchema(d)) \/ UNCHANGED vars
  BY <1>7 DEF RegisterSchema, vars
<1> QED BY <1>4, <1>5, <1>6, <1>7 DEF Next, Step, LoadSchema, Load

\* A cycle that a call reports of a mark of its own is real, however many
\* calls there are: ensureDialectUri's check of `assembling` is wrong only
\* about marks that belong to another call.
OwnCyclesAreReal ==
  [][\A c \in Calls :
       /\ error'[c] # error[c] /\ error'[c] # None
       /\ error'[c].kind = "metaschema cycle"
       /\ \E j \in Nat : Owner(c, j, error'[c].uri)
       => Cyclic(error'[c].uri)]_vars

LEMMA OwnReport ==
  ASSUME PlainReferences, SelfDescribing, CInv, [Next]_vars, NEW c \in Calls,
         error'[c] # error[c], error'[c] # None, error'[c].kind = "metaschema cycle",
         \E j \in Nat : Owner(c, j, error'[c].uri)
  PROVE  Cyclic(error'[c].uri)
<1>1. PICK e \in URIs :
        /\ error'[c].uri = e /\ e \in assembling /\ e \notin dialects
        /\ stack[c] # << >> /\ stack[c][1].at = "register"
        /\ e \in ToSet(Demands(stack[c][1].doc))
  BY CycleReports
<1>2. PICK j \in Nat : Owner(c, j, e)
  BY <1>1
<1>3. IInv /\ Laid(c)
  BY DEF CInv
<1>4. Cyclic(e)
  BY <1>1, <1>2, <1>3, OwnCycle
<1> QED BY <1>1, <1>4

\* Where references lead to plain documents, and metaschemas that demand their
\* own dialect are written in it, a call reports "Metaschema cycle" of a
\* dialect it is assembling itself only if metaschemas do declare each other.
\* Without the first hypothesis the report can be of a cycle that runs through
\* a reference; without the second, of a metaschema that embeds itself.
THEOREM OwnCyclesReported ==
  PlainReferences /\ SelfDescribing => (Spec => OwnCyclesAreReal)
<1> SUFFICES ASSUME PlainReferences, SelfDescribing  PROVE Spec => OwnCyclesAreReal
  OBVIOUS
<1>1. CInv /\ [Next]_vars =>
        [\A c \in Calls :
           /\ error'[c] # error[c] /\ error'[c] # None
           /\ error'[c].kind = "metaschema cycle"
           /\ \E j \in Nat : Owner(c, j, error'[c].uri)
           => Cyclic(error'[c].uri)]_vars
  BY OwnReport
<1> QED BY <1>1, Standing, PTL DEF Spec, OwnCyclesAreReal

LEMMA CycleKept ==
  ASSUME PlainReferences, SelfDescribing, NEW only, Calls = {only},
         CInv, CycleIsReal, [Next]_vars
  PROVE  CycleIsReal'
<1> SUFFICES ASSUME NEW c \in Calls, error'[c] # None, error'[c].kind = "metaschema cycle"
             PROVE  Cyclic(error'[c].uri)
  BY DEF CycleIsReal, Cyclic
<1>1. CASE error'[c] = error[c]
  BY <1>1 DEF CycleIsReal
<1>2. CASE error'[c] # error[c]
  <2>1. PICK e \in URIs : error'[c].uri = e /\ e \in assembling
    BY <1>2, CycleReports
  <2>2. \E x \in Calls : \E j \in Nat : Owner(x, j, e)
    BY <2>1 DEF CInv, IInv, Owned
  <2>3. \E j \in Nat : Owner(c, j, error'[c].uri)
    BY <2>1, <2>2
  <2> QED BY <1>2, <2>3, OwnReport
<1> QED BY <1>1, <1>2

\* With one call at a time, under the same two hypotheses, every "Metaschema
\* cycle" the call is rejected with is real: in particular no mark of an
\* assembly that failed or ended is left to be met.
THEOREM CyclesAloneAreReal ==
  (\E only : Calls = {only}) /\ PlainReferences /\ SelfDescribing =>
    (Spec => []CycleIsReal)
<1> SUFFICES ASSUME PlainReferences, SelfDescribing, NEW only, Calls = {only}
             PROVE  Spec => []CycleIsReal
  OBVIOUS
<1>1. Init => CycleIsReal
  BY DEF Init, CycleIsReal
<1>2. CInv /\ CycleIsReal /\ [Next]_vars => CycleIsReal'
  BY CycleKept
<1> QED BY <1>1, <1>2, Standing, PTL DEF Spec
=============================================================================
