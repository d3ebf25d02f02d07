----------------------------- MODULE HunkProofs -----------------------------
(***************************************************************************)
(* The walk of _apply_hunks over a file gives what the hunks mean, for     *)
(* files and lists of hunks of any length.  The walk and the meaning are   *)
(* recursive functions over 0..N; the first lemmas say that such functions *)
(* exist and are what their equations say, from a counterexample at the    *)
(* least number.                                                           *)
(***************************************************************************)
EXTENDS Patches, SequenceTheorems, WellFoundedInduction, TLAPS

-----------------------------------------------------------------------------
(* Induction and recursion over 0..N *)

(* A set with zero and with the successor of each of its members below N     *)
(* contains all numbers up to N.                                             *)
LEMMA UpTo ==
  ASSUME NEW N \in Nat, NEW T, 0 \in T, \A n \in 0..N : n < N /\ n \in T => n + 1 \in T
  PROVE  \A n \in 0..N : n \in T
<1> DEFINE Missing == {n \in 0..N : n \notin T}
           Less == {ss \in Nat \X Nat : ss[1] < ss[2]}
<1>1. SUFFICES ASSUME Missing # {}
               PROVE  FALSE
  OBVIOUS
<1>2. Missing \subseteq Nat
  OBVIOUS
<1>3. PICK n \in Missing : \A m \in Missing : ~(<<m, n>> \in Less)
  <2>1. IsWellFoundedOn(Less, Nat)
    BY NatLessThanWellFounded DEF OpToRel
  <2> HIDE DEF Missing, Less
  <2> QED
    BY <1>1, <1>2, <2>1, WFMin
<1>4. n \in 1..N /\ n - 1 \in 0..N /\ n - 1 < N
  OBVIOUS
<1>5. n - 1 \in T
  <2>1. <<n - 1, n>> \in Less
    BY <1>4
  <2> QED
    BY <1>3, <1>4, <2>1
<1>6. (n - 1) + 1 \in T
  BY <1>4, <1>5
<1> QED
  BY <1>4, <1>6

(* A function on 0..N given by its first value and by the next after each.   *)
Follows(f, N, init, step) ==
  f[0] = init /\ \A n \in 1..N : f[n] = step[<<n, f[n - 1]>>]

(* There is one.                                                             *)
LEMMA Recursion ==
  ASSUME NEW N \in Nat, NEW S, NEW init \in S, NEW step \in [(1..N) \X S -> S]
  PROVE  \E f \in [0..N -> S] : Follows(f, N, init, step)
<1> DEFINE T == {n \in 0..N : \E f \in [0..n -> S] : Follows(f, n, init, step)}
<1>1. 0 \in T
  <2> DEFINE f == [n \in 0..0 |-> init]
  <2>1. f \in [0..0 -> S] /\ Follows(f, 0, init, step)
    BY DEF Follows
  <2> QED
    BY <2>1
<1>2. ASSUME NEW n \in 0..N, n < N, n \in T
      PROVE  n + 1 \in T
  <2>1. PICK f \in [0..n -> S] : Follows(f, n, init, step)
    BY <1>2
  <2> DEFINE next == step[<<n + 1, f[n]>>]
             g == [m \in 0..n + 1 |-> IF m = n + 1 THEN next ELSE f[m]]
  <2>2. f[n] \in S /\ n + 1 \in 1..N
    BY <1>2
  <2>3. next \in S
    BY <2>2
  <2> HIDE DEF next
  <2>4. g \in [0..n + 1 -> S]
    BY <2>3
  <2>5. g[n + 1] = next /\ \A m \in 0..n : g[m] = f[m]
    OBVIOUS
  <2>6. g[0] = init
    BY <2>1, <2>5 DEF Follows
  <2>7. ASSUME NEW m \in 1..n + 1
        PROVE  g[m] = step[<<m, g[m - 1]>>]
    <3>1. CASE m = n + 1
      BY <2>5, <3>1 DEF next
    <3>2. CASE m # n + 1
      <4>1. m \in 1..n /\ m - 1 \in 0..n /\ m \in 0..n
        BY <3>2
      <4> QED
        BY <2>1, <2>5, <4>1 DEF Follows
    <3> QED
      BY <3>1, <3>2
  <2> HIDE DEF g
  <2> QED
    BY <1>2, <2>2, <2>4, <2>6, <2>7 DEF Follows
<1> HIDE DEF T
<1>3. N \in T
  BY <1>1, <1>2, UpTo
<1> QED
  BY <1>3 DEF T

(* What one step of it keeps, all of it keeps.                               *)
LEMMA Kept ==
  ASSUME NEW N \in Nat, NEW S, NEW f, f[0] \in S,
         \A n \in 1..N : f[n - 1] \in S => f[n] \in S
  PROVE  \A n \in 0..N : f[n] \in S
<1> DEFINE T == {n \in 0..N : f[n] \in S}
<1>1. 0 \in T
  OBVIOUS
<1>2. ASSUME NEW n \in 0..N, n < N, n \in T
      PROVE  n + 1 \in T
  <2>1. n + 1 \in 1..N /\ (n + 1) - 1 = n
    BY <1>2
  <2> QED
    BY <1>2, <2>1
<1> HIDE DEF T
<1>3. \A n \in 0..N : n \in T
  BY <1>1, <1>2, UpTo
<1> QED
  BY <1>3 DEF T

-----------------------------------------------------------------------------
(* The sides of a hunk *)

SideFollows(h, marks, kept) ==
  /\ kept[0] = <<>>
  /\ \A n \in 1..Len(h.body) :
       kept[n] = IF h.body[n].mark \in marks THEN Append(kept[n - 1], h.body[n].text)
                                             ELSE kept[n - 1]

(* A side is what its prefixes lead to.                                      *)
LEMMA SideUnfolds ==
  ASSUME NEW h \in Hunk, NEW marks
  PROVE  \E kept \in [0..Len(h.body) -> Seq(Line)] :
           SideFollows(h, marks, kept) /\ Side(h, marks) = kept[Len(h.body)]
<1> DEFINE N == Len(h.body)
           Add(n, s) == IF h.body[n].mark \in marks THEN Append(s, h.body[n].text) ELSE s
           Equation(f) == f = [n \in 0..N |-> IF n = 0 THEN <<>> ELSE Add(n, f[n - 1])]
           kept == CHOOSE f : Equation(f)
<1>0. Side(h, marks) = kept[N]
  BY DEF Side
<1>1. h.body \in Seq([mark : STRING, text : Line])
  BY DEF Hunk
<1>2. N \in Nat /\ \A n \in 1..N : h.body[n].text \in Line
  <2>1. \A n \in 1..N : h.body[n] \in [mark : STRING, text : Line]
    BY <1>1, ElementOfSeq
  <2> QED
    BY <1>1, <2>1, LenProperties
<1>3. \A n \in 1..N : \A s \in Seq(Line) : Add(n, s) \in Seq(Line)
  BY <1>2
<1> HIDE DEF N, Add
<1>4. \E f : Equation(f)
  <2> DEFINE step == [x \in (1..N) \X Seq(Line) |-> Add(x[1], x[2])]
  <2>1. step \in [(1..N) \X Seq(Line) -> Seq(Line)]
    BY <1>3
  <2>2. \A n \in 1..N : \A s \in Seq(Line) : step[<<n, s>>] = Add(n, s)
    OBVIOUS
  <2>3. <<>> \in Seq(Line)
    OBVIOUS
  <2> HIDE DEF step
  <2>4. PICK f \in [0..N -> Seq(Line)] : Follows(f, N, <<>>, step)
    BY <1>2, <2>1, <2>3, Recursion
  <2>5. f[0] = <<>> /\ \A n \in 1..N : f[n] = Add(n, f[n - 1])
    <3>1. ASSUME NEW n \in 1..N
          PROVE  n - 1 \in 0..N
      BY <1>2
    <3> QED
      BY <2>2, <2>4, <3>1 DEF Follows
  <2>6. f = [n \in 0..N |-> IF n = 0 THEN <<>> ELSE Add(n, f[n - 1])]
    <3>1. \A n \in 0..N : n # 0 => n \in 1..N
      BY <1>2
    <3> QED
      BY <2>4, <2>5, <3>1
  <2> QED
    BY <2>6
<1>5. Equation(kept)
  BY <1>4
<1> HIDE DEF kept
<1>6. kept[0] = <<>> /\ \A n \in 1..N : kept[n] = Add(n, kept[n - 1])
  BY <1>2, <1>5
<1>7. \A n \in 0..N : kept[n] \in Seq(Line)
  <2>1. <<>> \in Seq(Line)
    OBVIOUS
  <2> QED
    BY <1>2, <1>3, <1>6, <2>1, Kept
<1>8. kept \in [0..N -> Seq(Line)]
  BY <1>5, <1>7
<1> QED
  BY <1>0, <1>6, <1>8 DEF SideFollows, N, Add

(* The sides of a hunk are lines.                                            *)
LEMMA SideTyped ==
  ASSUME NEW h \in Hunk
  PROVE  Old(h) \in Seq(Line) /\ New(h) \in Seq(Line)
<1>1. ASSUME NEW marks
      PROVE  Side(h, marks) \in Seq(Line)
  <2>1. PICK kept \in [0..Len(h.body) -> Seq(Line)] : Side(h, marks) = kept[Len(h.body)]
    BY SideUnfolds
  <2>2. Len(h.body) \in Nat
    BY LenProperties DEF Hunk
  <2> QED
    BY <2>1, <2>2
<1> QED
  BY <1>1 DEF Old, New

-----------------------------------------------------------------------------
(* One line *)

Marked == [mark : STRING, text : Line]
State == [out : Seq(Line), cursor : Nat, ok : BOOLEAN]

(* A line leaves a state of the walk.                                        *)
LEMMA LineTyped ==
  ASSUME NEW original \in Seq(Line), NEW s \in State, NEW l \in Marked
  PROVE  ApplyLine(original, s, l) \in State
<1>1. /\ s.out \in Seq(Line) /\ s.cursor \in Nat /\ l.text \in Line
      /\ s = [out |-> s.out, cursor |-> s.cursor, ok |-> s.ok]
  BY DEF State, Marked
<1>2. Append(s.out, l.text) \in Seq(Line) /\ s.cursor + 1 \in Nat
  BY <1>1
<1> QED
  BY <1>1, <1>2 DEF ApplyLine, State

(* The walk of a hunk that begins behind line target with the output out:    *)
(* as long as the old lines so far are found there, the output has grown by  *)
(* the new lines so far and the cursor stands behind the old ones.           *)
Stands(original, target, out, old, new, readable, s) ==
  IF /\ readable
     /\ target + Len(old) <= Len(original)
     /\ \A i \in 1..Len(old) : original[target + i] = old[i]
  THEN s.ok /\ s.out = out \o new /\ s.cursor = target + Len(old)
  ELSE ~s.ok

With(side, marks, l) == IF l.mark \in marks THEN Append(side, l.text) ELSE side

(* Adding a line to the new side adds it to the output.                      *)
LEMMA Appended ==
  ASSUME NEW out \in Seq(Line), NEW new \in Seq(Line), NEW x \in Line
  PROVE  Append(out \o new, x) = out \o Append(new, x)
<1>1. out \o new \in Seq(Line) /\ <<x>> \in Seq(Line)
  BY ConcatProperties
<1>2. Append(out \o new, x) = (out \o new) \o <<x>>
  BY <1>1, AppendIsConcat
<1>3. Append(new, x) = new \o <<x>>
  BY AppendIsConcat
<1> QED
  BY <1>1, <1>2, <1>3, ConcatAssociative

(* One more line of the hunk keeps that.                                     *)
LEMMA LineStands ==
  ASSUME NEW original \in Seq(Line), NEW target \in Nat,
         NEW out \in Seq(Line), NEW old \in Seq(Line), NEW new \in Seq(Line),
         NEW readable \in BOOLEAN, NEW s \in State, NEW l \in Marked,
         Stands(original, target, out, old, new, readable, s)
  PROVE  Stands(original, target, out, With(old, {" ", "-"}, l), With(new, {" ", "+"}, l),
                readable /\ l.mark \in Mark, ApplyLine(original, s, l))
<1> DEFINE t == ApplyLine(original, s, l)
           Found(o) == /\ target + Len(o) <= Len(original)
                       /\ \A i \in 1..Len(o) : original[target + i] = o[i]
           longer == Append(old, l.text)
<1>0. /\ l.text \in Line /\ Len(old) \in Nat /\ Len(original) \in Nat
      /\ s = [out |-> s.out, cursor |-> s.cursor, ok |-> s.ok]
  BY LenProperties DEF Marked, State
<1>1. /\ longer \in Seq(Line) /\ Len(longer) = Len(old) + 1
      /\ \A i \in 1..Len(old) : longer[i] = old[i]
      /\ longer[Len(old) + 1] = l.text
  BY <1>0, AppendProperties
<1>2. Found(longer) <=> /\ Found(old) /\ target + Len(old) < Len(original)
                        /\ original[target + Len(old) + 1] = l.text
  <2> HIDE DEF longer
  <2>1. Found(longer) => /\ Found(old) /\ target + Len(old) < Len(original)
                         /\ original[target + Len(old) + 1] = l.text
    BY <1>0, <1>1
  <2>2. ASSUME Found(old), target + Len(old) < Len(original),
               original[target + Len(old) + 1] = l.text, NEW i \in 1..Len(longer)
        PROVE  original[target + i] = longer[i]
    <3>1. CASE i = Len(old) + 1
      <4>1. target + i = target + Len(old) + 1
        BY <1>0, <3>1
      <4> QED
        BY <1>1, <2>2, <3>1, <4>1
    <3>2. CASE i # Len(old) + 1
      <4>1. i \in 1..Len(old)
        BY <1>0, <1>1, <3>2
      <4> QED
        BY <1>1, <2>2, <4>1
    <3> QED
      BY <3>1, <3>2
  <2>3. target + Len(old) < Len(original) => target + Len(longer) <= Len(original)
    BY <1>0, <1>1
  <2> QED
    BY <2>1, <2>2, <2>3
<1> HIDE DEF longer, Found
<1>3. IF readable /\ Found(old)
      THEN s.ok /\ s.out = out \o new /\ s.cursor = target + Len(old)
      ELSE ~s.ok
  BY DEF Stands, Found
<1>4. CASE ~s.ok
  <2>1. ~t.ok
    BY <1>4 DEF ApplyLine
  <2>2. ~(readable /\ Found(With(old, {" ", "-"}, l)))
    BY <1>2, <1>3, <1>4 DEF With, longer
  <2> QED
    BY <2>1, <2>2 DEF Stands, Found
<1>5. CASE s.ok /\ l.mark \in {" ", "-"}
  <2>1. /\ With(old, {" ", "-"}, l) = longer /\ l.mark \in Mark
        /\ With(new, {" ", "+"}, l) = IF l.mark = " " THEN Append(new, l.text) ELSE new
    BY <1>5 DEF With, longer, Mark
  <2>2. readable /\ Found(old) /\ s.out = out \o new /\ s.cursor = target + Len(old)
    BY <1>3, <1>5
  <2>3. CASE s.cursor < Len(original) /\ original[s.cursor + 1] = l.text
    <3>1. t = [s EXCEPT !.out = IF l.mark = " " THEN Append(@, l.text) ELSE @, !.cursor = @ + 1]
      BY <1>5, <2>3 DEF ApplyLine
    <3>2. t.ok /\ t.cursor = s.cursor + 1
          /\ t.out = IF l.mark = " " THEN Append(s.out, l.text) ELSE s.out
      BY <1>0, <1>5, <3>1
    <3>3. t.out = out \o With(new, {" ", "+"}, l)
      <4>1. Append(out \o new, l.text) = out \o Append(new, l.text)
        BY <1>0, Appended
      <4>2. CASE l.mark = " "
        <5>1. t.out = Append(out \o new, l.text)
          BY <2>2, <3>2, <4>2
        <5>2. With(new, {" ", "+"}, l) = Append(new, l.text)
          BY <2>1, <4>2
        <5> QED
          BY <4>1, <5>1, <5>2
      <4>3. CASE l.mark # " "
        <5>1. t.out = out \o new
          BY <2>2, <3>2, <4>3
        <5>2. With(new, {" ", "+"}, l) = new
          BY <2>1, <4>3
        <5> QED
          BY <5>1, <5>2
      <4> QED
        BY <4>2, <4>3
    <3>4. Found(longer) /\ t.cursor = target + Len(longer)
      <4>1. Found(longer)
        BY <1>2, <2>2, <2>3
      <4>2. Len(longer) = Len(old) + 1 /\ t.cursor = (target + Len(old)) + 1
        BY <1>1, <2>2, <3>2
      <4>3. (target + Len(old)) + 1 = target + (Len(old) + 1)
        BY <1>0
      <4> QED
        BY <4>1, <4>2, <4>3
    <3> QED
      BY <2>1, <2>2, <3>2, <3>3, <3>4 DEF Stands, Found
  <2>4. CASE ~(s.cursor < Len(original) /\ original[s.cursor + 1] = l.text)
    <3>1. t = [s EXCEPT !.ok = FALSE]
      BY <1>5, <2>4 DEF ApplyLine
    <3>2. ~t.ok
      BY <1>0, <3>1
    <3>3. ~Found(longer)
      BY <1>2, <2>2, <2>4
    <3> QED
      BY <2>1, <3>2, <3>3 DEF Stands, Found
  <2> QED
    BY <2>3, <2>4
<1>6. CASE s.ok /\ l.mark = "+"
  <2>1. /\ With(old, {" ", "-"}, l) = old /\ l.mark \in Mark
        /\ With(new, {" ", "+"}, l) = Append(new, l.text)
    BY <1>6 DEF With, Mark
  <2>2. readable /\ Found(old) /\ s.out = out \o new /\ s.cursor = target + Len(old)
    BY <1>3, <1>6
  <2>3. t = [s EXCEPT !.out = Append(@, l.text)]
    BY <1>6 DEF ApplyLine
  <2>4. t.ok /\ t.cursor = s.cursor /\ t.out = Append(s.out, l.text)
    BY <1>0, <1>6, <2>3
  <2>5. t.out = out \o Append(new, l.text)
    <3>1. Append(out \o new, l.text) = out \o Append(new, l.text)
      BY <1>0, Appended
    <3> QED
      BY <2>2, <2>4, <3>1
  <2> QED
    BY <2>1, <2>2, <2>4, <2>5 DEF Stands, Found
<1>7. CASE s.ok /\ l.mark = "\\"
  <2>1. /\ With(old, {" ", "-"}, l) = old /\ With(new, {" ", "+"}, l) = new
        /\ l.mark \in Mark /\ t = s
    BY <1>7 DEF With, Mark, ApplyLine
  <2> QED
    BY <1>3, <2>1 DEF Stands, Found
<1>8. CASE s.ok /\ l.mark \notin Mark
  <2>1. t = [s EXCEPT !.ok = FALSE]
    BY <1>8 DEF ApplyLine, Mark
  <2>2. ~t.ok
    BY <1>0, <2>1
  <2> QED
    BY <1>8, <2>2 DEF Stands
<1> QED
  BY <1>4, <1>5, <1>6, <1>7, <1>8 DEF Mark

-----------------------------------------------------------------------------
(* One hunk *)

TargetOf(h) == IF h.start < 1 THEN 0 ELSE h.start - 1
BegunAt(original, s, h) ==
  [s EXCEPT !.out = @ \o SubSeq(original, s.cursor + 1, TargetOf(h)), !.cursor = TargetOf(h)]
Refuses(original, s, h) == ~s.ok \/ TargetOf(h) < s.cursor \/ TargetOf(h) > Len(original)

(* Part of a file is a sequence of lines.                                    *)
LEMMA PartTyped ==
  ASSUME NEW original \in Seq(Line), NEW m \in Nat, NEW n \in Nat, 1 <= m, n <= Len(original)
  PROVE  /\ SubSeq(original, m, n) \in Seq(Line)
         /\ Len(SubSeq(original, m, n)) = IF m <= n THEN n - m + 1 ELSE 0
         /\ \A i \in 1..n - m + 1 : SubSeq(original, m, n)[i] = original[m + i - 1]
<1>1. \A i \in m..n : original[i] \in Line
  <2>1. \A i \in m..n : i \in 1..Len(original)
    BY LenProperties
  <2> QED
    BY <2>1, ElementOfSeq
<1> QED
  BY <1>1, SubSeqProperties

(* The walk of a hunk that is not refused at once: the part up to its start  *)
(* is copied, then come its lines.                                           *)
LEMMA HunkUnfolds ==
  ASSUME NEW original \in Seq(Line), NEW s \in State, NEW h \in Hunk, ~Refuses(original, s, h)
  PROVE  /\ BegunAt(original, s, h) \in State
         /\ \E after \in [0..Len(h.body) -> State] :
              /\ after[0] = BegunAt(original, s, h)
              /\ \A n \in 1..Len(h.body) :
                   after[n] = ApplyLine(original, after[n - 1], h.body[n])
              /\ ApplyHunk(original, s, h) = after[Len(h.body)]
<1> DEFINE N == Len(h.body)
           begun == [s EXCEPT !.out = @ \o SubSeq(original, s.cursor + 1, TargetOf(h)),
                              !.cursor = TargetOf(h)]
           Equation(f) ==
             f = [n \in 0..N |-> IF n = 0 THEN begun ELSE ApplyLine(original, f[n - 1], h.body[n])]
           after == CHOOSE f : Equation(f)
<1>0. ApplyHunk(original, s, h) = after[N]
  BY DEF ApplyHunk, Refuses, TargetOf
<1>1. N \in Nat /\ \A n \in 1..N : h.body[n] \in Marked
  <2>1. h.body \in Seq(Marked)
    BY DEF Hunk, Marked
  <2> QED
    BY <2>1, ElementOfSeq, LenProperties
<1>2. TargetOf(h) \in Nat
  BY DEF TargetOf, Hunk
<1>3. begun \in State
  <2>1. s.cursor \in Nat /\ s.out \in Seq(Line) /\ TargetOf(h) <= Len(original)
        /\ Len(original) \in Nat
    BY <1>2, LenProperties DEF State, Refuses
  <2>2. SubSeq(original, s.cursor + 1, TargetOf(h)) \in Seq(Line)
    BY <1>2, <2>1, PartTyped
  <2>3. s.out \o SubSeq(original, s.cursor + 1, TargetOf(h)) \in Seq(Line)
    BY <2>1, <2>2, ConcatProperties
  <2> QED
    BY <1>2, <2>3 DEF State
<1> HIDE DEF N, begun
<1>4. \A n \in 1..N : \A x \in State : ApplyLine(original, x, h.body[n]) \in State
  BY <1>1, LineTyped
<1>5. \E f : Equation(f)
  <2> DEFINE step == [x \in (1..N) \X State |-> ApplyLine(original, x[2], h.body[x[1]])]
  <2>1. step \in [(1..N) \X State -> State]
    BY <1>4
  <2>2. \A n \in 1..N : \A x \in State : step[<<n, x>>] = ApplyLine(original, x, h.body[n])
    OBVIOUS
  <2> HIDE DEF step
  <2>3. PICK f \in [0..N -> State] : Follows(f, N, begun, step)
    BY <1>1, <1>3, <2>1, Recursion
  <2>4. f[0] = begun /\ \A n \in 1..N : f[n] = ApplyLine(original, f[n - 1], h.body[n])
    <3>1. ASSUME NEW n \in 1..N
          PROVE  n - 1 \in 0..N
      BY <1>1
    <3> QED
      BY <2>2, <2>3, <3>1 DEF Follows
  <2>5. f = [n \in 0..N |-> IF n = 0 THEN begun ELSE ApplyLine(original, f[n - 1], h.body[n])]
    <3>1. \A n \in 0..N : n # 0 => n \in 1..N
      BY <1>1
    <3> QED
      BY <2>3, <2>4, <3>1
  <2> QED
    BY <2>5
<1>6. Equation(after)
  BY <1>5
<1> HIDE DEF after
<1>7. after[0] = begun /\ \A n \in 1..N : after[n] = ApplyLine(original, after[n - 1], h.body[n])
  BY <1>1, <1>6
<1>8. \A n \in 0..N : after[n] \in State
  BY <1>1, <1>3, <1>4, <1>7, Kept
<1>9. after \in [0..N -> State]
  BY <1>6, <1>8
<1> QED
  BY <1>0, <1>3, <1>7, <1>9 DEF N, begun, BegunAt

(* A hunk that begins before the cursor or past the end, or one after a      *)
(* refused one, is refused.                                                  *)
LEMMA HunkRefused ==
  ASSUME NEW original, NEW s \in State, NEW h, Refuses(original, s, h)
  PROVE  ApplyHunk(original, s, h) \in State /\ ~ApplyHunk(original, s, h).ok
<1>1. ApplyHunk(original, s, h) = [s EXCEPT !.ok = FALSE]
  BY DEF ApplyHunk, Refuses, TargetOf
<1> QED
  BY <1>1 DEF State

(* The first n lines of a hunk have marks a diff knows.                      *)
Readable(h, n) == \A m \in 1..n : h.body[m].mark \in Mark

(* The walk of a hunk, for its old and new side.                             *)
LEMMA HunkStands ==
  ASSUME NEW original \in Seq(Line), NEW s \in State, NEW h \in Hunk, ~Refuses(original, s, h)
  PROVE  /\ ApplyHunk(original, s, h) \in State
         /\ Old(h) \in Seq(Line) /\ New(h) \in Seq(Line)
         /\ Stands(original, TargetOf(h), BegunAt(original, s, h).out, Old(h), New(h),
                   Readable(h, Len(h.body)), ApplyHunk(original, s, h))
<1> DEFINE N == Len(h.body)
           begun == BegunAt(original, s, h)
           target == TargetOf(h)
<1>1. PICK after \in [0..N -> State] :
        /\ after[0] = begun
        /\ \A n \in 1..N : after[n] = ApplyLine(original, after[n - 1], h.body[n])
        /\ ApplyHunk(original, s, h) = after[N]
  BY HunkUnfolds
<1>2. PICK old \in [0..N -> Seq(Line)] :
        SideFollows(h, {" ", "-"}, old) /\ Side(h, {" ", "-"}) = old[N]
  BY SideUnfolds
<1>3. PICK new \in [0..N -> Seq(Line)] :
        SideFollows(h, {" ", "+"}, new) /\ Side(h, {" ", "+"}) = new[N]
  BY SideUnfolds
<1>4. N \in Nat /\ \A n \in 1..N : h.body[n] \in Marked
  <2>1. h.body \in Seq(Marked)
    BY DEF Hunk, Marked
  <2> QED
    BY <2>1, ElementOfSeq, LenProperties
<1>5. /\ begun \in State /\ begun.ok /\ begun.out \in Seq(Line) /\ begun.cursor = target
      /\ target \in Nat /\ target <= Len(original)
  <2>1. begun \in State
    BY HunkUnfolds
  <2>2. target \in Nat /\ target <= Len(original)
    BY LenProperties DEF TargetOf, Hunk, Refuses
  <2>3. begun.ok /\ begun.cursor = target
    <3>1. s.ok /\ s = [out |-> s.out, cursor |-> s.cursor, ok |-> s.ok]
      BY DEF State, Refuses
    <3> QED
      BY <3>1 DEF BegunAt
  <2> HIDE DEF begun
  <2>4. begun.out \in Seq(Line)
    BY <2>1 DEF State
  <2> QED
    BY <2>1, <2>2, <2>3, <2>4
<1> DEFINE Walks(n) == Stands(original, target, begun.out, old[n], new[n], Readable(h, n), after[n])
           T == {n \in 0..N : Walks(n)}
<1>6. 0 \in T
  <2>1. old[0] = <<>> /\ new[0] = <<>> /\ Readable(h, 0)
    <3>1. Readable(h, 0)
      BY DEF Readable
    <3>2. old[0] = <<>>
      BY <1>2 DEF SideFollows
    <3>3. new[0] = <<>>
      BY <1>3 DEF SideFollows
    <3> QED
      BY <3>1, <3>2, <3>3
  <2>2. begun.out \o <<>> = begun.out /\ Len(<<>>) = 0 /\ target + 0 = target
    BY <1>5, ConcatEmptySeq
  <2>3. Walks(0)
    BY <1>1, <1>5, <2>1, <2>2 DEF Stands
  <2> QED
    BY <1>4, <2>3
<1>7. ASSUME NEW n \in 0..N, n < N, n \in T
      PROVE  n + 1 \in T
  <2> DEFINE l == h.body[n + 1]
  <2>1. n + 1 \in 1..N /\ n + 1 \in 0..N /\ (n + 1) - 1 = n /\ l \in Marked
    BY <1>4, <1>7
  <2>2. /\ old[n + 1] = With(old[n], {" ", "-"}, l) /\ new[n + 1] = With(new[n], {" ", "+"}, l)
        /\ after[n + 1] = ApplyLine(original, after[n], l)
    BY <1>1, <1>2, <1>3, <2>1 DEF SideFollows, With
  <2>3. Readable(h, n + 1) <=> Readable(h, n) /\ l.mark \in Mark
    <3>1. \A m \in 1..n + 1 : m \in 1..n \/ m = n + 1
      BY <1>4
    <3>2. \A m \in 1..n : m \in 1..n + 1
      BY <1>4
    <3> QED
      BY <2>1, <3>1, <3>2 DEF Readable
  <2>4. /\ old[n] \in Seq(Line) /\ new[n] \in Seq(Line) /\ after[n] \in State
    BY <1>1, <1>2, <1>3, <1>7
  <2>5. Readable(h, n) \in BOOLEAN /\ Walks(n)
    BY <1>7 DEF Readable
  <2> HIDE DEF l
  <2>6. Stands(original, target, begun.out, With(old[n], {" ", "-"}, l), With(new[n], {" ", "+"}, l),
               Readable(h, n) /\ l.mark \in Mark, ApplyLine(original, after[n], l))
    BY <1>5, <2>1, <2>4, <2>5, LineStands
  <2>7. Walks(n + 1)
    BY <2>2, <2>3, <2>6 DEF Stands
  <2> QED
    BY <2>1, <2>7
<1>8. N \in T
  <2> HIDE DEF T, N
  <2> QED
    BY <1>4, <1>6, <1>7, UpTo
<1>9. Walks(N)
  BY <1>8 DEF T
<1>10. Old(h) = old[N] /\ New(h) = new[N] /\ N \in 0..N
  <2>1. Old(h) = old[N]
    BY <1>2 DEF Old
  <2>2. New(h) = new[N]
    BY <1>3 DEF New
  <2> QED
    BY <1>4, <2>1, <2>2
<1> QED
  BY <1>1, <1>2, <1>3, <1>9, <1>10

(* The header of an anchored hunk names the line its walk begins at.         *)
LEMMA TargetFirst ==
  ASSUME NEW h \in Hunk, Anchored(h)
  PROVE  TargetOf(h) = First(h) - 1 /\ First(h) \in Nat /\ First(h) >= 1
<1>1. h.start \in Int
  BY DEF Hunk
<1>2. CASE Old(h) = <<>>
  <2>1. h.start = 0 /\ First(h) = h.start + 1
    BY <1>2 DEF Anchored, First
  <2> QED
    BY <2>1 DEF TargetOf
<1>3. CASE Old(h) # <<>>
  <2>1. h.start >= 1 /\ First(h) = h.start
    BY <1>3 DEF Anchored, First
  <2> QED
    BY <1>1, <2>1 DEF TargetOf
<1> QED
  BY <1>2, <1>3

(* The lines of a file behind first - 1 are those of a side exactly if that  *)
(* part of the file is the side.                                             *)
LEMMA PartIsSide ==
  ASSUME NEW original \in Seq(Line), NEW old \in Seq(Line), NEW first \in Nat, first >= 1,
         first + Len(old) <= Len(original) + 1
  PROVE  SubSeq(original, first, first + Len(old) - 1) = old
           <=> \A i \in 1..Len(old) : original[(first - 1) + i] = old[i]
<1> DEFINE last == first + Len(old) - 1
           part == SubSeq(original, first, last)
<1>1. Len(old) \in Nat /\ Len(original) \in Nat /\ last \in Nat /\ last <= Len(original)
      /\ last - first + 1 = Len(old)
  BY LenProperties
<1>2. /\ part \in Seq(Line)
      /\ Len(part) = IF first <= last THEN last - first + 1 ELSE 0
      /\ \A i \in 1..last - first + 1 : part[i] = original[first + i - 1]
  <2> HIDE DEF last
  <2> QED
    BY <1>1, PartTyped
<1>3. Len(part) = Len(old)
  <2> HIDE DEF part
  <2> QED
    BY <1>1, <1>2
<1>4. \A i \in 1..Len(old) : part[i] = original[(first - 1) + i]
  <2>1. ASSUME NEW i \in 1..Len(old)
        PROVE  first + i - 1 = (first - 1) + i
    BY <1>1
  <2> QED
    BY <1>1, <1>2, <2>1
<1> HIDE DEF part
<1>5. (\A i \in 1..Len(old) : original[(first - 1) + i] = old[i]) => part = old
  BY <1>2, <1>3, <1>4, SeqEqual
<1>6. part = old => \A i \in 1..Len(old) : original[(first - 1) + i] = old[i]
  BY <1>4
<1> QED
  BY <1>5, <1>6 DEF part

(* One hunk does to the state what it says: it is taken exactly if its old   *)
(* side is where its header says, at the cursor or later.                    *)
LEMMA HunkMeans ==
  ASSUME NEW original \in Seq(Line), NEW s \in State, s.ok, NEW h \in Hunk, Anchored(h)
  PROVE  LET t == ApplyHunk(original, s, h)
         IN /\ t \in State
            /\ IF Applies(original, s.cursor + 1, h)
               THEN /\ t.ok /\ t.cursor + 1 = Cut(h)
                    /\ t.out = s.out \o SubSeq(original, s.cursor + 1, First(h) - 1) \o New(h)
               ELSE ~t.ok
<1> DEFINE t == ApplyHunk(original, s, h)
<1>1. TargetOf(h) = First(h) - 1 /\ First(h) \in Nat /\ First(h) >= 1
  BY TargetFirst
<1>2. s.cursor \in Nat /\ Len(original) \in Nat
  BY LenProperties DEF State
<1>3. Old(h) \in Seq(Line)
  BY SideTyped
<1>4. Len(Old(h)) \in Nat /\ Cut(h) = First(h) + Len(Old(h))
  BY <1>3, LenProperties DEF Cut
<1>5. CASE Refuses(original, s, h)
  <2>1. ~Applies(original, s.cursor + 1, h)
    BY <1>1, <1>2, <1>4, <1>5 DEF Refuses, Applies
  <2> QED
    BY <1>5, <2>1, HunkRefused
<1>6. CASE ~Refuses(original, s, h)
  <2> DEFINE begun == BegunAt(original, s, h)
  <2>1. /\ t \in State
        /\ Stands(original, TargetOf(h), begun.out, Old(h), New(h), Readable(h, Len(h.body)), t)
    BY <1>6, HunkStands
  <2>2. s.cursor + 1 <= First(h)
    BY <1>1, <1>2, <1>6 DEF Refuses
  <2>3. begun.out = s.out \o SubSeq(original, s.cursor + 1, First(h) - 1)
    <3>1. s = [out |-> s.out, cursor |-> s.cursor, ok |-> s.ok]
      BY DEF State
    <3> QED
      BY <1>1, <3>1 DEF BegunAt
  <2>4. TargetOf(h) + Len(Old(h)) <= Len(original) <=> Cut(h) <= Len(original) + 1
    BY <1>1, <1>2, <1>4
  <2>5. Cut(h) <= Len(original) + 1 =>
          (SubSeq(original, First(h), Cut(h) - 1) = Old(h)
             <=> \A i \in 1..Len(Old(h)) : original[TargetOf(h) + i] = Old(h)[i])
    <3>1. ASSUME Cut(h) <= Len(original) + 1
          PROVE  SubSeq(original, First(h), First(h) + Len(Old(h)) - 1) = Old(h)
                   <=> \A i \in 1..Len(Old(h)) : original[(First(h) - 1) + i] = Old(h)[i]
      <4>1. First(h) + Len(Old(h)) <= Len(original) + 1
        BY <1>4, <3>1
      <4> QED
        BY <1>1, <1>3, <4>1, PartIsSide
    <3>2. TargetOf(h) = First(h) - 1 /\ Cut(h) - 1 = First(h) + Len(Old(h)) - 1
      BY <1>1, <1>4
    <3> QED
      BY <3>1, <3>2
  <2> HIDE DEF t, begun
  <2>6. Applies(original, s.cursor + 1, h)
          <=> /\ Readable(h, Len(h.body))
              /\ TargetOf(h) + Len(Old(h)) <= Len(original)
              /\ \A i \in 1..Len(Old(h)) : original[TargetOf(h) + i] = Old(h)[i]
    BY <2>2, <2>4, <2>5 DEF Applies, Readable
  <2>7. CASE Applies(original, s.cursor + 1, h)
    <3>1. t.ok /\ t.out = begun.out \o New(h) /\ t.cursor = TargetOf(h) + Len(Old(h))
      BY <2>1, <2>6, <2>7 DEF Stands
    <3>2. t.cursor + 1 = Cut(h)
      BY <1>1, <1>4, <3>1
    <3> QED
      BY <2>1, <2>3, <2>7, <3>1, <3>2 DEF t
  <2>8. CASE ~Applies(original, s.cursor + 1, h)
    <3>1. ~t.ok
      BY <2>1, <2>6, <2>8 DEF Stands
    <3> QED
      BY <2>1, <2>8, <3>1 DEF t
  <2> QED
    BY <2>7, <2>8
<1> QED
  BY <1>5, <1>6

-----------------------------------------------------------------------------
(* All hunks of a file *)

AtTop == [out |-> <<>>, cursor |-> 0, ok |-> TRUE]

(* The walk over the hunks, then the rest of the file.                       *)
LEMMA HunksUnfold ==
  ASSUME NEW original \in Seq(Line), NEW hunks \in Seq(Hunk)
  PROVE  \E after \in [0..Len(hunks) -> State] :
           /\ after[0] = AtTop
           /\ \A k \in 1..Len(hunks) : after[k] = ApplyHunk(original, after[k - 1], hunks[k])
           /\ ApplyHunks(original, hunks) =
                IF after[Len(hunks)].ok
                THEN after[Len(hunks)].out
                       \o SubSeq(original, after[Len(hunks)].cursor + 1, Len(original))
                ELSE NoFit
<1> DEFINE N == Len(hunks)
           Equation(f) ==
             f = [n \in 0..N |-> IF n = 0 THEN AtTop ELSE ApplyHunk(original, f[n - 1], hunks[n])]
           after == CHOOSE f : Equation(f)
<1>0. ApplyHunks(original, hunks) =
        IF after[N].ok THEN after[N].out \o SubSeq(original, after[N].cursor + 1, Len(original))
                       ELSE NoFit
  BY DEF ApplyHunks, AtTop
<1>1. N \in Nat /\ \A n \in 1..N : hunks[n] \in Hunk
  BY ElementOfSeq, LenProperties
<1>2. AtTop \in State
  BY DEF AtTop, State
<1> HIDE DEF N
<1>3. ASSUME NEW n \in 1..N, NEW x \in State
      PROVE  ApplyHunk(original, x, hunks[n]) \in State
  BY <1>1, HunkStands, HunkRefused
<1>4. \E f : Equation(f)
  <2> DEFINE step == [x \in (1..N) \X State |-> ApplyHunk(original, x[2], hunks[x[1]])]
  <2>1. step \in [(1..N) \X State -> State]
    BY <1>3
  <2>2. \A n \in 1..N : \A x \in State : step[<<n, x>>] = ApplyHunk(original, x, hunks[n])
    OBVIOUS
  <2> HIDE DEF step
  <2>3. PICK f \in [0..N -> State] : Follows(f, N, AtTop, step)
    BY <1>1, <1>2, <2>1, Recursion
  <2>4. f[0] = AtTop /\ \A n \in 1..N : f[n] = ApplyHunk(original, f[n - 1], hunks[n])
    <3>1. ASSUME NEW n \in 1..N
          PROVE  n - 1 \in 0..N
      BY <1>1
    <3> QED
      BY <2>2, <2>3, <3>1 DEF Follows
  <2>5. f = [n \in 0..N |-> IF n = 0 THEN AtTop ELSE ApplyHunk(original, f[n - 1], hunks[n])]
    <3>1. \A n \in 0..N : n # 0 => n \in 1..N
      BY <1>1
    <3> QED
      BY <2>3, <2>4, <3>1
  <2> QED
    BY <2>5
<1>5. Equation(after)
  BY <1>4
<1> HIDE DEF after
<1>6. after[0] = AtTop /\ \A n \in 1..N : after[n] = ApplyHunk(original, after[n - 1], hunks[n])
  BY <1>1, <1>5
<1>7. \A n \in 0..N : after[n] \in State
  BY <1>1, <1>2, <1>3, <1>6, Kept
<1>8. after \in [0..N -> State]
  BY <1>5, <1>7
<1> QED
  BY <1>0, <1>6, <1>8 DEF N

(* As long as the hunks apply, the cursor stands behind the last of them.    *)
AppliesUpTo(original, hunks, n) ==
  \A k \in 1..n : Applies(original, Behind(hunks, k - 1), hunks[k])
Advanced(hunks, n, s, applied) == IF applied THEN s.ok /\ s.cursor + 1 = Behind(hunks, n) ELSE ~s.ok

(* After the first hunk that does not apply the walk is lost.                *)
LEMMA HunksAdvance ==
  ASSUME NEW original \in Seq(Line), NEW hunks \in Seq(Hunk),
         \A k \in 1..Len(hunks) : Anchored(hunks[k]),
         NEW after \in [0..Len(hunks) -> State], after[0] = AtTop,
         \A k \in 1..Len(hunks) : after[k] = ApplyHunk(original, after[k - 1], hunks[k])
  PROVE  \A n \in 0..Len(hunks) :
           Advanced(hunks, n, after[n], AppliesUpTo(original, hunks, n))
<1> DEFINE N == Len(hunks)
           applied(n) == AppliesUpTo(original, hunks, n)
           T == {n \in 0..N : Advanced(hunks, n, after[n], applied(n))}
<1>1. N \in Nat /\ \A n \in 1..N : hunks[n] \in Hunk
  BY ElementOfSeq, LenProperties
<1>2. 0 \in T
  <2>1. applied(0) /\ Behind(hunks, 0) = 1
    BY DEF AppliesUpTo, Behind
  <2>2. after[0].ok /\ after[0].cursor + 1 = 1
    BY DEF AtTop
  <2> QED
    BY <1>1, <2>1, <2>2 DEF Advanced
<1>3. ASSUME NEW n \in 0..N, n < N, n \in T
      PROVE  n + 1 \in T
  <2> DEFINE h == hunks[n + 1]
  <2>1. n + 1 \in 1..N /\ n + 1 \in 0..N /\ (n + 1) - 1 = n /\ h \in Hunk /\ Anchored(h)
    BY <1>1, <1>3
  <2>2. after[n + 1] = ApplyHunk(original, after[n], h) /\ after[n] \in State
    BY <1>3, <2>1
  <2>3. applied(n + 1) <=> applied(n) /\ Applies(original, Behind(hunks, n), h)
    <3>1. \A k \in 1..n + 1 : k \in 1..n \/ k = n + 1
      BY <1>1
    <3>2. \A k \in 1..n : k \in 1..n + 1
      BY <1>1
    <3> QED
      BY <2>1, <3>1, <3>2 DEF AppliesUpTo
  <2>4. Behind(hunks, n + 1) = Cut(h)
    BY <2>1 DEF Behind
  <2> HIDE DEF h
  <2>5. CASE applied(n)
    <3>1. after[n].ok /\ after[n].cursor + 1 = Behind(hunks, n)
      BY <1>3, <2>5 DEF Advanced
    <3> QED
      BY <2>1, <2>2, <2>3, <2>4, <2>5, <3>1, HunkMeans DEF Advanced
  <2>6. CASE ~applied(n)
    <3>1. ~after[n].ok
      BY <1>3, <2>6 DEF Advanced
    <3>2. ~after[n + 1].ok
      BY <2>2, <3>1, HunkRefused DEF Refuses
    <3> QED
      BY <2>1, <2>3, <2>6, <3>2 DEF Advanced
  <2> QED
    BY <2>5, <2>6
<1>4. \A n \in 0..N : n \in T
  <2> HIDE DEF T, N
  <2> QED
    BY <1>1, <1>2, <1>3, UpTo
<1> QED
  BY <1>4

(* Any function that satisfies the equation of the new contents has them:    *)
(* what the walk had put out behind each hunk.                               *)
NewEquation(original, hunks, f) ==
  f = [k \in 0..Len(hunks) |->
         IF k = 0 THEN <<>>
         ELSE f[k - 1] \o SubSeq(original, Behind(hunks, k - 1), First(hunks[k]) - 1)
                      \o New(hunks[k])]

(* The walk over hunks that all apply puts out the new content.              *)
LEMMA OutputIsNew ==
  ASSUME NEW original \in Seq(Line), NEW hunks \in Seq(Hunk),
         \A k \in 1..Len(hunks) : Anchored(hunks[k]),
         AppliesUpTo(original, hunks, Len(hunks)),
         NEW after \in [0..Len(hunks) -> State], after[0] = AtTop,
         \A k \in 1..Len(hunks) : after[k] = ApplyHunk(original, after[k - 1], hunks[k])
  PROVE  /\ NewEquation(original, hunks, [k \in 0..Len(hunks) |-> after[k].out])
         /\ \A f : NewEquation(original, hunks, f) => f[Len(hunks)] = after[Len(hunks)].out
<1> DEFINE N == Len(hunks)
           Next1(k, o) == o \o SubSeq(original, Behind(hunks, k - 1), First(hunks[k]) - 1)
                            \o New(hunks[k])
<1>1. N \in Nat /\ \A k \in 1..N : hunks[k] \in Hunk
  BY ElementOfSeq, LenProperties
<1>2. after[0].out = <<>>
  BY DEF AtTop
<1>3. ASSUME NEW k \in 1..N
      PROVE  after[k].out = Next1(k, after[k - 1].out)
  <2>1. k - 1 \in 0..N /\ \A j \in 1..k - 1 : j \in 1..N
    BY <1>1
  <2>2. AppliesUpTo(original, hunks, k - 1) /\ Applies(original, Behind(hunks, k - 1), hunks[k])
    BY <2>1 DEF AppliesUpTo
  <2>3. after[k - 1].ok /\ after[k - 1].cursor + 1 = Behind(hunks, k - 1)
    BY <2>1, <2>2, HunksAdvance DEF Advanced
  <2>4. after[k - 1] \in State /\ after[k] = ApplyHunk(original, after[k - 1], hunks[k])
    BY <2>1
  <2> QED
    BY <1>1, <2>2, <2>3, <2>4, HunkMeans
<1> HIDE DEF Next1, N
<1>4. NewEquation(original, hunks, [k \in 0..N |-> after[k].out])
  <2> DEFINE f == [k \in 0..N |-> after[k].out]
  <2>1. \A k \in 0..N : k # 0 => k \in 1..N /\ k - 1 \in 0..N
    BY <1>1
  <2>2. \A k \in 0..N : f[k] = IF k = 0 THEN <<>> ELSE Next1(k, f[k - 1])
    BY <1>2, <1>3, <2>1
  <2>3. f = [k \in 0..N |-> IF k = 0 THEN <<>> ELSE Next1(k, f[k - 1])]
    BY <2>2
  <2> HIDE DEF f
  <2>4. NewEquation(original, hunks, f)
    BY <2>3 DEF NewEquation, Next1, N
  <2> QED
    BY <2>4 DEF f
<1>5. ASSUME NEW f, NewEquation(original, hunks, f)
      PROVE  f[N] = after[N].out
  <2>1. f = [k \in 0..N |-> IF k = 0 THEN <<>> ELSE Next1(k, f[k - 1])]
    BY <1>5 DEF NewEquation, Next1, N
  <2> DEFINE T == {k \in 0..N : f[k] = after[k].out}
  <2>2. 0 \in T
    BY <1>1, <1>2, <2>1
  <2>3. ASSUME NEW k \in 0..N, k < N, k \in T
        PROVE  k + 1 \in T
    <3>1. k + 1 \in 1..N /\ k + 1 \in 0..N /\ (k + 1) - 1 = k /\ k + 1 # 0
      BY <1>1, <2>3
    <3>2. f[k + 1] = Next1(k + 1, f[k])
      BY <2>1, <3>1
    <3>3. after[k + 1].out = Next1(k + 1, after[k].out)
      BY <1>3, <3>1
    <3> QED
      BY <2>3, <3>1, <3>2, <3>3
  <2>4. \A k \in 0..N : k \in T
    <3> HIDE DEF T
    <3> QED
      BY <1>1, <2>2, <2>3, UpTo
  <2> QED
    BY <1>1, <2>4
<1> QED
  BY <1>4, <1>5 DEF N

(* What the cursor walk makes of a file is what the hunks mean, for every    *)
(* file and every list of hunks with anchored headers: overlapping, out of   *)
(* order, past the end or with lines that are no diff.  (_apply_hunks)       *)
THEOREM HunksAsMeant ==
  ASSUME NEW original \in Seq(Line), NEW hunks \in Seq(Hunk),
         \A k \in 1..Len(hunks) : Anchored(hunks[k])
  PROVE  ApplyHunks(original, hunks) = Meaning(original, hunks)
<1> DEFINE N == Len(hunks)
           new == CHOOSE f : NewEquation(original, hunks, f)
<1>1. PICK after \in [0..N -> State] :
        /\ after[0] = AtTop
        /\ \A k \in 1..N : after[k] = ApplyHunk(original, after[k - 1], hunks[k])
        /\ ApplyHunks(original, hunks) =
             IF after[N].ok
             THEN after[N].out \o SubSeq(original, after[N].cursor + 1, Len(original))
             ELSE NoFit
  BY HunksUnfold
<1>2. Meaning(original, hunks) =
        IF AppliesUpTo(original, hunks, N)
        THEN new[N] \o SubSeq(original, Behind(hunks, N), Len(original))
        ELSE NoFit
  BY DEF Meaning, AppliesUpTo, NewEquation
<1>3. N \in 0..N
  BY LenProperties
<1>4. Advanced(hunks, N, after[N], AppliesUpTo(original, hunks, N))
  BY <1>1, <1>3, HunksAdvance
<1>5. CASE ~AppliesUpTo(original, hunks, N)
  BY <1>1, <1>2, <1>4, <1>5 DEF Advanced
<1>6. CASE AppliesUpTo(original, hunks, N)
  <2>1. after[N].ok /\ after[N].cursor + 1 = Behind(hunks, N)
    BY <1>4, <1>6 DEF Advanced
  <2>2. /\ NewEquation(original, hunks, [k \in 0..N |-> after[k].out])
        /\ \A f : NewEquation(original, hunks, f) => f[N] = after[N].out
    BY <1>1, <1>6, OutputIsNew
  <2>3. \E f : NewEquation(original, hunks, f)
    BY <2>2
  <2>4. NewEquation(original, hunks, new)
    BY <2>3
  <2> HIDE DEF new
  <2>5. new[N] = after[N].out
    BY <2>2, <2>4
  <2> QED
    BY <1>1, <1>2, <1>6, <2>1, <2>5
<1> QED
  BY <1>5, <1>6

(* A patched file is a sequence of lines again: the assumption that contents *)
(* are closed under the patches asks no more than that they include these.   *)
THEOREM PatchedAreLines ==
  ASSUME NEW original \in Seq(Line), NEW hunks \in Seq(Hunk)
  PROVE  ApplyHunks(original, hunks) \in Seq(Line) \cup {NoFit}
<1> DEFINE N == Len(hunks)
<1>1. PICK after \in [0..N -> State] :
        /\ after[0] = AtTop
        /\ \A k \in 1..N : after[k] = ApplyHunk(original, after[k - 1], hunks[k])
        /\ ApplyHunks(original, hunks) =
             IF after[N].ok
             THEN after[N].out \o SubSeq(original, after[N].cursor + 1, Len(original))
             ELSE NoFit
  BY HunksUnfold
<1>2. N \in 0..N /\ Len(original) \in Nat
  BY LenProperties
<1>3. after[N].out \in Seq(Line) /\ after[N].cursor \in Nat
  BY <1>2 DEF State
<1>4. SubSeq(original, after[N].cursor + 1, Len(original)) \in Seq(Line)
  BY <1>2, <1>3, PartTyped
<1> QED
  BY <1>1, <1>3, <1>4, ConcatProperties

(* No content is misapplied by two small hunks, whatever the workspace       *)
(* holds: with the theorem about all lists of hunks the invariant that the   *)
(* run checks on files of two lines holds for files of any length.           *)
THEOREM PatchesHunksMeanWhatTheySay == Spec => []HunksMeanWhatTheySay
<1>1. ASSUME NEW c \in Content, NEW g \in SmallHunk, NEW h \in SmallHunk
      PROVE  ApplyHunks(c, <<g, h>>) = Meaning(c, <<g, h>>)
  <2>1. c \in Seq(Line) /\ g \in Hunk /\ h \in Hunk /\ Anchored(g) /\ Anchored(h)
    BY PatchAssumption
  <2>2. <<g, h>> \in Seq(Hunk) /\ \A k \in 1..Len(<<g, h>>) : Anchored(<<g, h>>[k])
    BY <2>1
  <2> QED
    BY <2>1, <2>2, HunksAsMeant
<1>2. Misapplied = {}
  BY <1>1 DEF Misapplied
<1>3. HunksMeanWhatTheySay
  BY <1>2 DEF HunksMeanWhatTheySay
<1> QED
  BY <1>3, PTL
=============================================================================
