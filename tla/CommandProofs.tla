--------------------------- MODULE CommandProofs ---------------------------
(***************************************************************************)
(* The one-shot commands.  Of key, type and macro: that they leave nothing *)
(* held in silence, and that text arrives as it was written, whatever the  *)
(* layout, the orders, CapsLock and the faults of the link.  Of shot: that *)
(* it is honest, however many frames are skipped and whatever the two      *)
(* limits on mismatches are.                                               *)
(*                                                                         *)
(* What FlattenSeq computes is shown by induction on sequences, stated     *)
(* with the set of those the claim holds of in place of a predicate.       *)
(***************************************************************************)
EXTENDS KeyDelivery, Screenshot, TLAPS, SequenceTheorems, WellFoundedInduction

-----------------------------------------------------------------------------
(* Induction                                                               *)

\* A set of naturals that is not empty has a least element.
LEMMA Least ==
    ASSUME NEW T \in SUBSET Nat, T # {}
    PROVE \E n \in T : \A m \in T : n <= m
  <1> DEFINE R == OpToRel(<, Nat)
  <1>1. IsWellFoundedOn(R, Nat)
    BY NatLessThanWellFounded
  <1>2. \A m, n \in Nat : <<m, n>> \in R <=> m < n
    BY DEF OpToRel
  <1>3. T \subseteq Nat
    OBVIOUS
  <1> HIDE DEF R
  <1>4. PICK n \in T : \A m \in T : ~(<<m, n>> \in R)
    BY <1>1, <1>3, WFMin, Zenon
  <1>5. \A m \in T : ~(m < n)
    BY <1>2, <1>3, <1>4
  <1> QED
    BY <1>3, <1>5

\* A set that has 0 and the successor of each of its naturals has them all.
LEMMA NatInduct ==
    ASSUME NEW P, 0 \in P, \A n \in Nat : n \in P => n + 1 \in P
    PROVE Nat \subseteq P
  <1> SUFFICES ASSUME Nat \ P # {} PROVE FALSE
    OBVIOUS
  <1>1. PICK n \in Nat \ P : \A m \in Nat \ P : n <= m
    BY Least
  <1>2. n # 0 /\ n - 1 \in Nat
    BY <1>1
  <1>3. n - 1 \in P
    BY <1>1, <1>2
  <1>4. (n - 1) + 1 = n
    BY <1>1
  <1> QED
    BY <1>1, <1>2, <1>3, <1>4

\* A set that has the empty sequence and is closed under Append.
LEMMA SeqInduct ==
    ASSUME NEW S, NEW P, << >> \in P,
           \A s \in Seq(S) : s \in P => \A x \in S : Append(s, x) \in P
    PROVE Seq(S) \subseteq P
  <1> DEFINE N == {n \in Nat : \A s \in Seq(S) : Len(s) = n => s \in P}
  <1>1. 0 \in N
    BY EmptySeq
  <1>2. ASSUME NEW n \in Nat, n \in N PROVE n + 1 \in N
    <2> SUFFICES ASSUME NEW s \in Seq(S), Len(s) = n + 1 PROVE s \in P
      OBVIOUS
    <2>1. s # << >>
      BY EmptySeq
    <2>2. PICK r \in Seq(S), x \in S : s = Append(r, x)
      BY <2>1, SequenceEmptyOrAppend
    <2>3. Len(r) = n
      BY <2>2, AppendProperties, LenProperties
    <2> QED
      BY <1>2, <2>2, <2>3
  <1>3. Nat \subseteq N
    <2> HIDE DEF N
    <2> QED BY <1>1, <1>2, NatInduct
  <1> QED
    BY <1>3, LenProperties

-----------------------------------------------------------------------------
(* FlattenSeq                                                              *)

\* f is the recursive function in the definition of FlattenSeq.
Unfolds(f, u, m) == f = [i \in 1..m |-> IF i = 1 THEN u[i] ELSE f[i - 1] \o u[i]]

\* It exists,
LEMMA Unfolded ==
    ASSUME NEW u, NEW m \in Nat
    PROVE \E f : Unfolds(f, u, m)
  <1> DEFINE N == {n \in Nat : \E f : Unfolds(f, u, n)}
  <1>1. 0 \in N
    <2>1. Unfolds([i \in 1..0 |-> u[i]], u, 0)
      BY DEF Unfolds
    <2> QED BY <2>1
  <1>2. ASSUME NEW n \in Nat, n \in N PROVE n + 1 \in N
    <2>1. PICK f : Unfolds(f, u, n)
      BY <1>2
    <2> DEFINE g == [i \in 1..(n + 1) |-> IF i <= n THEN f[i]
                                        ELSE IF i = 1 THEN u[i] ELSE f[i - 1] \o u[i]]
    <2>2. \A i \in 1..n : f[i] = IF i = 1 THEN u[i] ELSE f[i - 1] \o u[i]
      BY <2>1 DEF Unfolds
    <2>3. \A i \in 1..(n + 1) : g[i] = IF i = 1 THEN u[i] ELSE g[i - 1] \o u[i]
      BY <2>2
    <2>4. g = [i \in 1..(n + 1) |-> g[i]]
      OBVIOUS
    <2>5. Unfolds(g, u, n + 1)
      <3> HIDE DEF g
      <3> QED BY <2>3, <2>4 DEF Unfolds
    <2> QED
      BY <2>5
  <1> HIDE DEF N
  <1>3. Nat \subseteq N
    BY <1>1, <1>2, NatInduct
  <1> QED
    BY <1>3 DEF N

\* depends only on what it unfolds,
LEMMA UnfoldingsAgree ==
    ASSUME NEW u, NEW v, NEW f, NEW g, NEW m \in Nat, NEW n \in Nat,
           Unfolds(f, u, m), Unfolds(g, v, n), m <= n,
           \A i \in 1..m : u[i] = v[i]
    PROVE \A i \in 1..m : f[i] = g[i]
  <1> DEFINE N == {k \in Nat : k \in 1..m => f[k] = g[k]}
  <1>1. /\ \A i \in 1..m : f[i] = IF i = 1 THEN u[i] ELSE f[i - 1] \o u[i]
        /\ \A i \in 1..n : g[i] = IF i = 1 THEN v[i] ELSE g[i - 1] \o v[i]
    BY DEF Unfolds
  <1>2. 0 \in N
    OBVIOUS
  <1>3. ASSUME NEW k \in Nat, k \in N PROVE k + 1 \in N
    <2> SUFFICES ASSUME k + 1 \in 1..m PROVE f[k + 1] = g[k + 1]
      OBVIOUS
    <2>1. u[k + 1] = v[k + 1] /\ k + 1 \in 1..n
      OBVIOUS
    <2>2. CASE k = 0
      BY <1>1, <2>1, <2>2
    <2>3. CASE k # 0
      <3>1. k \in 1..m /\ f[k] = g[k] /\ (k + 1) - 1 = k /\ k + 1 # 1
        BY <1>3, <2>3
      <3>2. f[k + 1] = f[k] \o u[k + 1]
        BY <1>1, <3>1
      <3>3. g[k + 1] = g[k] \o v[k + 1]
        BY <1>1, <2>1, <3>1
      <3> QED
        BY <2>1, <3>1, <3>2, <3>3
    <2> QED
      BY <2>2, <2>3
  <1> HIDE DEF N
  <1>4. Nat \subseteq N
    BY <1>2, <1>3, NatInduct
  <1> QED
    BY <1>4 DEF N

\* and ends in the flattened sequence.
LEMMA FlattenIsUnfolding ==
    ASSUME NEW u, Len(u) \in Nat \ {0}
    PROVE \E f : Unfolds(f, u, Len(u)) /\ FlattenSeq(u) = f[Len(u)]
  <1> DEFINE f == CHOOSE f : Unfolds(f, u, Len(u))
  <1>1. Unfolds(f, u, Len(u))
    BY Unfolded
  <1>2. FlattenSeq(u) = f[Len(u)]
    BY DEF FlattenSeq, Unfolds
  <1> QED
    BY <1>1, <1>2

\* What is flattened grows at its end.
LEMMA FlattenAppend ==
    ASSUME NEW S, NEW ss \in Seq(Seq(S)), NEW s \in Seq(S)
    PROVE FlattenSeq(Append(ss, s)) = IF ss = << >> THEN s ELSE FlattenSeq(ss) \o s
  <1> DEFINE t == Append(ss, s)
             n == Len(ss)
  <1>1. /\ n \in Nat /\ Len(t) = n + 1 /\ t[n + 1] = s
        /\ \A i \in 1..n : ss[i] = t[i]
    BY AppendProperties, LenProperties
  <1> HIDE DEF t
  <1>2. PICK g : Unfolds(g, t, n + 1) /\ FlattenSeq(t) = g[n + 1]
    BY <1>1, FlattenIsUnfolding
  <1>3. g[n + 1] = IF n + 1 = 1 THEN t[n + 1] ELSE g[(n + 1) - 1] \o t[n + 1]
    <2>1. \A i \in 1..(n + 1) : g[i] = IF i = 1 THEN t[i] ELSE g[i - 1] \o t[i]
      BY <1>2 DEF Unfolds
    <2>2. n + 1 \in 1..(n + 1)
      BY <1>1
    <2> QED
      BY <2>1, <2>2
  <1>4. CASE ss = << >>
    BY <1>1, <1>2, <1>3, <1>4 DEF t
  <1>5. CASE ss # << >>
    <2>1. n \in Nat \ {0}
      BY <1>5, EmptySeq
    <2>2. PICK f : Unfolds(f, ss, n) /\ FlattenSeq(ss) = f[n]
      BY <2>1, FlattenIsUnfolding
    <2>3. n + 1 \in Nat /\ n <= n + 1 /\ n \in 1..n
      BY <2>1
    <2>4. \A i \in 1..n : f[i] = g[i]
      <3> HIDE DEF n
      <3>1. n \in Nat /\ Unfolds(f, ss, n) /\ Unfolds(g, t, n + 1)
            /\ \A i \in 1..n : ss[i] = t[i]
        BY <1>1, <1>2, <2>2
      <3> QED
        BY <2>3, <3>1, UnfoldingsAgree
    <2>5. g[n + 1] = g[n] \o s
      BY <1>1, <1>3, <2>1
    <2> QED
      BY <1>2, <1>5, <2>2, <2>3, <2>4, <2>5 DEF t
  <1> QED
    BY <1>4, <1>5

\* Nothing flattens to nothing,
LEMMA FlattenEmpty == FlattenSeq(<< >>) = << >>
  BY DEF FlattenSeq

\* sequences over S to a sequence over S,
LEMMA FlattenType ==
    ASSUME NEW S, NEW ss \in Seq(Seq(S))
    PROVE FlattenSeq(ss) \in Seq(S)
  <1> DEFINE P == {u \in Seq(Seq(S)) : FlattenSeq(u) \in Seq(S)}
  <1>1. << >> \in P
    BY FlattenEmpty, EmptySeq
  <1>2. ASSUME NEW u \in Seq(Seq(S)), u \in P, NEW s \in Seq(S)
        PROVE Append(u, s) \in P
    BY <1>2, FlattenAppend, AppendProperties, ConcatProperties
  <1> HIDE DEF P
  <1>3. Seq(Seq(S)) \subseteq P
    BY <1>1, <1>2, SeqInduct
  <1> QED
    BY <1>3 DEF P

\* and the one case of FlattenAppend is like the other.
LEMMA FlattenStep ==
    ASSUME NEW S, NEW ss \in Seq(Seq(S)), NEW s \in Seq(S)
    PROVE FlattenSeq(Append(ss, s)) = FlattenSeq(ss) \o s
  BY FlattenAppend, FlattenEmpty, FlattenType, ConcatEmptySeq

\* Flattening a mapped sequence, as the compiler does line by line.
Mapped(F, u) == [i \in 1..Len(u) |-> F[u[i]]]

Renders(F, S, T) == F \in [S -> Seq(T)]

LEMMA FlattenMap ==
    ASSUME NEW S, NEW T, NEW F, Renders(F, S, T), NEW s \in Seq(S), NEW x \in S
    PROVE /\ FlattenSeq(Mapped(F, s)) \in Seq(T)
          /\ FlattenSeq(Mapped(F, Append(s, x))) = FlattenSeq(Mapped(F, s)) \o F[x]
  <1> DEFINE n == Len(s)
             m == Mapped(F, s)
             t == Append(s, x)
             a == Append(m, F[x])
             b == Mapped(F, t)
  <1>1. /\ n \in Nat /\ Len(t) = n + 1 /\ t[n + 1] = x /\ t \in Seq(S)
        /\ \A i \in 1..n : t[i] = s[i] /\ s[i] \in S
    BY AppendProperties, LenProperties, ElementOfSeq
  <1>2. m \in Seq(Seq(T)) /\ Len(m) = n /\ \A i \in 1..n : m[i] = F[s[i]]
    BY <1>1 DEF Mapped, Renders
  <1>3. /\ a \in Seq(Seq(T)) /\ Len(a) = n + 1 /\ a[n + 1] = F[x]
        /\ \A i \in 1..n : a[i] = m[i]
    BY <1>2, AppendProperties DEF Renders
  <1> HIDE DEF t, m
  <1>4. /\ b \in Seq(Seq(T)) /\ Len(b) = n + 1
        /\ \A i \in 1..(n + 1) : b[i] = F[t[i]]
    <2>1. \A i \in 1..(n + 1) : F[t[i]] \in Seq(T)
      BY <1>1 DEF Renders
    <2> QED
      BY <1>1, <2>1 DEF Mapped
  <1> HIDE DEF a, b
  <1>5. \A i \in 1..(n + 1) : b[i] = a[i]
    <2> TAKE i \in 1..(n + 1)
    <2>1. CASE i = n + 1
      BY <1>1, <1>3, <1>4, <2>1
    <2>2. CASE i # n + 1
      <3>1. i \in 1..n
        BY <1>1, <2>2
      <3>2. b[i] = F[t[i]] /\ t[i] = s[i]
        BY <1>1, <1>4, <3>1
      <3>3. a[i] = m[i] /\ m[i] = F[s[i]]
        BY <1>2, <1>3, <3>1
      <3> QED
        BY <3>2, <3>3
    <2> QED
      BY <2>1, <2>2
  <1>6. b = a
    <2>1. Len(b) = Len(a) /\ \A i \in 1..Len(b) : b[i] = a[i]
      BY <1>3, <1>4, <1>5
    <2> QED
      BY <1>3, <1>4, <2>1, SeqEqual
  <1>7. FlattenSeq(m) \in Seq(T) /\ FlattenSeq(b) = FlattenSeq(m) \o F[x]
    BY <1>2, <1>6, FlattenType, FlattenStep DEF a, Renders
  <1> QED
    BY <1>7 DEF m, b, t

-----------------------------------------------------------------------------
(* What a script types                                                     *)

Characters == DOMAIN OnBoard

StepTypes(step, caps) == IF step.kind = "send" THEN Types(step.report, caps) ELSE << >>

\* The text of a script on a target whose CapsLock stays as it is.
Typed(script, caps) ==
    FlattenSeq([i \in 1..Len(script) |-> StepTypes(script[i], caps)])

\* A step types characters of the board.
LEMMA StepTypesType ==
    ASSUME NEW step, NEW caps
    PROVE StepTypes(step, caps) \in Seq(Characters)
  <1> DEFINE g == Glyphs(step.report, caps)
  <1>1. g \subseteq Characters
    BY DEF Glyphs, Characters
  <1>2. g # {} => (CHOOSE c \in g : TRUE) \in Characters
    BY <1>1
  <1> HIDE DEF g
  <1>3. \A c \in Characters : << c >> \in Seq(Characters)
    OBVIOUS
  <1>4. << >> \in Seq(Characters)
    OBVIOUS
  <1> QED
    BY <1>2, <1>3, <1>4 DEF StepTypes, Types, g

\* One more step types its own text after the others.
LEMMA TypedSteps ==
    ASSUME NEW S, NEW script \in Seq(S), NEW step \in S, NEW caps
    PROVE /\ Typed(script, caps) \in Seq(Characters)
          /\ Typed(Append(script, step), caps)
                = Typed(script, caps) \o StepTypes(step, caps)
  <1> DEFINE F == [y \in S |-> StepTypes(y, caps)]
             t == Append(script, step)
  <1>1. F \in [S -> Seq(Characters)] /\ \A y \in S : F[y] = StepTypes(y, caps)
    BY StepTypesType
  <1> HIDE DEF F
  <1>2. /\ FlattenSeq(Mapped(F, script)) \in Seq(Characters)
        /\ FlattenSeq(Mapped(F, t)) = FlattenSeq(Mapped(F, script)) \o F[step]
    <2>1. Renders(F, S, Characters)
      BY <1>1 DEF Renders
    <2> HIDE DEF t
    <2>2. /\ FlattenSeq(Mapped(F, script)) \in Seq(Characters)
          /\ FlattenSeq(Mapped(F, Append(script, step)))
                = FlattenSeq(Mapped(F, script)) \o F[step]
      BY <2>1, FlattenMap
    <2> QED
      BY <2>2 DEF t
  <1>3. \A u \in Seq(S) : Mapped(F, u) = [i \in 1..Len(u) |-> StepTypes(u[i], caps)]
    BY <1>1, ElementOfSeq DEF Mapped
  <1>4. t \in Seq(S)
    BY AppendProperties
  <1> HIDE DEF t
  <1>5. /\ Typed(script, caps) = FlattenSeq(Mapped(F, script))
        /\ Typed(t, caps) = FlattenSeq(Mapped(F, t))
    BY <1>3, <1>4 DEF Typed
  <1> QED
    BY <1>1, <1>2, <1>5 DEF t

\* No steps, no text.
LEMMA TypedEmpty == \A caps : Typed(<< >>, caps) = << >>
  <1> TAKE caps
  <1>1. [i \in 1..Len(<< >>) |-> StepTypes(<< >>[i], caps)] = << >>
    BY EmptySeq
  <1> QED
    BY <1>1, FlattenEmpty DEF Typed

\* Two scripts type one after the other what each of them types.
InTurn(a, b, caps) == Typed(a \o b, caps) = Typed(a, caps) \o Typed(b, caps)

LEMMA TypedConcat ==
    ASSUME NEW S, NEW caps, NEW a \in Seq(S), NEW b \in Seq(S)
    PROVE InTurn(a, b, caps)
  <1> DEFINE P == {u \in Seq(S) : Typed(a \o u, caps) = Typed(a, caps) \o Typed(u, caps)}
  <1>1. << >> \in P
    BY TypedEmpty, ConcatEmptySeq, EmptySeq, TypedSteps
  <1>2. ASSUME NEW u \in Seq(S), u \in P, NEW x \in S PROVE Append(u, x) \in P
    <2>1. a \o Append(u, x) = Append(a \o u, x)
      <3>1. Append(u, x) = u \o << x >> /\ << x >> \in Seq(S)
        BY AppendIsConcat
      <3>2. a \o u \in Seq(S) /\ Append(a \o u, x) = (a \o u) \o << x >>
        BY AppendIsConcat, ConcatProperties
      <3> QED
        BY <3>1, <3>2, ConcatAssociative
    <2>2. a \o u \in Seq(S)
      BY ConcatProperties
    <2>3. /\ Typed(a \o u, caps) \in Seq(Characters)
          /\ Typed(a, caps) \in Seq(Characters) /\ Typed(u, caps) \in Seq(Characters)
          /\ StepTypes(x, caps) \in Seq(Characters)
      BY <2>2, TypedSteps, StepTypesType
    <2>4. Typed(Append(a \o u, x), caps) = Typed(a \o u, caps) \o StepTypes(x, caps)
      BY <2>2, TypedSteps
    <2>5. Typed(Append(u, x), caps) = Typed(u, caps) \o StepTypes(x, caps)
      BY TypedSteps
    <2>6. Typed(a \o u, caps) = Typed(a, caps) \o Typed(u, caps)
      BY <1>2
    <2>7. Typed(a \o Append(u, x), caps) = Typed(a, caps) \o Typed(Append(u, x), caps)
      <3>1. (Typed(a, caps) \o Typed(u, caps)) \o StepTypes(x, caps)
              = Typed(a, caps) \o (Typed(u, caps) \o StepTypes(x, caps))
        BY SMTT(20), <2>3, ConcatAssociative
      <3> QED
        BY <2>1, <2>4, <2>5, <2>6, <3>1
    <2> QED
      BY <2>7, AppendProperties
  <1> HIDE DEF P
  <1>3. Seq(S) \subseteq P
    BY <1>1, <1>2, SeqInduct
  <1> QED
    BY <1>3 DEF P, InTurn

-----------------------------------------------------------------------------
(* Characters                                                              *)

BoardKeys == {OnBoard[c].key : c \in Characters}
PlainReports == [mods: SUBSET {"shift"}, key: BoardKeys \cup {"none"}]
PlainSteps == [kind: {"send", "wait"}, report: PlainReports]

LEMMA Board ==
    /\ "none" \notin BoardKeys /\ "capslock" \notin BoardKeys
    /\ \A c \in Characters :
          /\ OnBoard[c].key \in BoardKeys /\ OnBoard[c].shift \in BOOLEAN
          /\ \A d \in Characters : OnBoard[c].key = OnBoard[d].key =>
                /\ OnBoard[c].shift = OnBoard[d].shift => c = d
                /\ c \in Letters <=> d \in Letters
  <1>1. /\ Letters \subseteq Characters
        /\ \A c \in Characters :
            /\ OnBoard[c] \in [key: STRING \ {"none", "capslock"}, shift: BOOLEAN]
            /\ \A d \in Characters : OnBoard[c] = OnBoard[d] => c = d
            /\ c \in Letters => \E d \in Letters :
                  OnBoard[d] = [key |-> OnBoard[c].key, shift |-> ~OnBoard[c].shift]
    BY LayoutAssumption DEF IsLayout, Characters
  <1>2. \A c \in Characters :
            /\ OnBoard[c].key \notin {"none", "capslock"} /\ OnBoard[c].shift \in BOOLEAN
            /\ OnBoard[c] = [key |-> OnBoard[c].key, shift |-> OnBoard[c].shift]
    BY <1>1
  <1>3. ASSUME NEW c \in Characters, NEW d \in Characters,
               OnBoard[c].key = OnBoard[d].key, OnBoard[c].shift = OnBoard[d].shift
        PROVE c = d
    <2>1. /\ OnBoard[c] = [key |-> OnBoard[c].key, shift |-> OnBoard[c].shift]
          /\ OnBoard[d] = [key |-> OnBoard[d].key, shift |-> OnBoard[d].shift]
      BY <1>2
    <2>2. OnBoard[c] = OnBoard[d]
      BY <1>3, <2>1
    <2> QED
      BY <1>1, <2>2
  <1>4. ASSUME NEW c \in Characters, NEW d \in Characters, c \in Letters,
               OnBoard[c].key = OnBoard[d].key
        PROVE d \in Letters
    <2>1. PICK e \in Letters :
              OnBoard[e] = [key |-> OnBoard[c].key, shift |-> ~OnBoard[c].shift]
      BY <1>1, <1>4
    <2>2. OnBoard[e].key = OnBoard[d].key /\ OnBoard[e].shift = ~OnBoard[c].shift
      BY <1>4, <2>1
    <2>3. e \in Characters /\ OnBoard[d].shift \in {OnBoard[c].shift, OnBoard[e].shift}
      BY <1>1, <1>2, <2>2
    <2> QED
      BY <1>3, <1>4, <2>2, <2>3
  <1> QED
    BY <1>2, <1>3, <1>4 DEF BoardKeys

\* The tap of a character as the compiler makes it for a known CapsLock.
CharacterTap(c, caps) ==
    Tap(OnBoard[c].key, ShiftIf(ShiftFor(c, OnBoard[c].shift, caps)))

LEMMA ReleasedTypesNothing ==
    /\ Released \in PlainReports
    /\ \A caps : Types(Released, caps) = << >>
  <1>1. \A caps : Glyphs(Released, caps) = {}
    BY Board DEF Glyphs, Released, Characters
  <1> QED
    BY <1>1 DEF Released, PlainReports, Types

LEMMA PressTypes ==
    ASSUME NEW c \in Characters, NEW caps \in BOOLEAN
    PROVE LET r == [mods |-> ShiftIf(ShiftFor(c, OnBoard[c].shift, caps)),
                    key |-> OnBoard[c].key]
          IN r \in PlainReports /\ Types(r, caps) = << c >>
  <1> DEFINE shifted == ShiftFor(c, OnBoard[c].shift, caps)
             r == [mods |-> ShiftIf(shifted), key |-> OnBoard[c].key]
             g == Glyphs(r, caps)
  <1>1. shifted = (OnBoard[c].shift # (caps /\ c \in Letters))
    BY Board DEF ShiftFor
  <1>2. shifted \in BOOLEAN
    BY <1>1
  <1> HIDE DEF shifted
  <1>3. /\ r.mods \in SUBSET {"shift"} /\ r.key = OnBoard[c].key
        /\ "shift" \in r.mods <=> shifted
        /\ "ctrl" \notin r.mods
    BY <1>2 DEF ShiftIf
  <1>4. r \in PlainReports
    BY <1>3, Board DEF PlainReports
  <1> HIDE DEF r
  <1>5. c \in g
    <2>1. \A s, l, h \in BOOLEAN : h = (s # l) => s = (h # l)
      OBVIOUS
    <2>2. (caps /\ c \in Letters) \in BOOLEAN /\ OnBoard[c].shift \in BOOLEAN
      BY Board
    <2>3. ("shift" \in r.mods) = shifted
      BY <1>2, <1>3
    <2>4. OnBoard[c].shift = (shifted # (caps /\ c \in Letters))
      BY <1>1, <1>2, <2>1, <2>2
    <2>5. OnBoard[c].shift = (("shift" \in r.mods) # (caps /\ c \in Letters))
      BY <2>3, <2>4
    <2> QED
      BY <1>3, <2>5 DEF Glyphs, Characters
  <1>6. ASSUME NEW d \in g PROVE d = c
    <2>1. /\ d \in Characters /\ OnBoard[d].key = OnBoard[c].key
          /\ OnBoard[d].shift = (("shift" \in r.mods) # (caps /\ d \in Letters))
      BY <1>3, <1>6 DEF Glyphs, Characters
    <2>2. d \in Letters <=> c \in Letters
      BY <2>1, Board
    <2>3. OnBoard[d].shift = OnBoard[c].shift
      BY <1>1, <1>3, <2>1, <2>2, Board
    <2> QED
      BY <2>1, <2>3, Board
  <1>7. g = {c}
    BY <1>5, <1>6
  <1> HIDE DEF g
  <1>8. (CHOOSE d \in g : TRUE) = c
    BY <1>7
  <1>9. Types(r, caps) = << c >>
    BY <1>3, <1>7, <1>8 DEF Types, g
  <1> QED
    BY <1>4, <1>9 DEF r, shifted

LEMMA CharacterTyped ==
    ASSUME NEW c \in Characters, NEW caps \in BOOLEAN
    PROVE /\ CharacterTap(c, caps) \in Seq(PlainSteps)
          /\ Typed(CharacterTap(c, caps), caps) = << c >>
  <1> DEFINE r == [mods |-> ShiftIf(ShiftFor(c, OnBoard[c].shift, caps)),
                   key |-> OnBoard[c].key]
             a == Send(r)
             b == Send(Released)
  <1>1. r \in PlainReports /\ Types(r, caps) = << c >>
    BY PressTypes
  <1>2. CharacterTap(c, caps) = << a, b >>
    BY DEF CharacterTap, Tap
  <1> HIDE DEF r
  <1>3. /\ a \in PlainSteps /\ StepTypes(a, caps) = << c >>
        /\ b \in PlainSteps /\ StepTypes(b, caps) = << >>
    BY <1>1, ReleasedTypesNothing DEF Send, PlainSteps, StepTypes
  <1> HIDE DEF a, b
  <1>4. /\ << >> \in Seq(PlainSteps) /\ << a >> \in Seq(PlainSteps)
        /\ Append(<< >>, a) = << a >> /\ Append(<< a >>, b) = << a, b >>
        /\ << a, b >> \in Seq(PlainSteps)
    <2>1. << >> \in Seq(PlainSteps)
      OBVIOUS
    <2>2. << a >> \in Seq(PlainSteps)
      BY <1>3
    <2>3. << a, b >> \in Seq(PlainSteps)
      BY <1>3
    <2>4. Append(<< >>, a) = << a >>
      OBVIOUS
    <2>5. Append(<< a >>, b) = << a, b >>
      <3> DEFINE p == Append(<< a >>, b)
                 q == << a, b >>
      <3>1. Len(<< a >>) = 1 /\ << a >>[1] = a
        OBVIOUS
      <3>2. p \in Seq(PlainSteps) /\ Len(p) = 2 /\ p[1] = a /\ p[2] = b
        BY <1>3, <2>2, <3>1, AppendProperties
      <3>3. q \in Seq(PlainSteps) /\ Len(q) = 2 /\ q[1] = a /\ q[2] = b
        BY <2>3
      <3> HIDE DEF p, q
      <3>4. Len(p) = Len(q) /\ \A i \in 1..Len(p) : p[i] = q[i]
        BY <3>2, <3>3
      <3>5. p = q
        BY <3>2, <3>3, <3>4, SeqEqual
      <3> QED
        BY <3>5 DEF p, q
    <2> QED
      BY <2>1, <2>2, <2>3, <2>4, <2>5
  <1>5. << >> \in Seq(Characters) /\ << c >> \in Seq(Characters)
    OBVIOUS
  <1>6. Typed(<< a >>, caps) = << c >>
    <2>1. Typed(Append(<< >>, a), caps) = Typed(<< >>, caps) \o StepTypes(a, caps)
      BY <1>3, <1>4, TypedSteps
    <2> QED
      BY <1>3, <1>4, <1>5, <2>1, TypedEmpty, ConcatEmptySeq
  <1>7. Typed(<< a, b >>, caps) = << c >>
    <2>1. Typed(Append(<< a >>, b), caps) = Typed(<< a >>, caps) \o StepTypes(b, caps)
      BY <1>3, <1>4, TypedSteps
    <2> QED
      BY <1>3, <1>4, <1>5, <1>6, <2>1, ConcatEmptySeq
  <1> QED
    BY <1>2, <1>4, <1>7

-----------------------------------------------------------------------------
(* Texts, lines and scripts                                                *)

LEMMA TextTyped ==
    ASSUME NEW caps \in BOOLEAN, NEW text \in Seq(Characters)
    PROVE /\ TypeText(text, caps) \in Seq(PlainSteps)
          /\ Typed(TypeText(text, caps), caps) = text
  <1> DEFINE F == [c \in Characters |-> CharacterTap(c, caps)]
             P == {u \in Seq(Characters) : /\ TypeText(u, caps) \in Seq(PlainSteps)
                                           /\ Typed(TypeText(u, caps), caps) = u}
  <1>1. Renders(F, Characters, PlainSteps)
    BY CharacterTyped DEF Renders
  <1>2. \A c \in Characters : F[c] = CharacterTap(c, caps)
    OBVIOUS
  <1> HIDE DEF F
  <1>3. \A u \in Seq(Characters) : TypeText(u, caps) = FlattenSeq(Mapped(F, u))
    BY <1>2, ElementOfSeq DEF Mapped, TypeText, CharacterTap
  <1>4. << >> \in P
    <2>1. Mapped(F, << >>) = << >>
      BY EmptySeq DEF Mapped
    <2>2. TypeText(<< >>, caps) = << >>
      BY <1>3, <2>1, FlattenEmpty, EmptySeq
    <2> QED
      BY <2>2, TypedEmpty, EmptySeq
  <1>5. ASSUME NEW u \in Seq(Characters), u \in P, NEW c \in Characters
        PROVE Append(u, c) \in P
    <2> DEFINE t == TypeText(u, caps)
    <2>1. t \in Seq(PlainSteps) /\ Typed(t, caps) = u
      BY <1>5
    <2>2. Append(u, c) \in Seq(Characters) /\ Append(u, c) = u \o << c >>
      BY AppendProperties, AppendIsConcat
    <2>3. FlattenSeq(Mapped(F, Append(u, c))) = FlattenSeq(Mapped(F, u)) \o F[c]
      BY <1>1, FlattenMap
    <2>4. TypeText(Append(u, c), caps) = t \o CharacterTap(c, caps)
      BY <1>2, <1>3, <2>2, <2>3
    <2> HIDE DEF t
    <2>5. Typed(t \o CharacterTap(c, caps), caps) = u \o << c >>
      <3>1. /\ CharacterTap(c, caps) \in Seq(PlainSteps)
            /\ Typed(CharacterTap(c, caps), caps) = << c >>
        BY CharacterTyped
      <3>2. Typed(t \o CharacterTap(c, caps), caps)
              = Typed(t, caps) \o Typed(CharacterTap(c, caps), caps)
        <4>1. InTurn(t, CharacterTap(c, caps), caps)
          BY <2>1, <3>1, TypedConcat
        <4> QED
          BY <4>1 DEF InTurn
      <3> QED
        BY <2>1, <3>1, <3>2
    <2>6. t \o CharacterTap(c, caps) \in Seq(PlainSteps)
      BY <2>1, CharacterTyped, ConcatProperties
    <2> QED
      BY <2>2, <2>4, <2>5, <2>6
  <1> HIDE DEF P
  <1>6. Seq(Characters) \subseteq P
    BY <1>4, <1>5, SeqInduct
  <1> QED
    BY <1>6 DEF P

TextLines ==
    {line \in [word: STRING, arg: Seq(STRING)] :
        /\ line.word \in {"type", "wait", "layout", "comment"}
        /\ line.word = "type" => line.arg \in Seq(Characters)}

LineText(line) == IF line.word = "type" THEN line.arg ELSE << >>

LEMMA LineTyped ==
    ASSUME NEW line \in TextLines, NEW caps \in BOOLEAN
    PROVE /\ LineSteps(line, caps) \in Seq(PlainSteps)
          /\ LineText(line) \in Seq(Characters)
          /\ Typed(LineSteps(line, caps), caps) = LineText(line)
  <1>1. CASE line.word = "type"
    <2>1. line.arg \in Seq(Characters)
      BY <1>1 DEF TextLines
    <2> QED
      BY <1>1, <2>1, TextTyped DEF LineSteps, LineText
  <1>2. CASE line.word = "wait"
    <2>1. LineSteps(line, caps) = << Wait >> /\ LineText(line) = << >>
      BY <1>2 DEF LineSteps, LineText
    <2>2. Wait \in PlainSteps /\ StepTypes(Wait, caps) = << >>
      BY ReleasedTypesNothing DEF Wait, PlainSteps, StepTypes
    <2> HIDE DEF Wait
    <2>3. << >> \in Seq(PlainSteps) /\ Append(<< >>, Wait) = << Wait >>
      OBVIOUS
    <2>4. << Wait >> \in Seq(PlainSteps)
      BY <2>2
    <2>5. Typed(<< Wait >>, caps) = << >> \o << >>
      <3>1. Typed(Append(<< >>, Wait), caps) = Typed(<< >>, caps) \o StepTypes(Wait, caps)
        BY <2>2, <2>3, TypedSteps
      <3> QED
        BY <2>2, <2>3, <3>1, TypedEmpty
    <2>6. << >> \in Seq(Characters) /\ << >> \o << >> = << >>
      OBVIOUS
    <2> QED
      BY <2>1, <2>4, <2>5, <2>6
  <1>3. CASE line.word \in {"layout", "comment"}
    <2>1. LineSteps(line, caps) = << >> /\ LineText(line) = << >>
      BY <1>3 DEF LineSteps, LineText
    <2>2. << >> \in Seq(Characters) /\ << >> \in Seq(PlainSteps)
      OBVIOUS
    <2> QED
      BY <2>1, <2>2, TypedEmpty
  <1> QED
    BY <1>1, <1>2, <1>3 DEF TextLines

MacroText(lines) == FlattenSeq([i \in 1..Len(lines) |-> LineText(lines[i])])

LEMMA MacroTyped ==
    ASSUME NEW caps \in BOOLEAN, NEW lines \in Seq(TextLines)
    PROVE /\ MacroSteps(lines, caps) \in Seq(PlainSteps)
          /\ MacroText(lines) \in Seq(Characters)
          /\ Typed(MacroSteps(lines, caps), caps) = MacroText(lines)
  <1> DEFINE F == [l \in TextLines |-> LineSteps(l, caps)]
             G == [l \in TextLines |-> LineText(l)]
             P == {u \in Seq(TextLines) :
                      /\ MacroSteps(u, caps) \in Seq(PlainSteps)
                      /\ MacroText(u) \in Seq(Characters)
                      /\ Typed(MacroSteps(u, caps), caps) = MacroText(u)}
  <1>1. Renders(F, TextLines, PlainSteps) /\ Renders(G, TextLines, Characters)
    BY LineTyped DEF Renders
  <1>2. \A l \in TextLines : F[l] = LineSteps(l, caps) /\ G[l] = LineText(l)
    OBVIOUS
  <1> HIDE DEF F, G
  <1>3. \A u \in Seq(TextLines) : MacroSteps(u, caps) = FlattenSeq(Mapped(F, u))
    BY <1>2, ElementOfSeq DEF Mapped, MacroSteps
  <1>4. \A u \in Seq(TextLines) : MacroText(u) = FlattenSeq(Mapped(G, u))
    BY <1>2, ElementOfSeq DEF Mapped, MacroText
  <1>5. << >> \in P
    <2>1. Mapped(F, << >>) = << >> /\ Mapped(G, << >>) = << >>
      BY EmptySeq DEF Mapped
    <2>2. MacroSteps(<< >>, caps) = << >> /\ MacroText(<< >>) = << >>
      BY <1>3, <1>4, <2>1, FlattenEmpty, EmptySeq
    <2> QED
      BY <2>2, TypedEmpty, EmptySeq
  <1>6. ASSUME NEW u \in Seq(TextLines), u \in P, NEW l \in TextLines
        PROVE Append(u, l) \in P
    <2> DEFINE t == MacroSteps(u, caps)
               v == LineSteps(l, caps)
    <2>1. /\ t \in Seq(PlainSteps) /\ MacroText(u) \in Seq(Characters)
          /\ Typed(t, caps) = MacroText(u)
      BY <1>6
    <2>2. /\ v \in Seq(PlainSteps) /\ LineText(l) \in Seq(Characters)
          /\ Typed(v, caps) = LineText(l)
      BY LineTyped
    <2>3. Append(u, l) \in Seq(TextLines)
      BY AppendProperties
    <2>4. /\ FlattenSeq(Mapped(F, Append(u, l))) = FlattenSeq(Mapped(F, u)) \o F[l]
          /\ FlattenSeq(Mapped(G, Append(u, l))) = FlattenSeq(Mapped(G, u)) \o G[l]
      BY <1>1, FlattenMap
    <2>5. MacroSteps(Append(u, l), caps) = t \o v
      BY <1>2, <1>3, <2>3, <2>4
    <2>6. MacroText(Append(u, l)) = MacroText(u) \o LineText(l)
      BY <1>2, <1>4, <2>3, <2>4
    <2> HIDE DEF t, v
    <2>7. t \o v \in Seq(PlainSteps) /\ MacroText(u) \o LineText(l) \in Seq(Characters)
      BY <2>1, <2>2, ConcatProperties
    <2>8. Typed(t \o v, caps) = MacroText(u) \o LineText(l)
      <3>1. Typed(t \o v, caps) = Typed(t, caps) \o Typed(v, caps)
        <4>1. InTurn(t, v, caps)
          BY <2>1, <2>2, TypedConcat
        <4> QED
          BY <4>1 DEF InTurn
      <3> QED
        BY <2>1, <2>2, <3>1
    <2> QED
      BY <2>3, <2>5, <2>6, <2>7, <2>8
  <1> HIDE DEF P
  <1>7. Seq(TextLines) \subseteq P
    BY <1>5, <1>6, SeqInduct
  <1> QED
    BY <1>7 DEF P

LEMMA ResolvedText ==
    ASSUME NEW text \in Seq(STRING), TextResolves(text)
    PROVE text \in Seq(Characters)
  <1>1. Len(text) \in Nat /\ DOMAIN text = 1..Len(text)
    BY LenProperties
  <1>2. \A i \in 1..Len(text) : text[i] \in Characters
    BY <1>1 DEF TextResolves, ToSet, Characters
  <1>3. text = [i \in 1..Len(text) |-> text[i]]
    BY LenProperties
  <1>4. text \in [1..Len(text) -> Characters]
    BY <1>2, <1>3
  <1> QED
    BY <1>1, <1>4, SeqDef

\* A script without key lines types what was asked, and only by plain steps.
LEMMA ScriptTyped ==
    ASSUME NEW o \in Orders, Compiles(o), ~KeysAsked(o), NEW caps \in BOOLEAN
    PROVE /\ Script(o, caps) \in Seq(PlainSteps)
          /\ Typed(Script(o, caps), caps) = Asked(o)
          /\ Asked(o) \in Seq(Characters)
  <1>1. CASE o.command = "type"
    <2>1. o.arg \in Seq(Characters)
      BY <1>1, OrdersAssumption, ResolvedText DEF Compiles
    <2>2. Script(o, caps) = TypeText(o.arg, caps) /\ Asked(o) = o.arg
      BY <1>1 DEF Script, Asked
    <2> QED
      BY <2>1, <2>2, TextTyped
  <1>2. CASE o.command # "type"
    <2>1. o.command = "macro" /\ o.arg \in Seq([word: STRING, arg: Seq(STRING)])
      BY <1>2, OrdersAssumption DEF KeysAsked
    <2> DEFINE lines == o.arg
    <2>2. Len(lines) \in Nat /\ DOMAIN lines = 1..Len(lines)
      BY <2>1, LenProperties
    <2>3. ASSUME NEW i \in 1..Len(lines) PROVE lines[i] \in TextLines
      <3>1. /\ lines[i] \in [word: STRING, arg: Seq(STRING)]
            /\ lines[i].word \in STRING /\ lines[i].arg \in Seq(STRING)
        <4>1. lines[i] \in [word: STRING, arg: Seq(STRING)]
          BY <2>1, ElementOfSeq
        <4> HIDE DEF lines
        <4> QED
          BY <4>1
      <3>2. LineCompiles(lines, i) /\ lines[i].word # "key"
        BY <2>1, <2>3 DEF Compiles, KeysAsked
      <3>3. lines[i].word \in {"type", "wait", "layout", "comment"}
        BY <3>2 DEF LineCompiles
      <3>4. lines[i].word = "type" => lines[i].arg \in Seq(Characters)
        BY <3>1, <3>2, ResolvedText DEF LineCompiles
      <3> QED
        BY <3>1, <3>3, <3>4 DEF TextLines
    <2>4. lines \in Seq(TextLines)
      <3>1. lines = [i \in 1..Len(lines) |-> lines[i]]
        BY <2>1, LenProperties
      <3>2. lines \in [1..Len(lines) -> TextLines]
        BY <2>3, <3>1
      <3> QED
        BY <2>2, <3>2, SeqDef
    <2>5. Script(o, caps) = MacroSteps(lines, caps)
      BY <2>1 DEF Script
    <2>6. Asked(o) = MacroText(lines)
      BY <2>1 DEF Asked, MacroText, LineText
    <2> QED
      BY <2>4, <2>5, <2>6, MacroTyped
  <1> QED
    BY <1>1, <1>2

-----------------------------------------------------------------------------
(* The delivery                                                            *)

DeliveryFields == {"pc", "order", "policy", "dry", "script", "at", "sent", "faults",
                   "interrupted", "link", "seenCaps", "ending", "release"}

DeliveryShape ==
    /\ DOMAIN delivery = DeliveryFields
    /\ delivery.pc \in {"compile", "open", "info", "run", "unwind", "exited"}
    /\ delivery.order \in Orders /\ delivery.policy \in Policies
    /\ delivery.at \in Nat \ {0} /\ delivery.seenCaps \in BOOLEAN
    /\ DOMAIN target = {"connected", "caps", "held", "text"}
    /\ target.caps \in BOOLEAN

\* Until something is sent nothing is held, and the guard's answer counts.
GuardHolds ==
    /\ delivery.pc \in {"compile", "open", "info"} => target.held = Released
    /\ delivery.pc = "exited" => target.held = Released \/ delivery.release = "UNSENT"

\* The fields of the records the actions update.
LEMMA AppliedFields ==
    ASSUME DeliveryShape, NEW report
    PROVE LET t == Applied(target, report)
          IN /\ DOMAIN t = DOMAIN target /\ t.held = report
             /\ t.text = target.text \o Types(report, target.caps)
             /\ t.caps = IF report.key = "capslock" THEN ~target.caps ELSE target.caps
             /\ t.caps \in BOOLEAN
  BY DEF DeliveryShape, Applied

LEMMA UnwindFields ==
    ASSUME NEW d, DOMAIN d = DeliveryFields, NEW ending
    PROVE LET e == Unwind(d, ending)
          IN /\ DOMAIN e = DeliveryFields /\ e.pc = "unwind" /\ e.ending = ending
             /\ \A field \in DeliveryFields \ {"pc", "ending"} : e[field] = d[field]
  BY DEF Unwind, DeliveryFields

LEMMA FaultyFields ==
    ASSUME NEW d, DOMAIN d = DeliveryFields, NEW ending, NEW e \in Faulty(d, ending)
    PROVE /\ DOMAIN e = DeliveryFields /\ e.pc = "unwind" /\ e.ending = ending
          /\ e.order = d.order /\ e.policy = d.policy /\ e.at = d.at
          /\ e.seenCaps = d.seenCaps
  <1> DEFINE u == Unwind(d, ending)
  <1>1. /\ DOMAIN u = DeliveryFields /\ u.pc = "unwind" /\ u.ending = ending
        /\ u.order = d.order /\ u.policy = d.policy /\ u.at = d.at
        /\ u.seenCaps = d.seenCaps
    BY UnwindFields DEF DeliveryFields
  <1>2. PICK state \in {"up", "down"} : e = [u EXCEPT !.faults = @ + 1, !.link = state]
    BY DEF Faulty
  <1> HIDE DEF u
  <1> QED
    BY <1>1, <1>2

LEMMA DeliveryShapeKept ==
    ASSUME DeliveryShape, [DeliveryNext]_deliveryVars
    PROVE DeliveryShape'
  <1>1. CASE Compile
    BY <1>1 DEF Compile, Exit, DeliveryShape, DeliveryFields
  <1>2. CASE Signal
    BY <1>2 DEF Signal, DeliveryShape, DeliveryFields
  <1>3. CASE OpenPort
    BY <1>3 DEF OpenPort, Exit, DeliveryShape, DeliveryFields
  <1>4. CASE QueryLocks
    BY ZenonT(30), <1>4 DEF QueryLocks, Exit, DeliveryShape, DeliveryFields
  <1>5. CASE RunInterrupted
    BY <1>5 DEF RunInterrupted, Unwind, DeliveryShape, DeliveryFields
  <1>6. CASE RunWait
    BY <1>6 DEF RunWait, DeliveryShape, DeliveryFields
  <1>7. CASE RunSend
    <2>1. DOMAIN target' = DOMAIN target /\ target'.caps \in BOOLEAN
      BY <1>7, AppliedFields DEF RunSend
    <2> QED
      BY <1>7, <2>1 DEF RunSend, DeliveryShape, DeliveryFields
  <1>8. CASE RunSendFails
    <2>1. CASE target' = target
      BY <1>8, <2>1, FaultyFields DEF RunSendFails, DeliveryShape, DeliveryFields
    <2>2. CASE target' = Applied(target, Here.report)
      <3>1. DOMAIN target' = DOMAIN target /\ target'.caps \in BOOLEAN
        BY <2>2, AppliedFields
      <3> QED
        BY <1>8, <3>1, FaultyFields DEF RunSendFails, DeliveryShape, DeliveryFields
    <2> QED
      BY <1>8, <2>1, <2>2 DEF RunSendFails
  <1>9. CASE RunEnds
    BY <1>9 DEF RunEnds, Unwind, DeliveryShape, DeliveryFields
  <1>10. CASE ReleaseAll
    <2>1. DOMAIN target' = DOMAIN target /\ target'.caps \in BOOLEAN
      <3>1. CASE target' = target
        BY <3>1 DEF DeliveryShape, DeliveryFields
      <3>2. CASE target' = Applied(target, Released)
        BY <3>2, AppliedFields
      <3> QED
        BY <1>10, <3>1, <3>2 DEF ReleaseAll
    <2> QED
      BY ZenonT(30), <1>10, <2>1 DEF ReleaseAll, GuardDropped, DeliveryShape, DeliveryFields
  <1>11. CASE UNCHANGED deliveryVars
    BY <1>11 DEF deliveryVars, DeliveryShape, DeliveryFields
  <1> QED
    BY <1>1, <1>2, <1>3, <1>4, <1>5, <1>6, <1>7, <1>8, <1>9, <1>10, <1>11 DEF DeliveryNext

LEMMA GuardKept ==
    ASSUME DeliveryShape, GuardHolds, [DeliveryNext]_deliveryVars
    PROVE GuardHolds'
  <1>1. CASE Compile
    BY <1>1 DEF Compile, Exit, DeliveryShape, DeliveryFields, GuardHolds
  <1>2. CASE Signal
    BY <1>2 DEF Signal, DeliveryShape, DeliveryFields, GuardHolds
  <1>3. CASE OpenPort
    BY <1>3 DEF OpenPort, Exit, DeliveryShape, DeliveryFields, GuardHolds
  <1>4. CASE QueryLocks
    BY <1>4 DEF QueryLocks, Exit, DeliveryShape, DeliveryFields, GuardHolds
  <1>5. CASE RunInterrupted
    BY <1>5 DEF RunInterrupted, Unwind, DeliveryShape, DeliveryFields, GuardHolds
  <1>6. CASE RunWait
    BY <1>6 DEF RunWait, DeliveryShape, DeliveryFields, GuardHolds
  <1>7. CASE RunSend
    BY <1>7 DEF RunSend, DeliveryShape, DeliveryFields, GuardHolds
  <1>8. CASE RunSendFails
    BY <1>8, FaultyFields DEF RunSendFails, DeliveryShape, DeliveryFields, GuardHolds
  <1>9. CASE RunEnds
    BY <1>9 DEF RunEnds, Unwind, DeliveryShape, DeliveryFields, GuardHolds
  <1>10. CASE ReleaseAll
    <2>1. CASE /\ delivery' = GuardDropped(delivery, "sent")
               /\ target' = Applied(target, Released)
      BY <2>1, AppliedFields DEF GuardDropped, DeliveryShape, DeliveryFields, GuardHolds
    <2>2. CASE delivery' = GuardDropped(delivery, "UNSENT")
      BY <2>2 DEF GuardDropped, DeliveryShape, DeliveryFields, GuardHolds
    <2> QED
      BY <1>10, <2>1, <2>2 DEF ReleaseAll
  <1>11. CASE UNCHANGED deliveryVars
    BY <1>11 DEF deliveryVars, GuardHolds
  <1> QED
    BY <1>1, <1>2, <1>3, <1>4, <1>5, <1>6, <1>7, <1>8, <1>9, <1>10, <1>11 DEF DeliveryNext

LEMMA DeliveryStarts == DeliveryInit => DeliveryShape /\ GuardHolds
  <1> SUFFICES ASSUME DeliveryInit PROVE DeliveryShape /\ GuardHolds
    OBVIOUS
  <1>1. /\ DOMAIN delivery = DeliveryFields /\ delivery.pc = "compile"
        /\ delivery.order \in Orders /\ delivery.policy \in Policies
        /\ delivery.at = 1 /\ delivery.seenCaps \in BOOLEAN
    BY DEF DeliveryInit, DeliveryFields
  <1>2. /\ DOMAIN target = {"connected", "caps", "held", "text"}
        /\ target.caps \in BOOLEAN /\ target.held = Released
    BY DEF DeliveryInit
  <1> QED
    BY <1>1, <1>2 DEF DeliveryShape, GuardHolds

\* However key, type or macro end, whatever a signal or a fault of the link cut
\* short, the target holds nothing or the user was told that the release-all was
\* not sent (Released::drop in cli/keys.rs).
THEOREM NothingHeldInSilence == DeliverySpec => []ReleasedOrReported
  <1>1. GuardHolds => ReleasedOrReported
    BY DEF GuardHolds, ReleasedOrReported
  <1> QED
    BY <1>1, DeliveryStarts, DeliveryShapeKept, GuardKept, PTL DEF DeliverySpec

-----------------------------------------------------------------------------
(* The text that arrives                                                   *)

\* IsPrefix
LEMMA EmptyIsBeginning ==
    ASSUME NEW S, NEW t \in Seq(S)
    PROVE IsPrefix(<< >>, t)
  <1>1. Len(<< >>) = 0 /\ Len(t) \in Nat
    BY EmptySeq, LenProperties
  <1>2. SubSeq(<< >>, 1, 0) = << >> /\ SubSeq(t, 1, 0) = << >>
    BY SubSeqEmpty
  <1> QED
    BY <1>1, <1>2 DEF IsPrefix

LEMMA ConcatHasBeginning ==
    ASSUME NEW S, NEW s \in Seq(S), NEW t \in Seq(S)
    PROVE IsPrefix(s, s \o t)
  <1>1. /\ Len(s) \in Nat /\ Len(t) \in Nat /\ Len(s \o t) = Len(s) + Len(t)
        /\ s \o t \in Seq(S)
    BY ConcatProperties, LenProperties
  <1>2. CASE Len(s) = 0
    <2>1. SubSeq(s, 1, 0) = << >> /\ SubSeq(s \o t, 1, 0) = << >>
      BY SubSeqEmpty
    <2> QED
      BY <1>1, <1>2, <2>1 DEF IsPrefix
  <1>3. CASE Len(s) # 0
    <2>1. 1 \in 1..Len(s) /\ Len(s) \in 1..Len(s)
      BY <1>1, <1>3
    <2>2. SubSeq(s \o t, 1, Len(s)) = SubSeq(s, 1, Len(s))
      BY <2>1, SubSeqOfConcat1
    <2> QED
      BY <1>1, <2>2 DEF IsPrefix
  <1> QED
    BY <1>2, <1>3

\* What the first k steps of a script type.
TypedUpTo(script, k, caps) == Typed(SubSeq(script, 1, k), caps)

\* It is a beginning of what the script types, and the next step adds its own.
LEMMA TypedSoFar ==
    ASSUME NEW S, NEW caps, NEW script \in Seq(S), NEW k \in 0..Len(script)
    PROVE /\ TypedUpTo(script, k, caps) \in Seq(Characters)
          /\ IsPrefix(TypedUpTo(script, k, caps), Typed(script, caps))
          /\ k = 0 => TypedUpTo(script, k, caps) = << >>
          /\ k = Len(script) => TypedUpTo(script, k, caps) = Typed(script, caps)
          /\ k < Len(script) =>
                TypedUpTo(script, k + 1, caps)
                    = TypedUpTo(script, k, caps) \o StepTypes(script[k + 1], caps)
  <1> DEFINE n == Len(script)
             a == SubSeq(script, 1, k)
             b == SubSeq(script, k + 1, n)
  <1>1. n \in Nat /\ k \in Nat /\ k <= n /\ \A i \in 1..n : script[i] \in S
    BY LenProperties, ElementOfSeq
  <1>2. a \in Seq(S)
    BY <1>1, SubSeqProperties
  <1>3. b \in Seq(S)
    BY <1>1, SubSeqProperties
  <1>4. a \o b = script
    <2>1. 1 \in 1..(n + 1) /\ k \in (1 - 1)..n /\ n \in k..n
      BY <1>1
    <2>2. a \o b = SubSeq(script, 1, n)
      BY <2>1, ConcatAdjacentSubSeq
    <2> QED
      BY <2>2, SubSeqFull
  <1> HIDE DEF a, b
  <1>5. Typed(a, caps) \in Seq(Characters) /\ Typed(b, caps) \in Seq(Characters)
    <2>1. \A u \in Seq(S) : Typed(u, caps) \in Seq(Characters)
      <3> TAKE u \in Seq(S)
      <3>1. CASE u = << >>
        BY <3>1, TypedEmpty, EmptySeq
      <3>2. CASE u # << >>
        <4>1. PICK v \in Seq(S), x \in S : u = Append(v, x)
          BY <3>2, SequenceEmptyOrAppend
        <4>2. u \in Seq(S) /\ x \in S
          BY <4>1
        <4> QED
          BY <4>2, TypedSteps
      <3> QED
        BY <3>1, <3>2
    <2> QED
      BY <1>2, <1>3, <2>1
  <1>6. InTurn(a, b, caps)
    BY <1>2, <1>3, TypedConcat
  <1>7. IsPrefix(Typed(a, caps), Typed(script, caps))
    BY <1>4, <1>5, <1>6, ConcatHasBeginning DEF InTurn
  <1>8. k = 0 => a = << >>
    BY SubSeqEmpty DEF a
  <1>9. k = n => a = script
    BY SubSeqFull DEF a
  <1>10. ASSUME k < n
         PROVE Typed(SubSeq(script, 1, k + 1), caps)
                  = Typed(a, caps) \o StepTypes(script[k + 1], caps)
    <2>1. 1 \in 1..n /\ k + 1 \in 1..n /\ (k + 1) - 1 = k /\ script[k + 1] \in S
      BY <1>1, <1>10
    <2>2. SubSeq(script, 1, k + 1) = SubSeq(script, 1, (k + 1) - 1) \o << script[k + 1] >>
      BY <2>1, SubSeqRecursiveSecond
    <2>3. SubSeq(script, 1, k + 1) = Append(a, script[k + 1])
      BY <1>2, <2>1, <2>2, AppendIsConcat DEF a
    <2> QED
      BY <1>2, <2>1, <2>3, TypedSteps
  <1> QED
    BY <1>5, <1>7, <1>8, <1>9, <1>10, TypedEmpty DEF TypedUpTo, a

LEMMA AskedIsText ==
    ASSUME NEW o \in Orders
    PROVE Asked(o) \in Seq(STRING)
  <1>1. CASE o.command = "type"
    BY <1>1, OrdersAssumption DEF Asked
  <1>2. CASE o.command = "macro"
    <2> DEFINE lines == o.arg
               texts == [i \in 1..Len(lines) |->
                            IF lines[i].word = "type" THEN lines[i].arg ELSE << >>]
    <2>1. lines \in Seq([word: STRING, arg: Seq(STRING)])
      BY <1>2, OrdersAssumption
    <2>2. Asked(o) = FlattenSeq(texts)
      BY <1>2 DEF Asked
    <2> HIDE DEF lines
    <2>3. Len(lines) \in Nat
      BY <2>1, LenProperties
    <2>4. \A i \in 1..Len(lines) : lines[i] \in [word: STRING, arg: Seq(STRING)]
      BY <2>1, ElementOfSeq
    <2>5. \A i \in 1..Len(lines) : texts[i] \in Seq(STRING)
      BY <2>4, EmptySeq
    <2>6. texts \in [1..Len(lines) -> Seq(STRING)]
      BY <2>5
    <2> HIDE DEF texts
    <2>7. texts \in Seq(Seq(STRING))
      BY <2>3, <2>6, SeqDef
    <2> QED
      BY <2>2, <2>7, FlattenType
  <1>3. CASE o.command \notin {"type", "macro"}
    BY <1>3, EmptySeq DEF Asked
  <1> QED
    BY <1>1, <1>2, <1>3

\* The orders whose text TypedAsWritten speaks of.
Faithful(d) == ~KeysAsked(d.order) /\ ~(d.policy = "Ignore" /\ d.seenCaps)

\* While it runs a faithful delivery has typed what its first steps type.
Sending ==
    /\ delivery.script \in Seq(PlainSteps)
    /\ delivery.at \in 1..(Len(delivery.script) + 1)
    /\ target.caps = delivery.seenCaps
    /\ Asked(delivery.order) = Typed(delivery.script, delivery.seenCaps)
    /\ target.text = TypedUpTo(delivery.script, delivery.at - 1, delivery.seenCaps)

TextInv ==
    /\ delivery.pc \in {"compile", "open", "info"} => target.text = << >> /\ delivery.at = 1
    /\ delivery.pc \in {"compile", "open", "info", "run"} => delivery.ending = "none"
    /\ delivery.ending \in {"refused", "printed"} =>
          target.text = << >> /\ delivery.pc = "exited"
    /\ delivery.pc \in {"open", "info"} => Compiles(delivery.order)
    /\ Faithful(delivery) =>
          /\ target.text \in Seq(Characters)
          /\ IsPrefix(target.text, Asked(delivery.order))
          /\ delivery.ending = "delivered" => target.text = Asked(delivery.order)
          /\ delivery.pc = "run" => Sending

\* choose_encoding compensates exactly what the target's CapsLock would change.
LEMMA EncodingChosen ==
    ASSUME NEW o, NEW policy \in Policies, NEW caps \in BOOLEAN,
           ~Refuses(o, policy, caps), ~(policy = "Ignore" /\ caps)
    PROVE Script(o, Compensates(o, policy, caps)) = Script(o, caps)
  <1>1. CASE ~caps
    BY <1>1 DEF Compensates
  <1>2. CASE caps /\ AffectedByCapsLock(o)
    <2>1. policy = "Compensate"
      BY <1>2 DEF Refuses, Policies
    <2>2. Compensates(o, policy, caps) = TRUE /\ caps = TRUE
      BY <1>2, <2>1 DEF Compensates
    <2> QED
      BY <2>2
  <1>3. CASE caps /\ ~AffectedByCapsLock(o)
    <2>1. Script(o, TRUE) = Script(o, FALSE)
      BY <1>3 DEF AffectedByCapsLock
    <2>2. Compensates(o, policy, caps) = FALSE /\ caps = TRUE
      BY <1>3 DEF Compensates
    <2> QED
      BY <2>1, <2>2
  <1> QED
    BY <1>1, <1>2, <1>3

\* A plain report types what StepTypes says and leaves CapsLock alone.
LEMMA PlainReportApplied ==
    ASSUME DeliveryShape, NEW step \in PlainSteps, step.kind = "send"
    PROVE LET t == Applied(target, step.report)
          IN /\ t.caps = target.caps
             /\ t.text = target.text \o StepTypes(step, target.caps)
  <1>1. step.report.key # "capslock"
    BY Board DEF PlainSteps, PlainReports
  <1> QED
    BY <1>1, AppliedFields DEF StepTypes

\* The send of the step at hand, whatever becomes of its acknowledgement.
LEMMA StepArrives ==
    ASSUME DeliveryShape, Sending, delivery.at <= Len(delivery.script), Here.kind = "send"
    PROVE LET t == Applied(target, Here.report)
          IN /\ t.caps = target.caps
             /\ t.text = TypedUpTo(delivery.script, delivery.at, delivery.seenCaps)
             /\ t.text \in Seq(Characters)
             /\ IsPrefix(t.text, Asked(delivery.order))
  <1> DEFINE s == delivery.script
             k == delivery.at - 1
             caps == delivery.seenCaps
             step == s[k + 1]
  <1>1. /\ s \in Seq(PlainSteps) /\ Len(s) \in Nat /\ k + 1 = delivery.at
        /\ k \in 0..Len(s) /\ k < Len(s) /\ k + 1 \in 0..Len(s) /\ k + 1 \in 1..Len(s)
    BY LenProperties DEF Sending
  <1>2. step \in PlainSteps /\ step = Here
    BY <1>1, ElementOfSeq DEF Here
  <1>3. /\ Applied(target, Here.report).caps = target.caps
        /\ Applied(target, Here.report).text = target.text \o StepTypes(Here, target.caps)
    BY <1>2, PlainReportApplied
  <1>4. /\ target.caps = caps /\ target.text = TypedUpTo(s, k, caps)
        /\ Asked(delivery.order) = Typed(s, caps)
    BY DEF Sending
  <1> HIDE DEF s, k, caps
  <1>5. TypedUpTo(s, k + 1, caps) = TypedUpTo(s, k, caps) \o StepTypes(step, caps)
    BY <1>1, TypedSoFar
  <1>6. /\ TypedUpTo(s, k + 1, caps) \in Seq(Characters)
        /\ IsPrefix(TypedUpTo(s, k + 1, caps), Typed(s, caps))
    BY <1>1, TypedSoFar
  <1>7. Applied(target, Here.report).text = TypedUpTo(s, k + 1, caps)
    BY <1>2, <1>3, <1>4, <1>5
  <1>8. TypedUpTo(s, k + 1, caps) = TypedUpTo(delivery.script, delivery.at, delivery.seenCaps)
    BY <1>1 DEF s, caps
  <1> QED
    BY <1>3, <1>4, <1>6, <1>7, <1>8

\* A wait types nothing.
LEMMA WaitTypesNothing ==
    ASSUME DeliveryShape, Sending, delivery.at <= Len(delivery.script), Here.kind = "wait"
    PROVE target.text = TypedUpTo(delivery.script, delivery.at, delivery.seenCaps)
  <1> DEFINE s == delivery.script
             k == delivery.at - 1
             caps == delivery.seenCaps
  <1>1. /\ s \in Seq(PlainSteps) /\ k + 1 = delivery.at
        /\ k \in 0..Len(s) /\ k < Len(s)
    BY LenProperties DEF Sending
  <1>2. target.text = TypedUpTo(s, k, caps)
    BY DEF Sending
  <1>3. StepTypes(s[k + 1], caps) = << >>
    BY <1>1 DEF StepTypes, Here
  <1>4. s[k + 1] = Here
    BY <1>1 DEF Here
  <1> HIDE DEF s, k, caps
  <1>5. /\ TypedUpTo(s, k + 1, caps) = TypedUpTo(s, k, caps) \o StepTypes(s[k + 1], caps)
        /\ TypedUpTo(s, k, caps) \in Seq(Characters)
    BY <1>1, TypedSoFar
  <1>6. TypedUpTo(s, k + 1, caps) = TypedUpTo(s, k, caps)
    BY <1>3, <1>5, ConcatEmptySeq
  <1>7. TypedUpTo(s, k + 1, caps) = TypedUpTo(delivery.script, delivery.at, delivery.seenCaps)
    BY <1>1 DEF s, caps
  <1> QED
    BY <1>2, <1>6, <1>7

\* Past its last step a script has typed what was asked.
LEMMA ScriptDone ==
    ASSUME DeliveryShape, Sending, delivery.at > Len(delivery.script)
    PROVE target.text = Asked(delivery.order)
  <1> DEFINE s == delivery.script
  <1>1. /\ s \in Seq(PlainSteps) /\ Len(s) \in Nat /\ delivery.at - 1 = Len(s)
        /\ Len(s) \in 0..Len(s)
    BY LenProperties DEF Sending
  <1>2. TypedUpTo(s, Len(s), delivery.seenCaps) = Typed(s, delivery.seenCaps)
    BY <1>1, TypedSoFar
  <1> QED
    BY <1>1, <1>2 DEF Sending

\* A step of the script behind, the next one ahead.
LEMMA StepDone ==
    ASSUME DeliveryShape, TextInv, delivery.pc = "run", delivery'.pc = "run",
           delivery'.order = delivery.order, delivery'.policy = delivery.policy,
           delivery'.seenCaps = delivery.seenCaps, delivery'.script = delivery.script,
           delivery'.ending = delivery.ending, delivery'.at = delivery.at + 1,
           delivery.at <= Len(delivery.script),
           Sending =>
               /\ target'.caps = target.caps
               /\ target'.text = TypedUpTo(delivery.script, delivery.at, delivery.seenCaps)
    PROVE TextInv'
  <1>1. Faithful(delivery)' = Faithful(delivery) /\ delivery.ending = "none"
    BY DEF Faithful, TextInv
  <1>2. ASSUME Sending
        PROVE /\ target'.text \in Seq(Characters)
              /\ IsPrefix(target'.text, Asked(delivery.order))
              /\ Sending'
    <2>1. /\ delivery.script \in Seq(PlainSteps) /\ Len(delivery.script) \in Nat
          /\ delivery.at \in 0..Len(delivery.script)
          /\ delivery'.at \in 1..(Len(delivery'.script) + 1)
          /\ delivery'.at - 1 = delivery.at
      BY <1>2, LenProperties DEF Sending
    <2>2. LET t == TypedUpTo(delivery.script, delivery.at, delivery.seenCaps)
          IN t \in Seq(Characters) /\ IsPrefix(t, Typed(delivery.script, delivery.seenCaps))
      BY <2>1, TypedSoFar
    <2> QED
      BY <1>2, <2>1, <2>2 DEF Sending
  <1>3. Faithful(delivery) => Sending
    BY DEF TextInv
  <1> QED
    BY <1>1, <1>2, <1>3 DEF TextInv

\* Where nothing is sent and the delivery goes on or ends unfinished.
LEMMA TextUntouched ==
    ASSUME DeliveryShape, TextInv, target' = target,
           delivery'.order = delivery.order, delivery'.policy = delivery.policy,
           delivery'.seenCaps = delivery.seenCaps,
           delivery.pc \in {"run", "unwind"},
           delivery'.pc \in {"unwind", "exited"},
           delivery'.ending \in {"incomplete", delivery.ending}
    PROVE TextInv'
  <1>1. Faithful(delivery)' = Faithful(delivery)
    BY DEF Faithful
  <1>2. delivery.ending \notin {"refused", "printed"}
    BY DEF TextInv
  <1> QED
    BY <1>1, <1>2 DEF TextInv

LEMMA TextKept ==
    ASSUME DeliveryShape, TextInv, [DeliveryNext]_deliveryVars
    PROVE TextInv'
  <1> USE DEF DeliveryFields
  <1>1. CASE Compile
    <2>1. /\ target' = target /\ target.text = << >>
          /\ delivery'.order = delivery.order /\ delivery'.at = 1
          /\ delivery'.pc \in {"open", "exited"}
          /\ delivery'.pc = "open" => Compiles(delivery.order) /\ delivery'.ending = "none"
          /\ delivery'.ending \in {"none", "refused", "printed"}
          /\ delivery'.ending # "none" => delivery'.pc = "exited"
      BY <1>1 DEF Compile, Exit, DeliveryShape, TextInv
    <2>2. << >> \in Seq(Characters) /\ IsPrefix(<< >>, Asked(delivery.order))
      BY AskedIsText, EmptyIsBeginning DEF DeliveryShape
    <2> QED
      BY <2>1, <2>2 DEF TextInv
  <1>2. CASE Signal
    <2>1. /\ target' = target
          /\ \A field \in DeliveryFields \ {"interrupted"} : delivery'[field] = delivery[field]
      BY <1>2 DEF Signal, DeliveryShape
    <2>2. /\ delivery'.pc = delivery.pc /\ delivery'.order = delivery.order
          /\ delivery'.policy = delivery.policy /\ delivery'.script = delivery.script
          /\ delivery'.at = delivery.at /\ delivery'.seenCaps = delivery.seenCaps
          /\ delivery'.ending = delivery.ending
      BY <2>1
    <2> QED
      BY <2>1, <2>2 DEF TextInv, Faithful, Sending
  <1>3. CASE OpenPort
    <2>1. /\ target' = target /\ target.text = << >> /\ Compiles(delivery.order)
          /\ delivery'.order = delivery.order /\ delivery'.at = 1
          /\ \/ delivery'.pc = "info" /\ delivery'.ending = "none"
             \/ delivery'.pc = "exited" /\ delivery'.ending = "refused"
      BY <1>3 DEF OpenPort, Exit, DeliveryShape, TextInv
    <2>2. << >> \in Seq(Characters) /\ IsPrefix(<< >>, Asked(delivery.order))
      BY AskedIsText, EmptyIsBeginning DEF DeliveryShape
    <2> QED
      BY <2>1, <2>2 DEF TextInv
  <1>4. CASE QueryLocks
    <2>1. /\ target' = target /\ target.text = << >> /\ Compiles(delivery.order)
          /\ delivery.order \in Orders /\ delivery.policy \in Policies
          /\ target.caps \in BOOLEAN
      BY <1>4 DEF QueryLocks, DeliveryShape, TextInv
    <2>2. << >> \in Seq(Characters) /\ IsPrefix(<< >>, Asked(delivery.order))
      BY AskedIsText, EmptyIsBeginning DEF DeliveryShape
    <2>3. CASE delivery' = Exit("refused")
      <3>1. /\ delivery'.order = delivery.order
            /\ delivery'.pc = "exited" /\ delivery'.ending = "refused"
        BY <2>3 DEF Exit, DeliveryShape
      <3> QED
        BY <2>1, <2>2, <3>1 DEF TextInv
    <2>4. CASE delivery' # Exit("refused")
      <3> DEFINE o == delivery.order
                 caps == target.caps
      <3>1. /\ ~Refuses(o, delivery.policy, caps)
            /\ delivery'.pc = "run" /\ delivery'.order = o
            /\ delivery'.policy = delivery.policy
            /\ delivery'.seenCaps = caps /\ delivery'.at = delivery.at
            /\ delivery'.ending = "none"
            /\ delivery'.script = Script(o, Compensates(o, delivery.policy, caps))
        BY <1>4, <2>4 DEF QueryLocks, DeliveryShape, TextInv
      <3>2. ASSUME Faithful(delivery') PROVE Sending'
        <4>1. ~KeysAsked(o) /\ ~(delivery.policy = "Ignore" /\ caps)
          BY <3>1, <3>2 DEF Faithful
        <4>2. delivery'.script = Script(o, caps)
          BY <2>1, <3>1, <4>1, EncodingChosen
        <4>3. /\ Script(o, caps) \in Seq(PlainSteps)
              /\ Typed(Script(o, caps), caps) = Asked(o)
          BY <2>1, <4>1, ScriptTyped
        <4>4. delivery.at = 1
          BY <1>4 DEF QueryLocks, TextInv
        <4>5. /\ Len(Script(o, caps)) \in Nat
              /\ TypedUpTo(Script(o, caps), 0, caps) = << >>
          <5>1. 0 \in 0..Len(Script(o, caps)) /\ Len(Script(o, caps)) \in Nat
            BY <4>3, LenProperties
          <5> QED
            BY <4>3, <5>1, TypedSoFar
        <4> QED
          BY <2>1, <3>1, <4>2, <4>3, <4>4, <4>5 DEF Sending
      <3> QED
        BY <2>1, <2>2, <3>1, <3>2 DEF TextInv
    <2> QED
      BY <2>3, <2>4
  <1>5. CASE RunInterrupted
    <2>1. delivery' = Unwind(delivery, "incomplete") /\ target' = target /\ delivery.pc = "run"
      BY <1>5 DEF RunInterrupted, StopsHere
    <2> QED
      BY <2>1, UnwindFields, TextUntouched DEF DeliveryShape
  <1>6. CASE RunWait
    <2>1. /\ delivery.pc = "run" /\ delivery'.pc = "run" /\ delivery'.order = delivery.order
          /\ delivery'.policy = delivery.policy /\ delivery'.seenCaps = delivery.seenCaps
          /\ delivery'.script = delivery.script /\ delivery'.ending = delivery.ending
          /\ delivery'.at = delivery.at + 1 /\ delivery.at <= Len(delivery.script)
          /\ target' = target
      BY <1>6 DEF RunWait, DeliveryShape
    <2>2. Here.kind = "wait"
      BY <1>6 DEF RunWait
    <2>3. Sending => target.text = TypedUpTo(delivery.script, delivery.at, delivery.seenCaps)
      BY <2>1, <2>2, WaitTypesNothing
    <2> QED
      BY <2>1, <2>3, StepDone
  <1>7. CASE RunSend
    <2>1. /\ delivery.pc = "run" /\ delivery'.pc = "run" /\ delivery'.order = delivery.order
          /\ delivery'.policy = delivery.policy /\ delivery'.seenCaps = delivery.seenCaps
          /\ delivery'.script = delivery.script /\ delivery'.ending = delivery.ending
          /\ delivery'.at = delivery.at + 1 /\ delivery.at <= Len(delivery.script)
      BY <1>7 DEF RunSend, DeliveryShape
    <2>2. Here.kind = "send" /\ target' = Applied(target, Here.report)
      BY <1>7 DEF RunSend
    <2>3. Sending => /\ target'.caps = target.caps
                     /\ target'.text = TypedUpTo(delivery.script, delivery.at, delivery.seenCaps)
      BY <2>1, <2>2, StepArrives
    <2> QED
      BY <2>1, <2>3, StepDone
  <1>8. CASE RunSendFails
    <2>1. /\ delivery.pc = "run" /\ delivery.at <= Len(delivery.script) /\ Here.kind = "send"
          /\ delivery' \in Faulty(delivery, "incomplete")
      BY <1>8 DEF RunSendFails
    <2>2. /\ delivery'.pc = "unwind" /\ delivery'.ending = "incomplete"
          /\ delivery'.order = delivery.order /\ delivery'.policy = delivery.policy
          /\ delivery'.seenCaps = delivery.seenCaps
      BY <2>1, FaultyFields DEF DeliveryShape
    <2>3. CASE target' = target
      BY <2>1, <2>2, <2>3, TextUntouched
    <2>4. CASE target' = Applied(target, Here.report)
      <3>1. Sending => /\ target'.text \in Seq(Characters)
                       /\ IsPrefix(target'.text, Asked(delivery.order))
        BY <2>1, <2>4, StepArrives
      <3>2. Faithful(delivery)' = Faithful(delivery)
        BY <2>2 DEF Faithful
      <3> QED
        BY <2>1, <2>2, <3>1, <3>2 DEF TextInv
    <2> QED
      BY <1>8, <2>3, <2>4 DEF RunSendFails
  <1>9. CASE RunEnds
    <2>1. /\ delivery.pc = "run" /\ delivery.at > Len(delivery.script)
          /\ delivery' = Unwind(delivery, "delivered") /\ target' = target
      BY <1>9 DEF RunEnds
    <2>2. /\ delivery'.pc = "unwind" /\ delivery'.ending = "delivered"
          /\ delivery'.order = delivery.order /\ delivery'.policy = delivery.policy
          /\ delivery'.seenCaps = delivery.seenCaps
      BY <2>1, UnwindFields DEF DeliveryShape
    <2>3. Faithful(delivery)' = Faithful(delivery)
      BY <2>2 DEF Faithful
    <2>4. Sending => target.text = Asked(delivery.order)
      BY <2>1, ScriptDone
    <2> QED
      BY <2>1, <2>2, <2>3, <2>4 DEF TextInv
  <1>10. CASE ReleaseAll
    <2>1. delivery.pc = "unwind"
      BY <1>10 DEF ReleaseAll
    <2>2. /\ delivery'.pc = "exited" /\ delivery'.ending = delivery.ending
          /\ delivery'.order = delivery.order /\ delivery'.policy = delivery.policy
          /\ delivery'.seenCaps = delivery.seenCaps
      BY <1>10 DEF ReleaseAll, GuardDropped, DeliveryShape
    <2>3. CASE target' = target
      BY <2>1, <2>2, <2>3, TextUntouched
    <2>4. CASE target' = Applied(target, Released)
      <3>1. target'.text = target.text \o << >>
        BY ZenonT(30), <2>4, AppliedFields, ReleasedTypesNothing
      <3>2. target.text \in Seq(Characters) => target'.text = target.text
        BY <3>1, ConcatEmptySeq
      <3>3. Faithful(delivery)' = Faithful(delivery)
        BY <2>2 DEF Faithful
      <3> QED
        BY <2>1, <2>2, <3>2, <3>3 DEF TextInv
    <2> QED
      BY <1>10, <2>3, <2>4 DEF ReleaseAll
  <1>11. CASE UNCHANGED deliveryVars
    BY <1>11 DEF deliveryVars, TextInv, Faithful, Sending
  <1> QED
    BY <1>1, <1>2, <1>3, <1>4, <1>5, <1>6, <1>7, <1>8, <1>9, <1>10, <1>11 DEF DeliveryNext

LEMMA TextStarts == DeliveryInit => TextInv
  <1> SUFFICES ASSUME DeliveryInit PROVE TextInv
    OBVIOUS
  <1>1. /\ delivery.pc = "compile" /\ delivery.ending = "none" /\ delivery.at = 1
        /\ delivery.order \in Orders /\ target.text = << >>
    BY DEF DeliveryInit
  <1>2. << >> \in Seq(Characters) /\ IsPrefix(<< >>, Asked(delivery.order))
    BY <1>1, AskedIsText, EmptyIsBeginning
  <1> QED
    BY <1>1, <1>2 DEF TextInv

\* For every layout and all orders: unless the user chose to ignore a CapsLock
\* that is on, the target has a beginning of the text, the whole of it after
\* "delivered", and nothing after a refusal (choose_encoding and run of
\* cli/keys.rs, shift_for of script/compile.rs).
THEOREM TextArrivesAsWritten == DeliverySpec => []TypedAsWritten
  <1>1. TextInv => TypedAsWritten
    BY DEF TextInv, TypedAsWritten, Faithful
  <1> QED
    BY <1>1, DeliveryStarts, DeliveryShapeKept, TextStarts, TextKept, PTL DEF DeliverySpec

-----------------------------------------------------------------------------
(* The screenshot: its fields                                              *)

Picking == {"head", "deadline", "restart"}
Places == Picking \cup {"start", "picked", "encode", "print", "create", "fill", "sync",
                        "rename", "written", "failed"}
Keepable == {"none"} \cup Pictures
Errors == FinalErrors \cup {"none", "Request", "Open", "Write", "WrongSize", "Timeout",
                            "Interrupted"}

Shots == [at: Places, skipped: Nat, discarded: Nat, mismatched: Nat, consecutive: Nat,
          restarted: BOOLEAN, kept: Keepable, error: Errors]

Answers == {"none"} \cup Pictures \cup PassingErrors \cup FinalErrors
Nodes == [open: BOOLEAN, frames: Nat, refusals: Nat, calls: Nat, last: Answers, restarts: Nat]

Files == [target: {"old", "whole"}, temporary: {"absent", "partial", "unsynced", "whole"}]

ShotTypes ==
    /\ order.format \in {"jpeg", "png", "stdout"}
    /\ shot \in Shots /\ node \in Nodes /\ file \in Files

\* The counters and what was kept.
Counted ==
    /\ shot.at \in Picking \cup {"start"} => shot.kept = "none"
    /\ node.frames = shot.skipped + shot.mismatched + (IF shot.kept = "none" THEN 0 ELSE 1)
    /\ shot.discarded = node.refusals
    /\ shot.kept # "none" =>
          /\ node.last = shot.kept
          /\ node.frames > Skip
          /\ shot.kept = "good" \/ order.anySize \/ ~order.known

\* A restart is spent when it is asked for.
RestartedOnce ==
    /\ shot.at = "restart" => shot.restarted = TRUE
    /\ node.restarts = IF shot.restarted /\ shot.at # "restart" THEN 1 ELSE 0

\* The device is open exactly while frames are judged.
OpenWhilePicking == node.open <=> shot.at \in Picking \cup {"picked"}

\* What the two files hold follows from the step of write_atomically.
Staged ==
    /\ shot.at \in {"create", "fill", "sync", "rename", "encode"} => order.format # "stdout"
    /\ shot.at = "print" => order.format = "stdout"
    /\ file.temporary = CASE shot.at = "fill" -> "partial"
                          [] shot.at = "sync" -> "unsynced"
                          [] shot.at = "rename" -> "whole"
                          [] OTHER -> "absent"
    /\ file.target = IF shot.at = "written" /\ order.format # "stdout" THEN "whole" ELSE "old"

ShotInv == ShotTypes /\ Counted /\ RestartedOnce /\ OpenWhilePicking /\ Staged

-----------------------------------------------------------------------------
(* The records                                                             *)

LEMMA ShotUpdates ==
  ASSUME NEW s \in Shots
  PROVE  /\ \A p \in Places : [s EXCEPT !.at = p] \in Shots
         /\ \A n \in Nat : [s EXCEPT !.skipped = n] \in Shots
         /\ \A n \in Nat : [s EXCEPT !.discarded = n] \in Shots
         /\ \A n \in Nat : [s EXCEPT !.mismatched = n] \in Shots
         /\ \A n \in Nat : [s EXCEPT !.consecutive = n] \in Shots
         /\ \A b \in BOOLEAN : [s EXCEPT !.restarted = b] \in Shots
         /\ \A k \in Keepable : [s EXCEPT !.kept = k] \in Shots
         /\ \A e \in Errors : [s EXCEPT !.error = e] \in Shots
  BY DEF Shots

LEMMA NodeUpdates ==
  ASSUME NEW d \in Nodes
  PROVE  /\ \A b \in BOOLEAN : [d EXCEPT !.open = b] \in Nodes
         /\ \A n \in Nat : [d EXCEPT !.frames = n] \in Nodes
         /\ \A n \in Nat : [d EXCEPT !.refusals = n] \in Nodes
         /\ \A n \in Nat : [d EXCEPT !.calls = n] \in Nodes
         /\ \A a \in Answers : [d EXCEPT !.last = a] \in Nodes
         /\ \A n \in Nat : [d EXCEPT !.restarts = n] \in Nodes
  BY DEF Nodes

LEMMA Fields ==
  ASSUME NEW s \in Shots
  PROVE  /\ s.at \in Places /\ s.skipped \in Nat /\ s.discarded \in Nat
         /\ s.mismatched \in Nat /\ s.consecutive \in Nat
         /\ s.restarted \in BOOLEAN /\ s.kept \in Keepable
  BY DEF Shots

\* t differs from s only in the place and the error it gives.
Moved(s, t, place) ==
    /\ t \in Shots /\ t.at = place
    /\ t.kept = s.kept /\ t.skipped = s.skipped /\ t.mismatched = s.mismatched
    /\ t.discarded = s.discarded /\ t.restarted = s.restarted

LEMMA MovesOn ==
  ASSUME NEW s \in Shots, NEW p \in Places
  PROVE  Moved(s, [s EXCEPT !.at = p], p)
  BY ShotUpdates DEF Moved, Shots

LEMMA EndsAt ==
  ASSUME NEW s \in Shots, NEW e \in Errors, NEW p \in Places
  PROVE  Moved(s, [s EXCEPT !.at = p, !.error = e], p)
  <1> DEFINE m == [s EXCEPT !.at = p]
  <1>1. Moved(s, m, p)
    BY MovesOn
  <1> HIDE DEF m
  <1>2. Moved(s, [m EXCEPT !.error = e], p)
    BY <1>1, ShotUpdates DEF Moved, Shots
  <1> QED
    BY <1>2 DEF m

LEMMA PlacesAndErrors ==
  /\ {"head", "deadline", "restart", "start", "picked", "encode", "print", "create", "fill",
      "sync", "rename", "written", "failed"} \subseteq Places
  /\ {"none", "Request", "Open", "Write", "WrongSize", "Timeout", "Interrupted",
      "Disconnected", "Config"} \subseteq Errors
  BY DEF Places, Picking, Errors, FinalErrors

LEMMA EndedMoves ==
  ASSUME NEW s \in Shots, NEW e \in Errors
  PROVE  Moved(s, Ended(s, e), "picked") /\ Moved(s, Failed(s, e), "failed")
  BY EndsAt, PlacesAndErrors DEF Ended, Failed

-----------------------------------------------------------------------------
LEMMA ShotInit == ScreenshotInit => ShotInv
  <1> SUFFICES ASSUME ScreenshotInit PROVE ShotInv
    OBVIOUS
  <1>1. shot \in Shots
    BY PlacesAndErrors DEF ScreenshotInit, Shots, Keepable
  <1>2. node \in Nodes /\ file \in Files /\ order.format \in {"jpeg", "png", "stdout"}
    BY DEF ScreenshotInit, Nodes, Files, Answers
  <1>3. Counted /\ RestartedOnce /\ OpenWhilePicking /\ Staged
    BY DEF ScreenshotInit, Counted, RestartedOnce, OpenWhilePicking, Staged, Picking
  <1> QED
    BY <1>1, <1>2, <1>3 DEF ShotInv, ShotTypes

\* A mismatch moves one frame into its count and keeps none.
LEMMA MismatchCounts ==
  ASSUME NEW s \in Shots
  PROVE  LET t == Mismatch(s) IN
         /\ t \in Shots /\ t.at \in {"deadline", "restart", "picked"}
         /\ t.mismatched = s.mismatched + 1
         /\ t.skipped = s.skipped /\ t.kept = s.kept /\ t.discarded = s.discarded
         /\ IF t.at = "restart" THEN ~s.restarted /\ t.restarted = TRUE
            ELSE t.restarted = s.restarted
  <1> DEFINE one == [s EXCEPT !.mismatched = s.mismatched + 1]
             counted == [s EXCEPT !.mismatched = @ + 1, !.consecutive = @ + 1]
  <1>1. one \in Shots
    BY Fields, ShotUpdates
  <1>2. counted \in Shots
    <2>1. one.consecutive = s.consecutive
      BY DEF Shots
    <2>2. counted = [one EXCEPT !.consecutive = one.consecutive + 1]
      BY <2>1
    <2> HIDE DEF one
    <2> QED
      BY <1>1, <2>2, Fields, ShotUpdates
  <1>3. /\ counted.mismatched = s.mismatched + 1 /\ counted.skipped = s.skipped
        /\ counted.kept = s.kept /\ counted.discarded = s.discarded
        /\ counted.restarted = s.restarted
    BY DEF Shots
  <1>4. \/ Mismatch(s) = Ended(counted, "WrongSize")
        \/ Mismatch(s) = [counted EXCEPT !.at = "deadline"]
        \/ /\ ~s.restarted
           /\ Mismatch(s) =
                 [counted EXCEPT !.at = "restart", !.restarted = TRUE, !.consecutive = 0]
    BY DEF Mismatch
  <1> HIDE DEF counted
  <1>5. CASE Mismatch(s) = Ended(counted, "WrongSize")
    <2>1. Moved(counted, Ended(counted, "WrongSize"), "picked")
      BY <1>2, EndedMoves, PlacesAndErrors
    <2> QED
      BY <1>3, <1>5, <2>1 DEF Moved
  <1>6. CASE Mismatch(s) = [counted EXCEPT !.at = "deadline"]
    <2>1. Moved(counted, [counted EXCEPT !.at = "deadline"], "deadline")
      BY <1>2, MovesOn, PlacesAndErrors
    <2> QED
      BY <1>3, <1>6, <2>1 DEF Moved
  <1>7. CASE /\ ~s.restarted
             /\ Mismatch(s) =
                   [counted EXCEPT !.at = "restart", !.restarted = TRUE, !.consecutive = 0]
    <2> DEFINE m == [counted EXCEPT !.at = "restart"]
               r == [m EXCEPT !.restarted = TRUE]
    <2>1. m \in Shots /\ Moved(counted, m, "restart")
      BY <1>2, MovesOn, PlacesAndErrors DEF Moved
    <2>2. Mismatch(s) = [r EXCEPT !.consecutive = 0]
      BY <1>7
    <2> HIDE DEF m
    <2>3. r \in Shots
      BY <2>1, ShotUpdates
    <2>4. /\ r.restarted = TRUE /\ r.at = m.at /\ r.mismatched = m.mismatched
          /\ r.skipped = m.skipped /\ r.kept = m.kept /\ r.discarded = m.discarded
      BY <2>1 DEF Shots
    <2> HIDE DEF r
    <2>5. [r EXCEPT !.consecutive = 0] \in Shots
      BY <2>3, ShotUpdates
    <2>6. LET t == [r EXCEPT !.consecutive = 0] IN
          /\ t.restarted = r.restarted /\ t.at = r.at /\ t.mismatched = r.mismatched
          /\ t.skipped = r.skipped /\ t.kept = r.kept /\ t.discarded = r.discarded
      BY <2>3 DEF Shots
    <2> QED
      BY <1>3, <1>7, <2>1, <2>2, <2>4, <2>5, <2>6 DEF Moved
  <1> QED
    BY <1>4, <1>5, <1>6, <1>7

\* One frame is judged: it is counted once, and kept only as ordered.
LEMMA JudgedKeeps ==
  ASSUME Skip \in Nat, shot \in Shots, Counted, shot.at = "head", NEW frame \in Pictures,
         NEW after, after = Judged(shot, frame)
  PROVE  /\ after \in Shots
         /\ after.at \in {"deadline", "restart", "picked"}
         /\ after.discarded = shot.discarded
         /\ after.at \in {"deadline", "restart"} => after.kept = "none"
         /\ node.frames + 1 =
               after.skipped + after.mismatched + (IF after.kept = "none" THEN 0 ELSE 1)
         /\ after.kept # "none" =>
               /\ after.kept = frame
               /\ node.frames >= Skip
               /\ frame = "good" \/ order.anySize \/ ~order.known
         /\ IF after.at = "restart" THEN ~shot.restarted /\ after.restarted = TRUE
            ELSE after.restarted = shot.restarted
  <1>1. /\ shot.kept = "none" /\ shot.skipped \in Nat /\ shot.mismatched \in Nat
        /\ node.frames = shot.skipped + shot.mismatched
    BY Fields DEF Counted, Picking
  <1>2. CASE shot.skipped < Skip \/ frame \in Unkept
    <2> DEFINE m == [shot EXCEPT !.at = "deadline"]
    <2>1. Moved(shot, m, "deadline")
      BY MovesOn, PlacesAndErrors
    <2>2. after = [m EXCEPT !.skipped = shot.skipped + 1]
      BY <1>2 DEF Judged, Dropped
    <2> HIDE DEF m
    <2>3. after \in Shots
      BY <1>1, <2>1, <2>2, ShotUpdates DEF Moved
    <2>4. /\ after.skipped = shot.skipped + 1 /\ after.at = "deadline"
          /\ after.mismatched = shot.mismatched /\ after.kept = "none"
          /\ after.discarded = shot.discarded /\ after.restarted = shot.restarted
      BY <1>1, <2>1, <2>2 DEF Moved, Shots
    <2> QED
      BY <1>1, <2>3, <2>4
  <1>3. CASE /\ ~(shot.skipped < Skip \/ frame \in Unkept)
             /\ frame = "other size" /\ order.known /\ ~order.anySize
    <2>1. after = Mismatch(shot)
      BY <1>3 DEF Judged
    <2>2. /\ after \in Shots /\ after.at \in {"deadline", "restart", "picked"}
          /\ after.mismatched = shot.mismatched + 1
          /\ after.skipped = shot.skipped /\ after.kept = "none"
          /\ after.discarded = shot.discarded
          /\ IF after.at = "restart" THEN ~shot.restarted /\ after.restarted = TRUE
             ELSE after.restarted = shot.restarted
      BY ZenonT(30), <1>1, <2>1, MismatchCounts
    <2>3. node.frames + 1 = after.skipped + after.mismatched + 0
      BY <1>1, <2>2
    <2> QED
      BY <2>2, <2>3
  <1>4. CASE /\ ~(shot.skipped < Skip \/ frame \in Unkept)
             /\ ~(frame = "other size" /\ order.known /\ ~order.anySize)
    <2> DEFINE m == [shot EXCEPT !.at = "picked"]
    <2>1. Moved(shot, m, "picked")
      BY MovesOn, PlacesAndErrors
    <2>2. after = [m EXCEPT !.kept = frame]
      BY <1>4 DEF Judged
    <2> HIDE DEF m
    <2>3. frame # "none" /\ node.frames >= Skip /\ frame \in Keepable
          /\ (frame = "good" \/ order.anySize \/ ~order.known)
      <3>1. frame # "none" /\ frame \in Keepable
        BY DEF Pictures, Unkept, Keepable
      <3>2. node.frames >= Skip
        <4>1. ~(shot.skipped < Skip)
          BY <1>4
        <4> QED
          BY <1>1, <4>1
      <3>3. frame = "good" \/ order.anySize \/ ~order.known
        BY <1>4 DEF Pictures
      <3> QED
        BY <3>1, <3>2, <3>3
    <2>4. after \in Shots
      BY <2>1, <2>2, <2>3, ShotUpdates DEF Moved
    <2>5. /\ after.kept = frame /\ after.at = "picked" /\ after.skipped = shot.skipped
          /\ after.mismatched = shot.mismatched
          /\ after.discarded = shot.discarded /\ after.restarted = shot.restarted
      BY <2>1, <2>2 DEF Moved, Shots
    <2> QED
      BY <1>1, <2>3, <2>4, <2>5
  <1> QED
    BY <1>2, <1>3, <1>4

\* A step that only moves the attempt on, out of which nothing is kept anew.
LEMMA MovedKeeps ==
  ASSUME ShotInv, NEW p \in Places, Moved(shot, shot', p),
         UNCHANGED <<order, node>>, p # "start", p \in Picking => shot.at \in Picking,
         p = "restart" <=> shot.at = "restart"
  PROVE  shot' \in Shots /\ Counted' /\ RestartedOnce'
  BY DEF Moved, ShotInv, Counted, RestartedOnce, Picking

LEMMA NextFrameKeeps ==
  ASSUME Skip \in Nat
  PROVE  ShotInv /\ PickNext => ShotInv'
  <1> SUFFICES ASSUME ShotInv, PickNext PROVE ShotInv'
    OBVIOUS
  <1>1. /\ shot.at = "head" /\ shot.kept = "none" /\ UNCHANGED <<order, file>>
        /\ shot \in Shots /\ node \in Nodes /\ Counted /\ file \in Files
    BY DEF PickNext, ShotInv, ShotTypes, Counted, Picking
  <1>2. PICK answer \in Pictures \cup PassingErrors \cup FinalErrors :
          /\ node' = [node EXCEPT !.calls = @ + 1, !.last = answer,
                         !.frames = IF answer \in Pictures THEN @ + 1 ELSE @,
                         !.refusals = IF answer = "BadFrame" THEN @ + 1 ELSE @]
          /\ shot' = CASE answer \in Pictures -> Judged(shot, answer)
                       [] answer \in PassingErrors -> Refused(shot, answer)
                       [] answer \in FinalErrors -> Ended(shot, answer)
    BY DEF PickNext
  <1>3. /\ node' \in Nodes /\ node'.last = answer
        /\ node'.frames = IF answer \in Pictures THEN node.frames + 1 ELSE node.frames
        /\ node'.refusals = IF answer = "BadFrame" THEN node.refusals + 1 ELSE node.refusals
        /\ node'.restarts = node.restarts /\ node'.open = node.open
    <2> DEFINE frames == IF answer \in Pictures THEN node.frames + 1 ELSE node.frames
               refusals == IF answer = "BadFrame" THEN node.refusals + 1 ELSE node.refusals
               a == [node EXCEPT !.calls = node.calls + 1]
               b == [a EXCEPT !.last = answer]
               c == [b EXCEPT !.frames = frames]
    <2>1. /\ node.calls + 1 \in Nat /\ answer \in Answers
          /\ frames \in Nat /\ refusals \in Nat
      BY <1>1 DEF Nodes, Answers
    <2>2. node' = [c EXCEPT !.refusals = refusals]
      BY <1>2
    <2> HIDE DEF frames, refusals
    <2>3. a \in Nodes /\ a.restarts = node.restarts /\ a.open = node.open
      BY <1>1, <2>1, NodeUpdates DEF Nodes
    <2> HIDE DEF a
    <2>4. b \in Nodes /\ b.last = answer /\ b.restarts = a.restarts /\ b.open = a.open
      BY <2>1, <2>3, NodeUpdates DEF Nodes
    <2> HIDE DEF b
    <2>5. /\ c \in Nodes /\ c.last = answer /\ c.frames = frames
          /\ c.restarts = b.restarts /\ c.open = b.open
      BY <2>1, <2>4, NodeUpdates DEF Nodes
    <2> HIDE DEF c
    <2>6. /\ node' \in Nodes /\ node'.last = answer /\ node'.frames = frames
          /\ node'.refusals = refusals
          /\ node'.restarts = c.restarts /\ node'.open = c.open
      BY <2>1, <2>2, <2>5, NodeUpdates DEF Nodes
    <2> QED
      BY <2>3, <2>4, <2>5, <2>6 DEF frames, refusals
  <1> SUFFICES
         /\ shot' \in Shots /\ shot'.at \in {"deadline", "restart", "picked"}
         /\ Counted' /\ RestartedOnce'
    BY <1>1, <1>3 DEF ShotInv, ShotTypes, OpenWhilePicking, Staged, Picking
  <1>4. node.frames \in Nat /\ node.refusals \in Nat /\ shot.discarded = node.refusals
        /\ node.restarts = IF shot.restarted THEN 1 ELSE 0
    BY <1>1 DEF Nodes, Counted, ShotInv, RestartedOnce
  <1>5. CASE answer \in Pictures
    <2>1. answer # "BadFrame" /\ shot' = Judged(shot, answer)
      <3>1. answer \notin PassingErrors /\ answer \notin FinalErrors /\ answer # "BadFrame"
        BY <1>5 DEF Pictures, Unkept, PassingErrors, FinalErrors
      <3> QED
        BY <1>2, <1>5, <3>1
    <2>2. /\ shot' \in Shots
          /\ shot'.at \in {"deadline", "restart", "picked"}
          /\ shot'.discarded = shot.discarded
          /\ shot'.at \in {"deadline", "restart"} => shot'.kept = "none"
          /\ node.frames + 1 =
                shot'.skipped + shot'.mismatched + (IF shot'.kept = "none" THEN 0 ELSE 1)
          /\ shot'.kept # "none" =>
                /\ shot'.kept = answer
                /\ node.frames >= Skip
                /\ answer = "good" \/ order.anySize \/ ~order.known
          /\ IF shot'.at = "restart" THEN ~shot.restarted /\ shot'.restarted = TRUE
             ELSE shot'.restarted = shot.restarted
      BY <1>1, <1>5, <2>1, JudgedKeeps
    <2>3. node'.frames = node.frames + 1 /\ node'.refusals = node.refusals
          /\ node'.last = answer
      BY <1>3, <1>5, <2>1
    <2>4. Counted'
      BY <1>1, <1>4, <2>2, <2>3 DEF Counted, Picking
    <2>5. RestartedOnce'
      BY <1>3, <1>4, <2>2 DEF RestartedOnce
    <2> QED
      BY <2>2, <2>4, <2>5
  <1>6. CASE answer \in PassingErrors
    <2>1. answer \notin Pictures /\ answer \notin FinalErrors
      BY <1>6 DEF Pictures, Unkept, PassingErrors, FinalErrors
    <2> DEFINE m == [shot EXCEPT !.at = "deadline"]
               n == IF answer = "BadFrame" THEN shot.discarded + 1 ELSE shot.discarded
    <2>2. Moved(shot, m, "deadline") /\ n \in Nat /\ n = node'.refusals
      BY <1>1, <1>3, <1>4, MovesOn, PlacesAndErrors
    <2>3. shot' = [m EXCEPT !.discarded = n]
      BY <1>2, <1>6, <2>1 DEF Refused
    <2> HIDE DEF m, n
    <2>4. shot' \in Shots /\ shot'.discarded = n
      BY <2>2, <2>3, ShotUpdates DEF Moved, Shots
    <2>5. /\ shot'.at = m.at /\ shot'.kept = m.kept /\ shot'.skipped = m.skipped
          /\ shot'.mismatched = m.mismatched /\ shot'.restarted = m.restarted
      BY <2>2, <2>3 DEF Moved, Shots
    <2>6. Counted'
      BY <1>1, <1>3, <2>1, <2>2, <2>4, <2>5 DEF Counted, Moved
    <2>7. RestartedOnce'
      BY <1>3, <1>4, <2>2, <2>5 DEF RestartedOnce, Moved
    <2> QED
      BY <2>2, <2>4, <2>5, <2>6, <2>7 DEF Moved
  <1>7. CASE answer \in FinalErrors
    <2>1. /\ answer \notin Pictures /\ answer \notin PassingErrors /\ answer # "BadFrame"
          /\ answer \in Errors
      BY <1>7 DEF Pictures, Unkept, PassingErrors, FinalErrors, Errors
    <2>2. Moved(shot, shot', "picked")
      BY <1>1, <1>2, <1>7, <2>1, EndedMoves
    <2>3. Counted' /\ RestartedOnce'
      BY <1>1, <1>3, <1>4, <2>1, <2>2 DEF Counted, RestartedOnce, Moved
    <2> QED
      BY <2>2, <2>3 DEF Moved
  <1> QED
    BY <1>5, <1>6, <1>7

\* A shot moves on by one place while the device stays as it is.
LEMMA QuietStep ==
  ASSUME ShotInv, NEW p \in Places, Moved(shot, shot', p), UNCHANGED <<order, node>>,
         p # "start", p \in Picking => shot.at \in Picking,
         p # "restart", shot.at # "restart",
         p \in Picking \cup {"picked"} <=> shot.at \in Picking \cup {"picked"},
         file' \in Files, Staged'
  PROVE  ShotInv'
  <1>1. shot' \in Shots /\ Counted' /\ RestartedOnce'
    BY MovedKeeps
  <1>2. OpenWhilePicking'
    BY DEF ShotInv, OpenWhilePicking, Moved
  <1> QED
    BY <1>1, <1>2 DEF ShotInv, ShotTypes

LEMMA ShotStep ==
  ASSUME Skip \in Nat
  PROVE  ShotInv /\ [ScreenshotNext]_screenshotVars => ShotInv'
  <1> SUFFICES ASSUME ShotInv, [ScreenshotNext]_screenshotVars PROVE ShotInv'
    OBVIOUS
  <1> USE PlacesAndErrors
  <1>1. shot \in Shots /\ node \in Nodes /\ file \in Files /\ Staged
    BY DEF ShotInv, ShotTypes
  <1>2. CASE OpenNode
    <2>1. shot.at = "start" /\ UNCHANGED <<order, file>>
      BY <1>2 DEF OpenNode
    <2>2. CASE UNCHANGED node /\ Moved(shot, shot', "failed")
      <3>1. Staged'
        BY <1>1, <2>1, <2>2 DEF Staged, Moved
      <3> QED
        BY <1>1, <2>1, <2>2, <3>1, QuietStep DEF Picking
    <2>3. CASE Moved(shot, shot', "head") /\ node' = [node EXCEPT !.open = TRUE]
      <3>1. /\ node' \in Nodes /\ node'.open = TRUE /\ node'.frames = node.frames
            /\ node'.refusals = node.refusals /\ node'.restarts = node.restarts
        BY <1>1, <2>3, NodeUpdates DEF Nodes
      <3>2. Counted' /\ RestartedOnce'
        BY <2>1, <2>3, <3>1 DEF ShotInv, Counted, RestartedOnce, Moved, Picking
      <3>3. OpenWhilePicking' /\ Staged'
        BY <1>1, <2>1, <2>3, <3>1 DEF OpenWhilePicking, Staged, Moved, Picking
      <3> QED
        BY <1>1, <2>1, <2>3, <3>1, <3>2, <3>3 DEF ShotInv, ShotTypes, Moved
    <2>4. \/ UNCHANGED node /\ shot' = Failed(shot, "Request")
          \/ UNCHANGED node /\ shot' = Failed(shot, "Open")
          \/ shot' = [shot EXCEPT !.at = "head"] /\ node' = [node EXCEPT !.open = TRUE]
      BY <1>2 DEF OpenNode
    <2> QED
      BY <1>1, <2>2, <2>3, <2>4, EndedMoves, MovesOn
  <1>3. CASE UNCHANGED <<order, shot, node, file>>
    BY <1>3 DEF ShotInv, ShotTypes, Counted, RestartedOnce, OpenWhilePicking, Staged
  <1>4. CASE PickNext
    BY <1>4, NextFrameKeeps
  <1>5. CASE Restart
    <2>1. shot.at = "restart" /\ UNCHANGED <<order, file>>
          /\ node' = [node EXCEPT !.restarts = @ + 1]
      BY <1>5 DEF Restart
    <2>2. PICK p \in {"deadline", "picked"} : Moved(shot, shot', p)
      BY <1>1, <1>5, MovesOn, EndedMoves DEF Restart
    <2>3. /\ node' \in Nodes /\ node'.open = node.open /\ node'.frames = node.frames
          /\ node'.refusals = node.refusals /\ node'.restarts = node.restarts + 1
      BY <1>1, <2>1, NodeUpdates DEF Nodes
    <2>4. shot.restarted = TRUE /\ node.restarts = 0
      BY <1>1, <2>1 DEF ShotInv, RestartedOnce
    <2>5. Counted' /\ RestartedOnce'
      BY <2>1, <2>2, <2>3, <2>4 DEF ShotInv, Counted, RestartedOnce, Moved, Picking
    <2>6. OpenWhilePicking' /\ Staged'
      BY <1>1, <2>1, <2>2, <2>3 DEF ShotInv, OpenWhilePicking, Staged, Moved, Picking
    <2> QED
      BY <1>1, <2>1, <2>2, <2>3, <2>5, <2>6 DEF ShotInv, ShotTypes, Moved
  <1>6. CASE CheckDeadline \/ SeeInterrupt
    <2>1. shot.at \in {"deadline", "head"} /\ UNCHANGED <<order, node, file>>
      BY <1>6 DEF CheckDeadline, SeeInterrupt
    <2>2. PICK p \in {"head", "picked"} : Moved(shot, shot', p)
      BY <1>1, <1>6, MovesOn, EndedMoves DEF CheckDeadline, SeeInterrupt
    <2>3. Staged'
      BY <1>1, <2>1, <2>2 DEF Staged, Moved
    <2> QED
      BY <1>1, <2>1, <2>2, <2>3, QuietStep DEF Picking
  <1>7. CASE ReleaseNode
    <2>1. shot.at = "picked" /\ UNCHANGED <<order, file>>
          /\ node' = [node EXCEPT !.open = FALSE]
      BY <1>7 DEF ReleaseNode
    <2>2. PICK p \in {"failed", "create", "encode", "print"} :
             /\ Moved(shot, shot', p)
             /\ p \in {"create", "encode"} => order.format # "stdout"
             /\ p = "print" => order.format = "stdout"
      <3> DEFINE p == IF shot.error # "none" THEN "failed"
                      ELSE [jpeg |-> "create", png |-> "encode",
                            stdout |-> "print"][order.format]
      <3>1. order.format \in {"jpeg", "png", "stdout"}
        BY DEF ShotInv, ShotTypes
      <3>2. p \in {"failed", "create", "encode", "print"}
            /\ (p \in {"create", "encode"} => order.format # "stdout")
            /\ (p = "print" => order.format = "stdout")
        BY <3>1
      <3>3. shot' = [shot EXCEPT !.at = p]
        BY <1>7 DEF ReleaseNode
      <3> HIDE DEF p
      <3> QED
        BY <1>1, <3>2, <3>3, MovesOn
    <2>3. /\ node' \in Nodes /\ node'.open = FALSE /\ node'.frames = node.frames
          /\ node'.refusals = node.refusals /\ node'.restarts = node.restarts
          /\ node'.last = node.last
      BY <1>1, <2>1, NodeUpdates DEF Nodes
    <2>4. Counted' /\ RestartedOnce'
      BY <2>1, <2>2, <2>3 DEF ShotInv, Counted, RestartedOnce, Moved, Picking
    <2>5. OpenWhilePicking' /\ Staged'
      BY <1>1, <2>1, <2>2, <2>3 DEF OpenWhilePicking, Staged, Moved, Picking
    <2> QED
      BY <1>1, <2>1, <2>2, <2>3, <2>4, <2>5 DEF ShotInv, ShotTypes, Moved
  <1>8. CASE Convert
    <2>1. shot.at \in {"encode", "print"} /\ UNCHANGED <<order, node, file>>
      BY <1>8 DEF Convert
    <2>2. \/ Moved(shot, shot', "failed")
          \/ shot.at = "encode" /\ Moved(shot, shot', "create")
          \/ shot.at = "print" /\ Moved(shot, shot', "written")
      BY <1>1, <1>8, <2>1, MovesOn, EndedMoves DEF Convert
    <2>3. Staged'
      BY <1>1, <2>1, <2>2 DEF Staged, Moved
    <2> QED
      BY <1>1, <2>1, <2>2, <2>3, QuietStep DEF Picking
  <1>9. CASE SaveFails
    <2>1. /\ shot.at \in {"create", "fill", "sync", "rename"} /\ UNCHANGED <<order, node>>
          /\ Moved(shot, shot', "failed") /\ file' = [file EXCEPT !.temporary = "absent"]
      BY <1>1, <1>9, EndedMoves DEF SaveFails
    <2>2. file' \in Files /\ file'.temporary = "absent" /\ file'.target = file.target
      BY <1>1, <2>1 DEF Files
    <2>3. Staged'
      BY <1>1, <2>1, <2>2 DEF Staged, Moved
    <2> QED
      BY <1>1, <2>1, <2>2, <2>3, QuietStep DEF Picking
  <1>10. ASSUME NEW from \in {"create", "fill", "sync"}, NEW to \in {"fill", "sync", "rename"},
                NEW left \in {"partial", "unsynced", "whole"},
                WriteStep(from, to, [file EXCEPT !.temporary = left]),
                <<to, left>> \in {<<"fill", "partial">>, <<"sync", "unsynced">>,
                                 <<"rename", "whole">>}
         PROVE  ShotInv'
    <2>1. shot.at = from /\ UNCHANGED <<order, node>> /\ Moved(shot, shot', to)
      BY <1>1, <1>10, MovesOn DEF WriteStep
    <2>2. file' \in Files /\ file'.temporary = left /\ file'.target = file.target
      BY <1>1, <1>10 DEF Files, WriteStep
    <2>3. Staged'
      BY <1>1, <1>10, <2>1, <2>2 DEF Staged, Moved
    <2> QED
      BY <1>1, <2>1, <2>2, <2>3, QuietStep DEF Picking
  <1>11. CASE Create \/ FillTemporary \/ Sync
    BY <1>10, <1>11 DEF Create, FillTemporary, Sync
  <1>12. CASE Rename
    <2>1. shot.at = "rename" /\ UNCHANGED <<order, node>> /\ Moved(shot, shot', "written")
          /\ file' = [target |-> file.temporary, temporary |-> "absent"]
      BY <1>1, <1>12, MovesOn DEF Rename, WriteStep
    <2>2. file.temporary = "whole" /\ order.format # "stdout"
      BY <1>1, <2>1 DEF Staged
    <2>3. file' \in Files /\ file'.temporary = "absent" /\ file'.target = "whole"
      BY <2>1, <2>2 DEF Files
    <2>4. Staged'
      BY <2>1, <2>2, <2>3 DEF Staged, Moved
    <2> QED
      BY <1>1, <2>1, <2>3, <2>4, QuietStep DEF Picking
  <1> QED
    BY <1>2, <1>3, <1>4, <1>5, <1>6, <1>7, <1>8, <1>9, <1>11, <1>12
    DEF ScreenshotNext, Interrupt, DeadlinePasses, screenshotVars

\* A shot is what was asked for, accounted for, and written whole or not at
\* all (cli/shot.rs, pick_frame and write_atomically).
THEOREM ShotsAreHonest ==
  ASSUME Skip \in Nat
  PROVE  ScreenshotSpec => []ShotHonest
  <1>1. ShotInv => ShotHonest
    <2> SUFFICES ASSUME ShotInv PROVE ShotHonest
      OBVIOUS
    <2>1. /\ file.temporary # "absent" => shot.at \in {"fill", "sync", "rename"}
          /\ shot.at \in {"written", "failed"} => file.temporary = "absent"
      BY DEF ShotInv, Staged
    <2>2. file.temporary # "absent" \/ shot.at \in Ends => ~node.open
      BY <2>1 DEF ShotInv, OpenWhilePicking, Picking, Ends
    <2>3. node.restarts <= 1
      BY DEF ShotInv, RestartedOnce
    <2>4. /\ file.target \in {"old", "whole"}
          /\ shot.at \in Ends =>
                file.target = "whole" <=> (shot.at = "written" /\ order.format # "stdout")
      BY DEF ShotInv, Staged, Ends
    <2> QED
      BY <2>1, <2>2, <2>3, <2>4 DEF ShotInv, Counted, ShotHonest, Ends
  <1> QED
    BY <1>1, ShotInit, ShotStep, PTL DEF ScreenshotSpec

=============================================================================
