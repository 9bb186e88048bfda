---------------------------- MODULE ImageBootProofs ----------------------------
(***************************************************************************)
(* What both boots keep for any images, environments, settings files and   *)
(* any number of stops, failures and edits: the type invariant, that       *)
(* systemd takes over with the units and the values this container's       *)
(* environment asks for, that the controller starts after its hooks, and   *)
(* that nothing the boot writes changes what a setting reads as.           *)
(*                                                                         *)
(* The last of these rests on what merging one key does to a file of any   *)
(* length, and that is proved here as well, of the parser's operators.     *)
(***************************************************************************)
EXTENDS ImageBoot, SequenceTheorems, WellFoundedInduction, TLAPS

-----------------------------------------------------------------------------
(* Numbers, and pieces of sequences.                                       *)
(* Induction is over a set of numbers, which a prover can be given.        *)

\* A set of numbers has a least one ...
LEMMA LeastIn == ASSUME NEW T \in SUBSET Nat, T # {} PROVE \E n \in T : \A m \in T : n <= m
  <1> DEFINE Below == OpToRel(<, Nat)
  <1>1. IsWellFoundedOn(Below, Nat)
    BY NatLessThanWellFounded
  <1>2. PICK n \in T : \A m \in T : <<m, n>> \notin Below
    <2> HIDE DEF Below
    <2> QED BY <1>1, WFMin
  <1>3. ASSUME NEW m \in T PROVE n <= m
    <2>1. ~(m < n) BY <1>2, <1>3 DEF OpToRel
    <2> QED BY <2>1
  <1> QED BY <1>3

\* ... which is the one Min chooses, and Max the greatest of a bounded one.
LEMMA MinIs == ASSUME NEW T \in SUBSET Nat, T # {} PROVE Min(T) \in T /\ \A m \in T : Min(T) <= m
  BY LeastIn DEF Min

LEMMA MaxIs ==
  ASSUME NEW N \in Nat, NEW T \in SUBSET (0..N), T # {}
  PROVE Max(T) \in T /\ \A m \in T : Max(T) >= m
  <1> DEFINE Left == {N - t : t \in T}
  <1>1. PICK n \in Left : \A m \in Left : n <= m
    <2>0. \A t \in T : N - t \in Nat OBVIOUS
    <2>1. Left \in SUBSET Nat /\ Left # {} BY <2>0
    <2> HIDE DEF Left
    <2> QED BY <2>1, LeastIn
  <1>2. PICK t \in T : n = N - t BY <1>1
  <1>3. \A s \in T : t >= s
    <2> TAKE s \in T
    <2>1. N - s \in Left OBVIOUS
    <2>2. N - t <= N - s BY <1>1, <1>2, <2>1
    <2> QED BY <2>2
  <1> QED BY <1>3 DEF Max

\* Induction, over a set that is given.
LEMMA UpTo ==
  ASSUME NEW S, 0 \in S, \A n \in Nat : n \in S => n + 1 \in S
  PROVE  Nat \subseteq S
  <1> DEFINE Missing == Nat \ S
  <1> SUFFICES ASSUME Missing # {} PROVE FALSE OBVIOUS
  <1>1. PICK n \in Missing : \A m \in Missing : n <= m
    BY LeastIn
  <1>2. n # 0 /\ n - 1 \in Nat BY <1>1
  <1>3. n - 1 \in S BY <1>1, <1>2
  <1> QED BY <1>1, <1>2, <1>3

\* The pieces up to the i-th put together, as FlattenSeq defines it: a function that
\* solves that definition exists.
Flat(ss) == CHOOSE f : f = [i \in 1..Len(ss) |-> IF i = 1 THEN ss[i] ELSE f[i-1] \o ss[i]]

LEMMA FlatIs ==
  ASSUME NEW ss, Len(ss) \in Nat
  PROVE  Flat(ss) = [i \in 1..Len(ss) |-> IF i = 1 THEN ss[i] ELSE Flat(ss)[i-1] \o ss[i]]
  <1> DEFINE Step(g, i) == IF i = 1 THEN ss[i] ELSE g[i-1] \o ss[i]
             Solves(g, n) == \A i \in 1..n : g[i] = Step(g, i)
             S == {n \in Nat : \E g : Solves(g, n)}
  <1>1. 0 \in S
    OBVIOUS
  <1>2. ASSUME NEW n \in Nat, n \in S PROVE n + 1 \in S
    <2>1. PICK g : Solves(g, n) BY <1>2
    <2> DEFINE h == [i \in 1..(n+1) |-> Step(g, i)]
    <2>2. ASSUME NEW i \in 1..(n+1) PROVE h[i] = Step(g, i) /\ (i <= n => h[i] = g[i])
      BY <2>1
    <2>3. ASSUME NEW i \in 1..(n+1) PROVE h[i] = Step(h, i)
      <3>1. i # 1 => i - 1 \in 1..(n+1) /\ i - 1 <= n OBVIOUS
      <3>2. i # 1 => h[i-1] = g[i-1] BY <2>2, <3>1
      <3> HIDE DEF h
      <3> QED BY <2>2, <3>2
    <2>4. Solves(h, n + 1) BY <2>3
    <2> HIDE DEF Solves, h
    <2> QED BY <2>4
  <1>3. PICK g : Solves(g, Len(ss))
    <2> HIDE DEF S, Solves
    <2>1. Len(ss) \in S BY <1>1, <1>2, UpTo
    <2> QED BY <2>1 DEF S
  <1> DEFINE f == [i \in 1..Len(ss) |-> g[i]]
  <1>4. f = [i \in 1..Len(ss) |-> Step(f, i)]
    <2>1. ASSUME NEW i \in 1..Len(ss) PROVE g[i] = Step(f, i)
      <3>1. i # 1 => f[i-1] = g[i-1] OBVIOUS
      <3> HIDE DEF f
      <3> QED BY <1>3, <3>1
    <2> QED BY <2>1
  <1> HIDE DEF f
  <1> QED BY <1>4 DEF Flat

\* The same, piece by piece.
LEMMA FlatStep ==
  ASSUME NEW ss, Len(ss) \in Nat
  PROVE  \A i \in 1..Len(ss) : Flat(ss)[i] = IF i = 1 THEN ss[i] ELSE Flat(ss)[i-1] \o ss[i]
  <1> DEFINE f == Flat(ss)
  <1>1. f = [i \in 1..Len(ss) |-> IF i = 1 THEN ss[i] ELSE f[i-1] \o ss[i]] BY FlatIs
  <1> HIDE DEF f
  <1>2. \A i \in 1..Len(ss) : f[i] = IF i = 1 THEN ss[i] ELSE f[i-1] \o ss[i] BY <1>1
  <1> QED BY <1>2 DEF f

\* What is cut into pieces is put together again.
LEMMA FlatOfPieces ==
  ASSUME NEW S, NEW s \in Seq(S), NEW ss \in Seq(Seq(S)), NEW e \in [0..Len(ss) -> 0..Len(s)],
         e[0] = 0,
         \A n \in 1..Len(ss) : e[n-1] <= e[n] /\ ss[n] = SubSeq(s, e[n-1] + 1, e[n])
  PROVE  FlattenSeq(ss) = SubSeq(s, 1, e[Len(ss)])
  <1> DEFINE N == Len(ss)
             S1 == {m \in Nat : m + 1 \in 1..N => Flat(ss)[m + 1] = SubSeq(s, 1, e[m + 1])}
  <1>0. N \in Nat /\ Len(s) \in Nat OBVIOUS
  <1>f. \A i \in 1..N : Flat(ss)[i] = IF i = 1 THEN ss[i] ELSE Flat(ss)[i-1] \o ss[i]
    BY <1>0, FlatStep
  <1>1. 0 \in S1
    <2> SUFFICES ASSUME 1 \in 1..N PROVE Flat(ss)[1] = SubSeq(s, 1, e[1]) OBVIOUS
    <2>1. 1 - 1 = 0 /\ 0 + 1 = 1 OBVIOUS
    <2>2. ss[1] = SubSeq(s, 1, e[1]) BY <2>1
    <2> QED BY <1>f, <2>2
  <1>2. ASSUME NEW m \in Nat, m \in S1 PROVE m + 1 \in S1
    <2> SUFFICES ASSUME m + 2 \in 1..N PROVE Flat(ss)[m + 2] = SubSeq(s, 1, e[m + 2])
      OBVIOUS
    <2> DEFINE a == e[m+1]  b == e[m+2]
    <2>1. a \in 0..Len(s) /\ b \in a..Len(s) /\ ss[m+2] = SubSeq(s, a + 1, b)
      <3>1. (m+2)-1 = m+1 /\ m+1 \in 0..N /\ m+2 \in 0..N OBVIOUS
      <3>2. a \in 0..Len(s) /\ b \in 0..Len(s) BY <3>1
      <3>3. a <= b /\ ss[m+2] = SubSeq(s, a + 1, b) BY <3>1
      <3> QED BY <1>0, <3>2, <3>3
    <2>2. Flat(ss)[m+1] = SubSeq(s, 1, a) BY <1>2
    <2>3. Flat(ss)[m+2] = Flat(ss)[m+1] \o ss[m+2]
      <3>1. (m+2)-1 = m+1 /\ m + 2 # 1 OBVIOUS
      <3> QED BY <1>f, <3>1
    <2> HIDE DEF a, b
    <2>4. SubSeq(s, 1, a) \o SubSeq(s, a + 1, b) = SubSeq(s, 1, b)
      <3>1. 1 \in 1..(Len(s) + 1) /\ a \in (1-1)..Len(s) BY <2>1
      <3> QED BY <2>1, <3>1, ConcatAdjacentSubSeq
    <2> QED BY <2>1, <2>2, <2>3, <2>4 DEF b
  <1>3. CASE N = 0
    <2>1. FlattenSeq(ss) = ss BY <1>3 DEF FlattenSeq
    <2>2. ss = <<>> BY <1>3
    <2>3. SubSeq(s, 1, e[N]) = <<>> BY <1>3, SubSeqEmpty
    <2> QED BY <2>1, <2>2, <2>3
  <1>4. CASE N # 0
    <2>1. FlattenSeq(ss) = Flat(ss)[N] BY <1>4 DEF FlattenSeq, Flat
    <2>2. N - 1 \in S1
      <3>1. N - 1 \in Nat BY <1>0, <1>4
      <3> HIDE DEF S1, N
      <3> QED BY <3>1, <1>1, <1>2, UpTo
    <2> QED BY <1>0, <1>4, <2>1, <2>2
  <1> QED BY <1>3, <1>4

\* What comes of sequences is one, and it is empty only if they all are.
LEMMA FlatType ==
  ASSUME NEW S, NEW ss \in Seq(Seq(S))
  PROVE  /\ FlattenSeq(ss) \in Seq(S)
         /\ (\E n \in DOMAIN ss : ss[n] # <<>>) => FlattenSeq(ss) # <<>>
  <1> DEFINE N == Len(ss)
             S1 == {m \in Nat : m + 1 \in 1..N =>
                        /\ Flat(ss)[m + 1] \in Seq(S)
                        /\ \A n \in 1..m+1 : ss[n] # <<>> => Flat(ss)[m+1] # <<>>}
  <1>0. N \in Nat /\ DOMAIN ss = 1..N OBVIOUS
  <1>f. \A i \in 1..N : Flat(ss)[i] = IF i = 1 THEN ss[i] ELSE Flat(ss)[i-1] \o ss[i]
    BY <1>0, FlatStep
  <1>1. 0 \in S1
    BY <1>f
  <1>2. ASSUME NEW m \in Nat, m \in S1 PROVE m + 1 \in S1
    <2> SUFFICES ASSUME m + 2 \in 1..N
                 PROVE  /\ Flat(ss)[m + 2] \in Seq(S)
                        /\ \A n \in 1..m+2 : ss[n] # <<>> => Flat(ss)[m+2] # <<>>
      OBVIOUS
    <2> DEFINE a == Flat(ss)[m+1]  b == ss[m+2]
    <2>1. a \in Seq(S) /\ b \in Seq(S) /\ \A n \in 1..m+1 : ss[n] # <<>> => a # <<>>
      BY <1>2
    <2>3. Flat(ss)[m+2] = a \o b
      <3>1. (m+2)-1 = m+1 /\ m + 2 # 1 OBVIOUS
      <3> QED BY <1>f, <3>1
    <2>4. \A n \in 1..m+2 : n \in 1..m+1 \/ ss[n] = b OBVIOUS
    <2> HIDE DEF a, b
    <2>5. a \o b \in Seq(S) BY <2>1, ConcatProperties
    <2>6. a # <<>> \/ b # <<>> => a \o b # <<>> BY <2>1, ConcatEqualIffEmpty
    <2> QED BY <2>1, <2>3, <2>4, <2>5, <2>6
  <1>3. CASE N = 0
    <2>1. FlattenSeq(ss) = ss BY <1>3 DEF FlattenSeq
    <2>2. ss = <<>> BY <1>3
    <2> QED BY <2>1, <2>2
  <1>4. CASE N # 0
    <2>1. FlattenSeq(ss) = Flat(ss)[N] BY <1>4 DEF FlattenSeq, Flat
    <2>2. N - 1 \in S1
      <3>1. N - 1 \in Nat BY <1>0, <1>4
      <3> HIDE DEF S1, N
      <3> QED BY <3>1, <1>1, <1>2, UpTo
    <2> QED BY <1>0, <1>4, <2>1, <2>2
  <1> QED BY <1>3, <1>4

-----------------------------------------------------------------------------
(* What is quoted is read back as it was.                                  *)

\* The reader's states are those its definition asks for: they exist.
LEMMA ReadingIs ==
  ASSUME NEW t, Len(t) \in Nat
  PROVE  \A i \in 0..Len(t) :
            Reading(t)[i] = IF i = 0 THEN [mode |-> "bare", got |-> <<>>]
                            ELSE ReadChar(Reading(t)[i-1], t[i])
  <1> DEFINE Step(g, i) == IF i = 0 THEN [mode |-> "bare", got |-> <<>>]
                           ELSE ReadChar(g[i-1], t[i])
             Solves(g, n) == \A i \in 0..n : g[i] = Step(g, i)
             S == {n \in Nat : \E g : Solves(g, n)}
  <1>1. 0 \in S
    <2> DEFINE h == [i \in 0..0 |-> Step(<<>>, 0)]
    <2>1. Solves(h, 0) OBVIOUS
    <2> HIDE DEF Solves, h
    <2> QED BY <2>1
  <1>2. ASSUME NEW n \in Nat, n \in S PROVE n + 1 \in S
    <2>1. PICK g : Solves(g, n) BY <1>2
    <2> DEFINE h == [i \in 0..(n+1) |-> Step(g, i)]
    <2>2. ASSUME NEW i \in 0..(n+1) PROVE h[i] = Step(g, i) /\ (i <= n => h[i] = g[i])
      BY <2>1
    <2>3. ASSUME NEW i \in 0..(n+1) PROVE h[i] = Step(h, i)
      <3>1. i # 0 => i - 1 \in 0..(n+1) /\ i - 1 <= n OBVIOUS
      <3>2. i # 0 => h[i-1] = g[i-1] BY <2>2, <3>1
      <3> HIDE DEF h
      <3> QED BY <2>2, <3>2
    <2>4. Solves(h, n + 1) BY <2>3
    <2> HIDE DEF Solves, h
    <2> QED BY <2>4
  <1>3. PICK g : Solves(g, Len(t))
    <2> HIDE DEF S, Solves
    <2>1. Len(t) \in S BY <1>1, <1>2, UpTo
    <2> QED BY <2>1 DEF S
  <1> DEFINE f == [i \in 0..Len(t) |-> g[i]]
  <1>4. f = [i \in 0..Len(t) |-> Step(f, i)]
    <2>1. ASSUME NEW i \in 0..Len(t) PROVE g[i] = Step(f, i)
      <3>1. i # 0 => f[i-1] = g[i-1] OBVIOUS
      <3> HIDE DEF f
      <3> QED BY <1>3, <3>1
    <2> QED BY <2>1
  <1> DEFINE r == Reading(t)
  <1>5. r = [i \in 0..Len(t) |-> Step(r, i)]
    <2> HIDE DEF f
    <2> QED BY <1>4 DEF Reading
  <1> HIDE DEF r
  <1>6. \A i \in 0..Len(t) : r[i] = Step(r, i) BY <1>5
  <1> QED BY <1>6 DEF r

\* Where the reader is at the end of a text.
Read1(t) == Reading(t)[Len(t)]

LEMMA OneMore ==
  ASSUME NEW S, NEW s \in Seq(S), NEW c \in S
  PROVE  /\ Len(s) \in Nat /\ Len(Append(s, c)) = Len(s) + 1
         /\ Append(s, c)[Len(s) + 1] = c /\ \A i \in 1..Len(s) : Append(s, c)[i] = s[i]
  OBVIOUS

\* It goes from there with one character more.
LEMMA ReadsOneMore ==
  ASSUME NEW a \in Texts, NEW c \in STRING
  PROVE  Read1(Append(a, c)) = ReadChar(Read1(a), c)
  <1> DEFINE t == Append(a, c)  N == Len(a)
             S == {n \in Nat : n <= N => Reading(t)[n] = Reading(a)[n]}
  <1>0. a \in Seq(STRING) BY DEF Texts
  <1>1. N \in Nat /\ Len(t) = N + 1 /\ t[N+1] = c /\ \A i \in 1..N : t[i] = a[i]
    <2> HIDE DEF S, t, N
    <2>1. /\ Len(a) \in Nat /\ Len(Append(a, c)) = Len(a) + 1
          /\ Append(a, c)[Len(a) + 1] = c /\ \A i \in 1..Len(a) : Append(a, c)[i] = a[i]
      BY ONLY <1>0, c \in STRING, OneMore
    <2> QED BY <2>1 DEF t, N
  <1> HIDE DEF t, N
  <1>2. \A i \in 0..N+1 : Reading(t)[i] = IF i = 0 THEN [mode |-> "bare", got |-> <<>>]
                                          ELSE ReadChar(Reading(t)[i-1], t[i])
    BY <1>1, ReadingIs
  <1>3. \A i \in 0..N : Reading(a)[i] = IF i = 0 THEN [mode |-> "bare", got |-> <<>>]
                                        ELSE ReadChar(Reading(a)[i-1], a[i])
    BY <1>1, ReadingIs DEF N
  <1>4. 0 \in S
    <2>1. 0 \in 0..N /\ 0 \in 0..N+1 BY <1>1
    <2> QED BY <1>2, <1>3, <2>1
  <1>5. ASSUME NEW n \in Nat, n \in S PROVE n + 1 \in S
    <2> SUFFICES ASSUME n + 1 <= N PROVE Reading(t)[n+1] = Reading(a)[n+1] OBVIOUS
    <2>1. n <= N /\ n + 1 # 0 /\ (n+1)-1 = n /\ n+1 \in 0..N /\ n+1 \in 0..N+1 /\ n+1 \in 1..N
      BY <1>1
    <2>2. Reading(t)[n] = Reading(a)[n] BY <1>5, <2>1
    <2>3. Reading(t)[n+1] = ReadChar(Reading(t)[n], t[n+1]) BY <1>2, <2>1
    <2>4. Reading(a)[n+1] = ReadChar(Reading(a)[n], a[n+1]) BY <1>3, <2>1
    <2> QED BY <1>1, <2>1, <2>2, <2>3, <2>4
  <1>6. N \in S
    <2> HIDE DEF S
    <2> QED BY <1>1, <1>4, <1>5, UpTo
  <1>7. Reading(t)[N] = Reading(a)[N] BY <1>1, <1>6
  <1>8. Reading(t)[N+1] = ReadChar(Reading(t)[N], t[N+1])
    <2>1. N+1 \in 0..N+1 /\ N+1 # 0 /\ (N+1)-1 = N BY <1>1
    <2> QED BY <1>2, <2>1
  <1> QED BY <1>1, <1>7, <1>8 DEF Read1, t, N

\* Short sequences over any set: the provers know less of those over STRING.
LEMMA ShortIn ==
  ASSUME NEW S, NEW q \in S, NEW b \in S
  PROVE  <<b>> \in Seq(S) /\ <<q, b, q, q>> \in Seq(S)
  OBVIOUS

LEMMA InQuotesType ==
  ASSUME NEW c \in STRING
  PROVE  InQuotes(c) \in Texts
  <1>1. "'" \in STRING /\ "\\" \in STRING BY TextAssumption
  <1>2. <<"'", "\\", "'", "'">> \in Seq(STRING) BY <1>1, ShortIn
  <1>3. <<c>> \in Seq(STRING) BY ShortIn
  <1> QED BY <1>2, <1>3 DEF InQuotes, Texts

\* A character in its quotes leaves the reader within quotes, with that character.
LEMMA ReadsInQuotes ==
  ASSUME NEW a \in Texts, NEW g \in Texts, NEW c \in STRING,
         Read1(a) = [mode |-> "quoted", got |-> g]
  PROVE  Read1(a \o InQuotes(c)) = [mode |-> "quoted", got |-> Append(g, c)]
  <1> USE TextAssumption
  <1>1. CASE c # "'"
    <2>1. a \o InQuotes(c) = Append(a, c) BY <1>1 DEF InQuotes, Texts
    <2>2. Read1(Append(a, c)) = ReadChar(Read1(a), c) BY ReadsOneMore
    <2>3. ReadChar([mode |-> "quoted", got |-> g], c) = [mode |-> "quoted", got |-> Append(g, c)]
      BY <1>1 DEF ReadChar
    <2> QED BY <2>1, <2>2, <2>3
  <1>2. CASE c = "'"
    <2> DEFINE a1 == Append(a, "'")  a2 == Append(a1, "\\")
               a3 == Append(a2, "'") a4 == Append(a3, "'")
    <2>1. a1 \in Texts /\ a2 \in Texts /\ a3 \in Texts BY DEF Texts
    <2>2. a \o InQuotes(c) = a4 BY <1>2 DEF InQuotes, Texts
    <2>3. Read1(a1) = ReadChar(Read1(a), "'") BY ReadsOneMore
    <2>4. Read1(a1) = [mode |-> "bare", got |-> g] BY <2>3 DEF ReadChar
    <2> HIDE DEF a1
    <2>5. Read1(a2) = ReadChar(Read1(a1), "\\") BY <2>1, ReadsOneMore
    <2>6. Read1(a2) = [mode |-> "escape", got |-> g] BY <2>4, <2>5 DEF ReadChar
    <2> HIDE DEF a2
    <2>7. Read1(a3) = ReadChar(Read1(a2), "'") BY <2>1, ReadsOneMore
    <2>8. Read1(a3) = [mode |-> "bare", got |-> Append(g, "'")] BY <2>6, <2>7 DEF ReadChar
    <2> HIDE DEF a3
    <2>9. Read1(a4) = ReadChar(Read1(a3), "'") BY <2>1, ReadsOneMore
    <2>10. Read1(a4) = [mode |-> "quoted", got |-> Append(g, "'")] BY <2>8, <2>9 DEF ReadChar
    <2> QED BY <1>2, <2>2, <2>10
  <1> QED BY <1>1, <1>2

Quoted(v) == [i \in DOMAIN v |-> InQuotes(v[i])]

LEMMA QuotedType ==
  ASSUME NEW v \in Texts
  PROVE  /\ Quoted(v) \in Seq(Texts) /\ Len(Quoted(v)) = Len(v) /\ Len(v) \in Nat
         /\ DOMAIN v = 1..Len(v) /\ DOMAIN Quoted(v) = 1..Len(v)
         /\ FlattenSeq(Quoted(v)) \in Texts
         /\ Quote(v) \in Texts /\ Quote(v) # <<>>
         /\ Quote(v) = Append(<<"'">> \o FlattenSeq(Quoted(v)), "'")
  <1> USE TextAssumption
  <1>1. Len(v) \in Nat /\ DOMAIN v = 1..Len(v) /\ \A i \in 1..Len(v) : v[i] \in STRING
    BY DEF Texts
  <1>2. \A i \in 1..Len(v) : InQuotes(v[i]) \in Texts BY <1>1, InQuotesType
  <1>3. Quoted(v) \in Seq(Texts) /\ DOMAIN Quoted(v) = 1..Len(v) BY <1>1, <1>2 DEF Quoted
  <1>4. Len(Quoted(v)) = Len(v) BY <1>1, <1>3
  <1> DEFINE ss == Quoted(v)  body == FlattenSeq(ss)
  <1>5. Quote(v) = <<"'">> \o body \o <<"'">> BY DEF Quote, Quoted
  <1> HIDE DEF ss
  <1>6. body \in Texts BY <1>3, FlatType DEF Texts, ss
  <1> HIDE DEF body
  <1>7. <<"'">> \o body \in Texts BY <1>6 DEF Texts
  <1>8. (<<"'">> \o body) \o <<"'">> = Append(<<"'">> \o body, "'") BY <1>7 DEF Texts
  <1>9. Append(<<"'">> \o body, "'") \in Texts /\ Append(<<"'">> \o body, "'") # <<>>
    BY <1>7 DEF Texts
  <1> QED BY <1>1, <1>3, <1>4, <1>5, <1>6, <1>8, <1>9 DEF body, ss

\* The opening quote and the first n characters.
SoFar(v, n) == IF n = 0 THEN <<"'">> ELSE <<"'">> \o Flat(Quoted(v))[n]

\* Any value a unit is given reads back character for character through _quote.
THEOREM QuoteSurvives == ASSUME NEW v \in Texts PROVE Unquote(Quote(v)) = v
  <1> USE TextAssumption
  <1> DEFINE N == Len(v)
             Is(n) == /\ SoFar(v, n) \in Texts
                      /\ Read1(SoFar(v, n)) = [mode |-> "quoted", got |-> SubSeq(v, 1, n)]
             S == {n \in Nat : n <= N => Is(n)}
  <1>1. N \in Nat /\ DOMAIN v = 1..N /\ \A i \in 1..N : v[i] \in STRING BY DEF Texts
  <1>2. /\ Quoted(v) \in Seq(Texts) /\ Len(Quoted(v)) = N
        /\ \A i \in 1..N : Quoted(v)[i] = InQuotes(v[i])
    BY QuotedType, <1>1 DEF Quoted
  <1>3. \A i \in 1..N : Flat(Quoted(v))[i] = IF i = 1 THEN Quoted(v)[i]
                                             ELSE Flat(Quoted(v))[i-1] \o Quoted(v)[i]
    BY <1>1, <1>2, FlatStep
  <1>4. 0 \in S
    <2>1. SoFar(v, 0) = Append(<<>>, "'") BY DEF SoFar
    <2>2. <<>> \in Texts /\ Append(<<>>, "'") \in Texts BY DEF Texts
    <2>3. Read1(<<>>) = [mode |-> "bare", got |-> <<>>]
      <3>1. Len(<<>>) \in Nat /\ Len(<<>>) = 0 OBVIOUS
      <3>2. 0 \in 0..Len(<<>>) BY <3>1
      <3>3. Reading(<<>>)[0] = [mode |-> "bare", got |-> <<>>] BY <3>1, <3>2, ReadingIs
      <3> QED BY <3>1, <3>3 DEF Read1
    <2>6. "'" \in STRING BY TextAssumption
    <2>7. Read1(Append(<<>>, "'")) = ReadChar(Read1(<<>>), "'") BY <2>2, <2>6, ReadsOneMore
    <2>4. Read1(Append(<<>>, "'")) = [mode |-> "quoted", got |-> <<>>]
      BY <2>3, <2>7 DEF ReadChar
    <2>5. SubSeq(v, 1, 0) = <<>> BY SubSeqEmpty DEF Texts
    <2> QED BY <2>1, <2>2, <2>4, <2>5
  <1>5. ASSUME NEW n \in Nat, n \in S PROVE n + 1 \in S
    <2> SUFFICES ASSUME n + 1 <= N PROVE Is(n + 1) OBVIOUS
    <2> DEFINE a == SoFar(v, n)  p == InQuotes(v[n+1])
    <2>1. n + 1 \in 1..N /\ n \in 0..N /\ n <= N BY <1>1
    <2>2. Is(n) BY <1>5, <2>1
    <2>3. v[n+1] \in STRING /\ Quoted(v)[n+1] = p BY <1>1, <1>2, <2>1
    <2>4. p \in Texts BY <2>3, InQuotesType
    <2>5. SoFar(v, n + 1) = a \o p
      <3>1. CASE n = 0
        <4>1. Flat(Quoted(v))[1] = p BY <1>3, <2>1, <2>3, <3>1
        <4> QED BY <3>1, <4>1 DEF SoFar
      <3>2. CASE n # 0
        <4> DEFINE q == Flat(Quoted(v))[n]
        <4>1. Flat(Quoted(v))[n+1] = q \o p
          <5>1. (n+1)-1 = n /\ n + 1 # 1 BY <3>2
          <5> QED BY <1>3, <2>1, <2>3, <5>1
        <4>2. q \in Texts
          <5> DEFINE T == {m \in Nat : m + 1 \in 1..N => Flat(Quoted(v))[m+1] \in Texts}
          <5>1. 0 \in T BY <1>1, <1>2, <1>3, QuotedType
          <5>2. ASSUME NEW m \in Nat, m \in T PROVE m + 1 \in T
            <6> SUFFICES ASSUME m + 2 \in 1..N PROVE Flat(Quoted(v))[m+2] \in Texts OBVIOUS
            <6>1. m + 1 \in 1..N /\ (m+2)-1 = m+1 /\ m+2 # 1 BY <1>1
            <6>2. Flat(Quoted(v))[m+1] \in Texts BY <5>2, <6>1
            <6>3. Quoted(v)[m+2] \in Texts BY <1>2
            <6>4. Flat(Quoted(v))[m+2] = Flat(Quoted(v))[m+1] \o Quoted(v)[m+2]
              BY <1>3, <6>1
            <6> QED BY <6>2, <6>3, <6>4, ConcatProperties DEF Texts
          <5>3. n - 1 \in T
            <6>1. n - 1 \in Nat BY <3>2
            <6> HIDE DEF T
            <6> QED BY <5>1, <5>2, <6>1, UpTo
          <5> QED BY <5>3, <2>1, <3>2
        <4> HIDE DEF p, q
        <4>3. <<"'">> \o (q \o p) = (<<"'">> \o q) \o p
          BY <2>4, <4>2, ConcatAssociative DEF Texts
        <4>4. SoFar(v, n + 1) = <<"'">> \o (q \o p) BY <4>1 DEF SoFar
        <4>5. a = <<"'">> \o q BY <3>2 DEF SoFar, q
        <4> QED BY <4>3, <4>4, <4>5
      <3> QED BY <3>1, <3>2
    <2>6. SubSeq(v, 1, n) \in Texts /\ Append(SubSeq(v, 1, n), v[n+1]) = SubSeq(v, 1, n + 1)
      BY <1>1, <2>1 DEF Texts
    <2>7. a \in Texts /\ Read1(a) = [mode |-> "quoted", got |-> SubSeq(v, 1, n)] BY <2>2
    <2> HIDE DEF a
    <2>8. Read1(a \o p) = [mode |-> "quoted", got |-> Append(SubSeq(v, 1, n), v[n+1])]
      BY <2>3, <2>6, <2>7, ReadsInQuotes
    <2>9. a \o p \in Texts BY <2>4, <2>7, ConcatProperties DEF Texts
    <2> QED BY <2>5, <2>6, <2>8, <2>9
  <1>6. Is(N)
    <2> HIDE DEF S, Is, N
    <2>1. N \in S BY <1>1, <1>4, <1>5, UpTo
    <2> QED BY <1>1, <2>1 DEF S
  <1>7. <<"'">> \o FlattenSeq(Quoted(v)) = SoFar(v, N)
    <2>1. CASE N = 0
      <3>1. Quoted(v) = <<>> BY <1>2, <2>1
      <3>2. FlattenSeq(Quoted(v)) = <<>> BY <3>1 DEF FlattenSeq
      <3>3. <<"'">> \o <<>> = <<"'">> OBVIOUS
      <3> QED BY <2>1, <3>2, <3>3 DEF SoFar
    <2>2. CASE N # 0
      <3>1. FlattenSeq(Quoted(v)) = Flat(Quoted(v))[N] BY <1>2, <2>2 DEF FlattenSeq, Flat
      <3> QED BY <2>2, <3>1 DEF SoFar
    <2> QED BY <2>1, <2>2
  <1>8. Quote(v) = Append(SoFar(v, N), "'") BY <1>7, QuotedType
  <1>9. Read1(Quote(v)) = [mode |-> "bare", got |-> SubSeq(v, 1, N)]
    <2>1. SoFar(v, N) \in Texts /\ Read1(SoFar(v, N)) = [mode |-> "quoted", got |-> SubSeq(v, 1, N)]
      BY <1>6
    <2> HIDE DEF Is, S, N
    <2>2. Read1(Quote(v)) = ReadChar(Read1(SoFar(v, N)), "'") BY <1>8, <2>1, ReadsOneMore
    <2> QED BY <2>1, <2>2 DEF ReadChar
  <1>10. SubSeq(v, 1, N) = v BY SubSeqFull DEF Texts
  <1> QED BY <1>9, <1>10 DEF Unquote, Read1

-----------------------------------------------------------------------------
(* What the boot has left behind it at each of its steps.                  *)

InHooks  == {"hooks", "demo_open", "demo_write"}
HasUnits == {"plan_hooks", "app"} \cup InHooks
HasFiles == {"units"} \cup HasUnits
HasEth0  == {"envfiles"} \cup HasFiles

\* On UniFi OS each step of the boot leaves its part behind it.
UosSteps ==
    image.base = "uos" =>
        /\ pc \notin {"props", "props_open", "props_write"}
        /\ pc \in HasEth0  => eth0 = "up"
        /\ pc \in HasFiles => \A u \in env.on \cap WithFile : envfile[u] = FileOf(u)
        /\ pc \in HasUnits => \A u \in Units \ unswitched : u \in enabled <=> u \in env.on

\* A hook that has to succeed has done so, has its turn to come, or is left to the
\* second pass; the network image has one pass, and no failure in it.
HookSteps ==
    /\ pc \in InHooks =>
          /\ pass \in {1, 2}
          /\ ~failed => Due(Named) \subseteq done \cup queue
          /\ image.base = "network" => ~failed /\ pass = 1 /\ queue \subseteq Named
    /\ pc \in {"demo_open", "demo_write"} => "demo" \in queue
    /\ pc = "app" => Due(Named) \subseteq done

IInv == TypeOK /\ UosSteps /\ HookSteps /\ (image.base = "network" => "backup" \notin ran)

LEMMA BoundsAreNat == MaxStops \in Nat /\ MaxFails \in Nat /\ MaxEdits \in Nat
  BY BootAssumption

LEMMA WhoseTypes ==
    ASSUME TypeOK
    PROVE  /\ image.base \in {"network", "uos"} /\ image.built \subseteq Units
           /\ env.on \subseteq Units
           /\ \A u \in WithFile : env.given[u] \in Texts
  BY BootAssumption DEF TypeOK

\* What the environment files may hold.
LEMMA FileOfType ==
    ASSUME TypeOK, NEW u \in WithFile
    PROVE  FileOf(u) \in Texts /\ Setting(env.given[u]) \in Texts
  <1>1. env.given[u] \in Texts BY WhoseTypes
  <1>2. NoLine \in Texts /\ Default \in Texts BY TextAssumption DEF NoLine, Default, Texts
  <1>3. Setting(env.given[u]) \in Texts BY <1>1, <1>2 DEF Setting
  <1>4. Quote(Setting(env.given[u])) \in Texts BY <1>3, QuotedType
  <1> QED BY <1>2, <1>3, <1>4 DEF FileOf

\* A unit resolves what it is told, or not told, as the healthcheck does.
LEMMA UnitResolves ==
    ASSUME TypeOK, NEW u \in WithFile, envfile[u] = FileOf(u)
    PROVE  UnitReads(u) = Setting(env.given[u])
  <1>1. CASE u = "readyz" /\ env.given[u] = <<>>
    <2>1. envfile[u] = NoLine BY <1>1 DEF FileOf
    <2> QED BY <1>1, <2>1 DEF UnitReads, Setting
  <1>2. CASE ~(u = "readyz" /\ env.given[u] = <<>>)
    <2>1. envfile[u] = Quote(Setting(env.given[u])) BY <1>2 DEF FileOf
    <2>2. Setting(env.given[u]) \in Texts BY FileOfType
    <2>3. envfile[u] # NoLine BY <2>1, <2>2, QuotedType DEF NoLine
    <2> QED BY <2>1, <2>2, <2>3, QuoteSurvives DEF UnitReads
  <1> QED BY <1>1, <1>2

LEMMA InitIInv == Init => IInv
  <1> SUFFICES ASSUME Init PROVE IInv OBVIOUS
  <1> USE BoundsAreNat
  <1>1. envfile \in [WithFile -> Texts]
    BY DEF Init, NoLine, Texts
  <1>2. image.built \subseteq Units BY BootAssumption DEF Init
  <1>3. TypeOK
    <2>1. pass \in 0..2 /\ stops \in 0..MaxStops /\ fails \in 0..MaxFails /\ edits \in 0..MaxEdits
      BY DEF Init
    <2>2. queue \subseteq Hooks /\ done \subseteq Hooks /\ ran \subseteq Hooks BY DEF Init
    <2> QED BY <1>1, <1>2, <2>1, <2>2 DEF Init, TypeOK, Texts
  <1>4. UosSteps /\ HookSteps
    BY DEF Init, UosSteps, HookSteps, HasEth0, HasFiles, HasUnits, InHooks
  <1> QED BY <1>3, <1>4 DEF Init, IInv

-----------------------------------------------------------------------------
(* One lemma for each group of steps.                                      *)

LEMMA NetworkIInv == ASSUME IInv, Network PROVE IInv'
  <1> USE BoundsAreNat
  <1>1. /\ UNCHANGED <<image, env, queue, pass, failed, done, ran, enabled, unswitched, envfile, eth0,
                       stops, fails, edits>>
        /\ pc \in {"props", "props_open", "props_write"}
        /\ pc' \in {"dead", "props_open", "props_write", "plan_hooks"}
    BY DEF Network, ReadProperties, OpenProperties, WriteProperties, Goto,
           who, hooks, units, history
  <1>2. image.base # "uos" BY <1>1 DEF IInv, UosSteps
  <1>3. TypeOK' BY <1>1 DEF IInv, TypeOK
  <1>4. UosSteps' BY <1>1, <1>2 DEF UosSteps
  <1>5. HookSteps' BY <1>1 DEF HookSteps, InHooks
  <1> QED BY <1>1, <1>3, <1>4, <1>5 DEF IInv

LEMMA UniFiOsIInv == ASSUME IInv, UniFiOs PROVE IInv'
  <1> USE BoundsAreNat
  <1>1. /\ UNCHANGED <<image, env, queue, pass, failed, done, ran>>
        /\ pc' \in {"envfiles", "units", "plan_hooks", "dead"}
    BY DEF UniFiOs, EnsureEth0, WriteEnvFiles, EnableUnits, Goto, who, hooks
  <1>2. HookSteps' BY <1>1 DEF HookSteps, InHooks
  <1>3. CASE EnsureEth0
    <2>1. TypeOK' BY <1>3 DEF EnsureEth0, Fail, who, hooks, file, IInv, TypeOK
    <2>2. UosSteps'
      BY <1>3 DEF EnsureEth0, UosSteps, HasEth0, HasFiles, HasUnits, InHooks
    <2> QED BY <1>1, <1>2, <2>1, <2>2 DEF IInv
  <1>4. CASE WriteEnvFiles
    <2>1. /\ pc = "envfiles" /\ pc' = "units"
          /\ envfile' = [u \in WithFile |-> IF u \in env.on THEN FileOf(u) ELSE envfile[u]]
          /\ UNCHANGED <<enabled, unswitched, eth0, stops, fails, edits>>
      BY <1>4 DEF WriteEnvFiles, Goto, history
    <2>2. envfile' \in [WithFile -> Texts]
      BY <2>1, FileOfType DEF IInv, TypeOK
    <2>3. TypeOK' BY <1>1, <2>1, <2>2 DEF IInv, TypeOK
    <2>4. \A u \in env.on \cap WithFile : envfile'[u] = FileOf(u) BY <2>1
    <2>5. UosSteps'
      BY <1>1, <2>1, <2>4 DEF IInv, UosSteps, HasEth0, HasFiles, HasUnits, InHooks, FileOf
    <2> QED BY <1>1, <1>2, <2>3, <2>5 DEF IInv
  <1>5. CASE EnableUnits
    <2>1. /\ pc = "units" /\ pc' = "plan_hooks"
          /\ enabled' = (enabled \cap unswitched') \cup (env.on \ unswitched')
          /\ UNCHANGED <<envfile, eth0, stops, edits>>
      BY <1>5 DEF EnableUnits, Goto
    <2>2. env.on \subseteq Units /\ enabled \subseteq Units BY WhoseTypes DEF IInv, TypeOK
    <2>3. fails \in 0..MaxFails BY DEF IInv, TypeOK
    <2>4. unswitched' \subseteq Units /\ fails' \in 0..MaxFails
      BY <1>5, <2>3 DEF EnableUnits, Fail
    <2>5. enabled' \subseteq Units BY <2>1, <2>2
    <2>6. TypeOK' BY <1>1, <2>1, <2>4, <2>5 DEF IInv, TypeOK
    <2>7. \A u \in Units \ unswitched' : u \in enabled' <=> u \in env.on BY <2>1
    <2>8. UosSteps'
      BY <1>1, <2>1, <2>7 DEF IInv, UosSteps, HasEth0, HasFiles, HasUnits, InHooks, FileOf
    <2> QED BY <1>1, <1>2, <2>6, <2>8 DEF IInv
  <1> QED BY <1>3, <1>4, <1>5 DEF UniFiOs

\* A hook that ends has had its turn, and a failure is remembered or fatal.
LEMMA HookEndsIInv ==
    ASSUME IInv, pc \in InHooks, NEW h \in queue, NEW ok \in BOOLEAN, HookEnds(h, ok),
           UNCHANGED <<image, env, enabled, unswitched, envfile, eth0, stops, edits>>,
           fails' \in 0..MaxFails
    PROVE  IInv'
  <1> USE BoundsAreNat
  <1>1. /\ pc' \in {"dead", "hooks"} /\ queue' = queue \ {h} /\ pass' = pass
        /\ ran' = ran \cup {h} /\ failed' = (failed \/ ~ok)
        /\ done' = IF ok THEN done \cup {h} ELSE done \ {h}
        /\ ~ok /\ image.base = "network" => pc' = "dead"
    BY DEF HookEnds
  <1>2. queue \subseteq Hooks /\ done \subseteq Hooks /\ ran \subseteq Hooks
    BY DEF IInv, TypeOK
  <1>3. TypeOK'
    <2>1. queue' \subseteq Hooks /\ done' \subseteq Hooks /\ ran' \subseteq Hooks
      BY <1>1, <1>2
    <2> QED BY <1>1, <2>1 DEF IInv, TypeOK
  <1>4. UosSteps'
    BY <1>1 DEF IInv, UosSteps, HasEth0, HasFiles, HasUnits, InHooks, FileOf
  <1>5. HookSteps'
    <2>1. Due(Named)' = Due(Named) BY DEF Due, Installed
    <2>2. ~failed' => Due(Named) \subseteq done' \cup queue'
      BY <1>1 DEF IInv, HookSteps
    <2>3. pc' = "hooks" /\ image.base = "network" => ~failed' /\ pass' = 1 /\ queue' \subseteq Named
      BY <1>1 DEF IInv, HookSteps
    <2>4. pass' \in {1, 2} BY <1>1 DEF IInv, HookSteps
    <2> QED BY <1>1, <2>1, <2>2, <2>3, <2>4 DEF HookSteps, InHooks
  <1>6. image'.base = "network" => "backup" \notin ran'
    BY <1>1 DEF IInv, HookSteps, Named
  <1> QED BY <1>3, <1>4, <1>5, <1>6 DEF IInv

LEMMA HooksIInv == ASSUME IInv, RunHooks PROVE IInv'
  <1> USE BoundsAreNat
  <1>1. CASE PlanHooks
    <2>1. /\ pc = "plan_hooks" /\ pc' = "hooks" /\ queue' = Due(Named) /\ pass' = 1
          /\ failed' = FALSE
          /\ UNCHANGED <<image, env, done, ran, enabled, unswitched, envfile, eth0, stops, fails, edits>>
      BY <1>1 DEF PlanHooks, Goto, who, units, history
    <2>2. Due(Named)' = Due(Named) /\ Due(Named) \subseteq Named /\ Named \subseteq Hooks
      BY <2>1 DEF Due, Installed, Named
    <2>3. queue' \subseteq Hooks /\ pass' \in 0..2 BY <2>1, <2>2
    <2>4. TypeOK' BY <2>1, <2>3 DEF IInv, TypeOK
    <2>5. UosSteps'
      BY <2>1 DEF IInv, UosSteps, HasEth0, HasFiles, HasUnits, InHooks, FileOf
    <2>6. HookSteps' BY <2>1, <2>2 DEF HookSteps, InHooks
    <2> QED BY <2>1, <2>4, <2>5, <2>6 DEF IInv
  <1>2. ASSUME NEW h \in Hooks, RunHook(h) PROVE IInv'
    <2>1. PICK ok \in BOOLEAN : HookEnds(h, ok) BY <1>2 DEF RunHook
    <2>2. fails' \in 0..MaxFails
      <3>1. fails \in 0..MaxFails BY DEF IInv, TypeOK
      <3>2. fails' = fails \/ (fails < MaxFails /\ fails' = fails + 1)
        BY <1>2 DEF RunHook, Fail
      <3> QED BY <3>1, <3>2
    <2>3. h \in queue /\ pc \in InHooks BY <1>2 DEF RunHook, Turn, InHooks
    <2> QED BY <1>2, <2>1, <2>2, <2>3, HookEndsIInv DEF RunHook, who, units
  <1>3. CASE DemoReads \/ DemoOpens
    <2>1. /\ UNCHANGED <<image, env, queue, pass, failed, done, ran, enabled, unswitched, envfile, eth0,
                         stops, fails, edits>>
          /\ pc \in InHooks /\ pc' \in {"demo_open", "demo_write"} /\ "demo" \in queue
      BY <1>3 DEF DemoReads, DemoOpens, Goto, Turn, who, hooks, units, history, InHooks,
                  IInv, HookSteps
    <2>2. Due(Named)' = Due(Named) BY <2>1 DEF Due, Installed
    <2>3. TypeOK' BY <2>1 DEF IInv, TypeOK
    <2>4. UosSteps'
      BY <2>1 DEF IInv, UosSteps, HasEth0, HasFiles, HasUnits, InHooks, FileOf
    <2>5. HookSteps' BY <2>1, <2>2 DEF IInv, HookSteps, InHooks
    <2> QED BY <2>1, <2>3, <2>4, <2>5 DEF IInv
  <1>4. CASE DemoWrites
    <2>1. PICK ok \in BOOLEAN : HookEnds("demo", ok) BY <1>4 DEF DemoWrites
    <2>2. "demo" \in queue /\ pc \in InHooks
      BY <1>4 DEF DemoWrites, IInv, HookSteps, InHooks
    <2>3. UNCHANGED <<image, env, enabled, unswitched, envfile, eth0, stops, fails, edits>>
      BY <1>4 DEF DemoWrites, who, units, history
    <2> QED BY <2>1, <2>2, <2>3, HookEndsIInv DEF IInv, TypeOK
  <1>5. CASE HooksEnd
    <2>1. /\ UNCHANGED <<image, env, done, ran, enabled, unswitched, envfile, eth0, stops, fails, edits>>
          /\ pc = "hooks" /\ queue = {}
      BY <1>5 DEF HooksEnd, who, units, history
    <2>2. Due(Named)' = Due(Named) /\ Due(Named) \subseteq Due(Hooks) /\ Due(Hooks) \subseteq Hooks
      BY <2>1 DEF Due, Installed, Named
    <2>3. CASE pass = 1 /\ failed
      <3>1. pass' = 2 /\ failed' = FALSE /\ queue' = Due(Hooks) /\ pc' = "hooks"
        BY <1>5, <2>1, <2>3 DEF HooksEnd
      <3>2. TypeOK'
        <4>1. queue' \subseteq Hooks /\ pass' \in 0..2 BY <2>2, <3>1
        <4> QED BY <2>1, <3>1, <4>1 DEF IInv, TypeOK
      <3>3. UosSteps'
        BY <2>1, <3>1 DEF IInv, UosSteps, HasEth0, HasFiles, HasUnits, InHooks, FileOf
      <3>4. HookSteps'
        BY <2>1, <2>2, <2>3, <3>1 DEF IInv, HookSteps, InHooks
      <3> QED BY <2>1, <3>2, <3>3, <3>4 DEF IInv
    <2>4. CASE ~(pass = 1 /\ failed)
      <3>1. /\ pc' = IF pass = 2 /\ failed THEN "dead" ELSE "app"
            /\ UNCHANGED <<queue, pass, failed>>
        BY <1>5, <2>4 DEF HooksEnd, SecondPassStops
      <3>2. TypeOK' BY <2>1, <3>1 DEF IInv, TypeOK
      <3>3. UosSteps'
        BY <2>1, <3>1 DEF IInv, UosSteps, HasEth0, HasFiles, HasUnits, InHooks, FileOf
      <3>4. pc' = "app" => ~failed
        BY <2>1, <2>4, <3>1 DEF IInv, HookSteps, InHooks, TypeOK
      <3>5. HookSteps'
        BY <2>1, <2>2, <3>1, <3>4 DEF IInv, HookSteps, InHooks
      <3> QED BY <2>1, <3>2, <3>3, <3>5 DEF IInv
    <2> QED BY <2>3, <2>4
  <1> QED BY <1>1, <1>2, <1>3, <1>4, <1>5 DEF RunHooks

\* A container that goes down has nothing of its boot left.
LEMMA OutsideIInv ==
    ASSUME IInv,
           \/ Boot \/ Restart \/ \E c \in Containers : Recreate(c)
           \/ \E k \in Keys : AppStores(k)
           \/ \E ls \in HandFiles : Edit(ls)
    PROVE  IInv'
  <1> USE BoundsAreNat
  <1> DEFINE Files == [WithFile -> Texts]
  <1>1. CASE Boot
    <2>1. /\ pc = "off" /\ pc' = First /\ done' = {} /\ ran' = {}
          /\ UNCHANGED <<image, env, queue, pass, failed, enabled, unswitched, envfile, eth0,
                         stops, fails, edits>>
      BY <1>1 DEF Boot, Goto, who, units, history
    <2>2. TypeOK' BY <2>1 DEF IInv, TypeOK, First
    <2>3. UosSteps'
      BY <2>1 DEF First, UosSteps, HasEth0, HasFiles, HasUnits, InHooks
    <2>4. HookSteps' BY <2>1 DEF First, HookSteps, InHooks
    <2> QED BY <2>1, <2>2, <2>3, <2>4 DEF IInv
  <1>2. ASSUME Down PROVE /\ pc' = "off" /\ envfile' \in Files /\ unswitched' = {}
                          /\ eth0' = "none" /\ queue' = {} /\ pass' = 0 /\ failed' = FALSE
                          /\ UNCHANGED <<done, ran>>
    BY <1>2 DEF Down, NoLine, Texts
  <1>3. CASE Restart
    <2>1. stops' \in 0..MaxStops BY <1>3 DEF Restart, IInv, TypeOK
    <2>2. UNCHANGED <<image, env, enabled, fails, edits>> /\ Down BY <1>3 DEF Restart, who
    <2>3. TypeOK' BY <1>2, <2>1, <2>2 DEF IInv, TypeOK
    <2>4. UosSteps' /\ HookSteps'
      BY <1>2, <2>2 DEF UosSteps, HookSteps, HasEth0, HasFiles, HasUnits, InHooks
    <2> QED BY <1>2, <2>2, <2>3, <2>4 DEF IInv
  <1>4. ASSUME NEW c \in Containers, Recreate(c) PROVE IInv'
    <2>1. env' = c /\ enabled' = image.built /\ UNCHANGED <<image, stops, fails, edits>> /\ Down
      BY <1>4 DEF Recreate, history
    <2>2. image.built \subseteq Units BY WhoseTypes DEF IInv
    <2>3. TypeOK' BY <1>2, <2>1, <2>2 DEF IInv, TypeOK
    <2>4. UosSteps' /\ HookSteps'
      BY <1>2, <2>1 DEF UosSteps, HookSteps, HasEth0, HasFiles, HasUnits, InHooks
    <2> QED BY <1>2, <2>1, <2>3, <2>4 DEF IInv
  <1>5. CASE (\E k \in Keys : AppStores(k)) \/ (\E ls \in HandFiles : Edit(ls))
    <2>1. /\ UNCHANGED <<image, env, pc, queue, pass, failed, done, ran, enabled, unswitched, envfile, eth0,
                         stops, fails>>
          /\ edits' \in 0..MaxEdits
      <3>1. edits < MaxEdits /\ edits' = edits + 1 BY <1>5 DEF AppStores, Edit, Change
      <3>2. edits \in 0..MaxEdits BY DEF IInv, TypeOK
      <3>3. UNCHANGED <<who, pc, hooks, units, stops, fails>>
        <4>1. CASE \E k \in Keys : AppStores(k) BY <4>1 DEF AppStores
        <4>2. CASE \E ls \in HandFiles : Edit(ls) BY <4>2 DEF Edit
        <4> QED BY <1>5, <4>1, <4>2
      <3> QED BY <3>1, <3>2, <3>3 DEF who, hooks, units
    <2>2. Due(Named)' = Due(Named) BY <2>1 DEF Due, Installed
    <2>3. TypeOK' BY <2>1 DEF IInv, TypeOK
    <2>4. UosSteps' BY <2>1 DEF IInv, UosSteps, FileOf
    <2>5. HookSteps' BY <2>1, <2>2 DEF IInv, HookSteps
    <2> QED BY <2>1, <2>3, <2>4, <2>5 DEF IInv
  <1> QED BY <1>1, <1>3, <1>4, <1>5

LEMMA NextIInv == IInv /\ [Next]_vars => IInv'
  <1> SUFFICES ASSUME IInv, [Next]_vars PROVE IInv' OBVIOUS
  <1>1. CASE UNCHANGED vars
    <2>1. UNCHANGED <<image, env, pc, queue, pass, failed, done, ran, enabled, unswitched, envfile, eth0,
                      stops, fails, edits>>
      BY <1>1 DEF vars, who, hooks, units, history
    <2>2. Due(Named)' = Due(Named) BY <2>1 DEF Due, Installed
    <2> QED BY <2>1, <2>2 DEF IInv, TypeOK, UosSteps, HookSteps, FileOf
  <1> QED BY <1>1, NetworkIInv, UniFiOsIInv, HooksIInv, OutsideIInv DEF Next

LEMMA AlwaysIInv == Spec => []IInv
  BY InitIInv, NextIInv, PTL DEF Spec

\* Type correctness, for any images, environments and bounds.
THEOREM BootTypes == Spec => []TypeOK
  <1>1. IInv => TypeOK BY DEF IInv
  <1> QED BY <1>1, AlwaysIInv, PTL

\* When systemd takes over, a unit runs exactly if this container's flag says so
\* and reads what the healthcheck reads (uos.py:226, 273).
THEOREM UnitsAreThisContainers == Spec => []UnitsMatchTheEnvironment
  <1>1. IInv => UnitsMatchTheEnvironment
    BY UnitResolves
    DEF IInv, UosSteps, HasEth0, HasFiles, HasUnits, UnitsMatchTheEnvironment
  <1> QED BY <1>1, AlwaysIInv, PTL

\* The controller starts after every hook of its image has succeeded in this boot
\* (network.py:223, uos.py:350).
THEOREM ControllerFollowsItsHooks == Spec => []HooksComeFirst
  <1>1. IInv => HooksComeFirst
    BY DEF IInv, HookSteps, HooksComeFirst
  <1> QED BY <1>1, AlwaysIInv, PTL

-----------------------------------------------------------------------------
(* parse: one element.                                                     *)

\* What a file's elements are.
Parsed ==
    [what : {"comment", "blank"}, src : Seq(Lines)]
    \cup [what : {"entry"}, key : STRING, src : Seq(Lines), val : Seq(STRING) \ {<<>>}]

\* An element goes on to the first line that stops it, or to the last of the file ...
LEMMA EndOfIs ==
  ASSUME NEW ls \in Seq(Lines), NEW i \in 1..Len(ls)
  PROVE  /\ EndOf(ls, i) \in i..Len(ls)
         /\ EndOf(ls, i) = Len(ls) \/ Stops(ls, i, EndOf(ls, i))
         /\ \A j \in i..(EndOf(ls, i) - 1) : ~Stops(ls, i, j)
  <1> DEFINE T == {j \in i..Len(ls) : j = Len(ls) \/ Stops(ls, i, j)}
  <1>1. T \in SUBSET Nat /\ Len(ls) \in T OBVIOUS
  <1>2. EndOf(ls, i) = Min(T) BY DEF EndOf
  <1>3. EndOf(ls, i) \in T /\ \A j \in T : EndOf(ls, i) <= j
    <2> HIDE DEF T
    <2> QED BY <1>1, <1>2, MinIs
  <1> QED BY <1>3

\* ... and no other line has that place.
LEMMA EndOfOnly ==
  ASSUME NEW ls \in Seq(Lines), NEW i \in 1..Len(ls), NEW e \in i..Len(ls),
         e = Len(ls) \/ Stops(ls, i, e),
         \A j \in i..(e - 1) : ~Stops(ls, i, j)
  PROVE  EndOf(ls, i) = e
  <1> DEFINE d == EndOf(ls, i)
  <1>1. /\ d \in i..Len(ls)
        /\ d = Len(ls) \/ Stops(ls, i, d)
        /\ \A j \in i..(d - 1) : ~Stops(ls, i, j)
    BY EndOfIs
  <1> HIDE DEF d
  <1>2. ~(d < e) /\ ~(e < d) BY <1>1
  <1> QED BY <1>1, <1>2 DEF d

\* The first line with text on it is one.
LEMMA WrittenMin ==
  ASSUME NEW src \in Seq(Lines), WrittenIn(src) # {}
  PROVE  Min(WrittenIn(src)) \in WrittenIn(src)
  <1>1. WrittenIn(src) \in SUBSET Nat BY DEF WrittenIn
  <1> QED BY <1>1, MinIs

\* What the parser makes of some lines is an element that remembers them.
LEMMA ElementType ==
  ASSUME NEW src \in Seq(Lines), src # <<>>
  PROVE  Element(src) \in Parsed /\ Element(src).src = src
  <1> DEFINE pieces == [n \in DOMAIN src |-> Adds(src, n)]
  <1>0. DOMAIN src = 1..Len(src) /\ Len(src) \in Nat OBVIOUS
  <1>1. CASE src[1].what = "comment" BY <1>1 DEF Element, Parsed
  <1>2. CASE src[1].what # "comment" /\ WrittenIn(src) = {} BY <1>2 DEF Element, Parsed
  <1>3. CASE src[1].what # "comment" /\ WrittenIn(src) # {}
    <2> DEFINE m == Min(WrittenIn(src))
    <2>1. m \in WrittenIn(src) BY <1>3, WrittenMin
    <2> HIDE DEF m
    <2>2. m \in DOMAIN src /\ src[m] \in Lines /\ src[m].what # "blank"
      BY <2>1, ElementOfSeq DEF WrittenIn
    <2>3. src[m].key \in STRING /\ src[m].val \in Seq(STRING) /\ src[m].val # <<>>
      BY <2>2 DEF Lines
    <2>4. \A n \in DOMAIN src : Adds(src, n) \in Seq(STRING)
      <3> SUFFICES ASSUME NEW n \in DOMAIN src PROVE Adds(src, n) \in Seq(STRING) OBVIOUS
      <3>1. src[n] \in Lines BY ElementOfSeq
      <3>2. src[n].key \in STRING /\ src[n].val \in Seq(STRING) BY <3>1 DEF Lines
      <3>3. <<src[n].key>> \o src[n].val \in Seq(STRING) BY <3>2
      <3>4. <<>> \in Seq(STRING) OBVIOUS
      <3> QED BY <3>2, <3>3, <3>4 DEF Adds
    <2>5. pieces \in Seq(Seq(STRING)) /\ pieces[m] # <<>> /\ m \in DOMAIN pieces
      <3>1. pieces \in Seq(Seq(STRING)) BY <1>0, <2>4
      <3>2. pieces[m] = src[m].val BY <2>1, <2>2 DEF Adds, m
      <3> QED BY <3>1, <3>2, <2>2, <2>3
    <2>6. FlattenSeq(pieces) \in Seq(STRING) \ {<<>>}
      <3> HIDE DEF pieces
      <3> QED BY <2>5, FlatType
    <2>7. Element(src) = [what |-> "entry", key |-> src[m].key,
         src |-> src, val |-> FlattenSeq(pieces)]
      BY <1>3 DEF Element, m
    <2> HIDE DEF pieces
    <2> QED BY <2>3, <2>6, <2>7 DEF Parsed
  <1> QED BY <1>1, <1>2, <1>3

\* The lines of two elements read the same when they differ in their ends only.
SameText(a, b) == a.what = b.what /\ a.key = b.key /\ a.val = b.val

SameElement(x, y) == /\ x.what = y.what
                     /\ x.what = "entry" => x.key = y.key /\ x.val = y.val

\* How a line ends is no part of what its element says.
LEMMA EndsDoNotRead ==
  ASSUME NEW s \in Seq(Lines), NEW t \in Seq(Lines), s # <<>>, Len(s) = Len(t),
         \A n \in 1..Len(s) : SameText(s[n], t[n])
  PROVE  SameElement(Element(s), Element(t))
  <1>0. DOMAIN s = 1..Len(s) /\ DOMAIN t = 1..Len(s) /\ 1 \in DOMAIN s OBVIOUS
  <1>1. WrittenIn(s) = WrittenIn(t) BY <1>0 DEF WrittenIn, SameText
  <1>2. \A n \in 1..Len(s) : Adds(s, n) = Adds(t, n) BY <1>0, <1>1 DEF Adds, SameText
  <1>3. [n \in DOMAIN s |-> Adds(s, n)] = [n \in DOMAIN t |-> Adds(t, n)] BY <1>0, <1>2
  <1>4. s[1].what = t[1].what BY <1>0 DEF SameText
  <1>5. WrittenIn(s) # {} => s[Min(WrittenIn(s))].key = t[Min(WrittenIn(s))].key
    <2> SUFFICES ASSUME WrittenIn(s) # {} PROVE s[Min(WrittenIn(s))].key = t[Min(WrittenIn(s))].key
      OBVIOUS
    <2>1. Min(WrittenIn(s)) \in 1..Len(s) BY <1>0, WrittenMin DEF WrittenIn
    <2> QED BY <2>1 DEF SameText
  <1>6. CASE s[1].what = "comment" BY <1>4, <1>6 DEF Element, SameElement
  <1>7. CASE s[1].what # "comment" /\ WrittenIn(s) = {} BY <1>1, <1>4, <1>7 DEF Element, SameElement
  <1>8. CASE s[1].what # "comment" /\ WrittenIn(s) # {}
    BY <1>1, <1>3, <1>4, <1>5, <1>8 DEF Element, SameElement
  <1> QED BY <1>6, <1>7, <1>8

-----------------------------------------------------------------------------
(* parse: a whole file.                                                    *)

\* What line i, and the lines after it, are read as.
ReadOn(ls, g, i) ==
    IF i > Len(ls) THEN <<>>
    ELSE <<Element(SubSeq(ls, i, EndOf(ls, i)))>> \o g[EndOf(ls, i) + 1]

From(ls) == CHOOSE f : f = [i \in 1..Len(ls) + 1 |->
            IF i > Len(ls) THEN <<>>
            ELSE <<Element(SubSeq(ls, i, EndOf(ls, i)))>> \o f[EndOf(ls, i) + 1]]

\* Elements by its name here.
LEMMA ElementsFrom == ASSUME NEW ls PROVE Elements(ls) = From(ls)[1]
  BY DEF Elements, From

\* The parser's recursive function exists: it is found from the last line back.
LEMMA FromIs ==
  ASSUME NEW ls \in Seq(Lines)
  PROVE  \A i \in 1..Len(ls) + 1 : From(ls)[i] = ReadOn(ls, From(ls), i)
  <1> DEFINE L == Len(ls)
             Solves(g, d) == \A i \in 1..L + 1 : i + d >= L + 1 => g[i] = ReadOn(ls, g, i)
             S == {d \in Nat : \E g : Solves(g, d)}
  <1>0. L \in Nat OBVIOUS
  <1>1. 0 \in S
    <2> DEFINE g == [i \in 1..L+1 |-> <<>>]
    <2>1. ASSUME NEW i \in 1..L+1, i + 0 >= L + 1 PROVE g[i] = ReadOn(ls, g, i)
      <3>1. i > L BY <2>1
      <3> QED BY <3>1 DEF ReadOn
    <2>2. Solves(g, 0) BY <2>1
    <2> HIDE DEF Solves, g
    <2> QED BY <2>2
  <1>2. ASSUME NEW d \in Nat, d \in S PROVE d + 1 \in S
    <2>1. PICK g : Solves(g, d) BY <1>2
    <2> DEFINE h == [i \in 1..L+1 |-> ReadOn(ls, g, i)]
    <2>2. \A i \in 1..L+1 : h[i] = ReadOn(ls, g, i) /\ (i + d >= L + 1 => h[i] = g[i])
      BY <2>1
    <2>3. ASSUME NEW i \in 1..L+1, i + (d + 1) >= L + 1 PROVE h[i] = ReadOn(ls, h, i)
      <3>1. CASE i > L
        <4> HIDE DEF h
        <4> QED BY <2>2, <3>1 DEF ReadOn
      <3>2. CASE i <= L
        <4>1. EndOf(ls, i) \in i..L BY <3>2, EndOfIs
        <4> DEFINE k == EndOf(ls, i) + 1
        <4>2. k \in 1..L+1 /\ k + d >= L + 1 BY <2>3, <4>1
        <4>3. h[k] = g[k]
          <5> HIDE DEF h, k
          <5> QED BY <2>2, <4>2
        <4> HIDE DEF h
        <4> QED BY <2>2, <4>3 DEF ReadOn
      <3> QED BY <3>1, <3>2
    <2>4. Solves(h, d + 1) BY <2>3
    <2> HIDE DEF Solves, h
    <2> QED BY <2>4
  <1>3. PICK g : Solves(g, L)
    <2> HIDE DEF S, Solves
    <2>1. L \in S BY <1>0, <1>1, <1>2, UpTo
    <2> QED BY <2>1 DEF S
  <1> DEFINE f == [i \in 1..L + 1 |-> g[i]]
  <1>4. ASSUME NEW i \in 1..L+1 PROVE g[i] = ReadOn(ls, f, i)
    <2>1. g[i] = ReadOn(ls, g, i) BY <1>3
    <2>2. CASE i > L BY <2>1, <2>2 DEF ReadOn
    <2>3. CASE i <= L
      <3>1. EndOf(ls, i) \in i..L BY <2>3, EndOfIs
      <3>2. f[EndOf(ls, i) + 1] = g[EndOf(ls, i) + 1] BY <3>1
      <3> HIDE DEF f
      <3> QED BY <2>1, <3>2 DEF ReadOn
    <2> QED BY <2>2, <2>3
  <1>5. f = [i \in 1..L + 1 |->
            IF i > L THEN <<>>
            ELSE <<Element(SubSeq(ls, i, EndOf(ls, i)))>> \o f[EndOf(ls, i) + 1]]
    BY <1>4 DEF ReadOn
  <1>6. From(ls) = [i \in 1..L + 1 |->
            IF i > L THEN <<>>
            ELSE <<Element(SubSeq(ls, i, EndOf(ls, i)))>> \o From(ls)[EndOf(ls, i) + 1]]
    <2> HIDE DEF f
    <2> QED BY <1>5 DEF From
  <1> DEFINE F == From(ls)
  <1>7. F = [i \in 1..L + 1 |->
            IF i > L THEN <<>>
            ELSE <<Element(SubSeq(ls, i, EndOf(ls, i)))>> \o F[EndOf(ls, i) + 1]] BY <1>6
  <1> HIDE DEF F
  <1>8. \A i \in 1..L+1 : F[i] = ReadOn(ls, F, i) BY <1>7 DEF ReadOn
  <1> QED BY <1>8 DEF F

\* els is what the lines after the first i are read as, element n ending with line e[n].
IsParse(ls, i, els, e) ==
    /\ els \in Seq(Parsed)
    /\ e \in [0..Len(els) -> i..Len(ls)]
    /\ e[0] = i /\ e[Len(els)] = Len(ls)
    /\ \A n \in 1..Len(els) : /\ e[n-1] < e[n]
                              /\ e[n] = EndOf(ls, e[n-1] + 1)
                              /\ els[n] = Element(SubSeq(ls, e[n-1] + 1, e[n]))

\* Every file is cut into elements, and Elements is what they are ...
LEMMA ParseExists ==
  ASSUME NEW ls \in Seq(Lines)
  PROVE  \E e : IsParse(ls, 0, Elements(ls), e)
  <1> DEFINE L == Len(ls)
             P(i) == \E e : IsParse(ls, i, From(ls)[i+1], e)
             S == {d \in Nat : \A i \in 0..L : i + d >= L => P(i)}
  <1>0. L \in Nat OBVIOUS
  <1>f. \A i \in 1..Len(ls) + 1 : From(ls)[i] = ReadOn(ls, From(ls), i) BY FromIs
  <1>1. 0 \in S
    <2>1. From(ls)[L+1] = <<>>
      <3>1. L + 1 \in 1..Len(ls) + 1 /\ L + 1 > Len(ls) BY <1>0
      <3>2. From(ls)[L+1] = ReadOn(ls, From(ls), L + 1) BY <1>f, <3>1
      <3> QED BY <3>1, <3>2 DEF ReadOn
    <2>2. IsParse(ls, L, <<>>, [n \in 0..0 |-> L]) BY <1>0 DEF IsParse
    <2>3. P(L) BY <2>1, <2>2
    <2>4. \A i \in 0..L : i + 0 >= L => i = L BY <1>0
    <2> HIDE DEF P
    <2> QED BY <2>3, <2>4
  <1>2. ASSUME NEW d \in Nat, d \in S PROVE d + 1 \in S
    <2> SUFFICES ASSUME NEW i \in 0..L, i + (d + 1) >= L PROVE P(i) OBVIOUS
    <2>1. CASE i = L
      <3>1. L + d >= L /\ L \in 0..L BY <1>0
      <3> HIDE DEF P
      <3> QED BY <1>2, <2>1, <3>1
    <2>2. CASE i # L
      <3>1. i + 1 \in 1..L /\ i + 1 \in 1..L+1 BY <1>0, <2>2
      <3> DEFINE k == EndOf(ls, i + 1)
                 src == SubSeq(ls, i + 1, k)
      <3>2. k \in (i+1)..L BY <3>1, EndOfIs
      <3>3. k \in 0..L /\ k + d >= L BY <1>0, <3>2
      <3>4. P(k)
        <4> HIDE DEF P, k
        <4> QED BY <1>2, <3>3
      <3> DEFINE els == From(ls)[k+1]
      <3>5. PICK e : IsParse(ls, k, els, e) BY <3>4
      <3> DEFINE els2 == <<Element(src)>> \o els
                 e2 == [n \in 0..Len(els) + 1 |-> IF n = 0 THEN i ELSE e[n-1]]
      <3>6. From(ls)[i+1] = els2
        <4>1. ~(i + 1 > L) BY <3>1
        <4> QED BY <1>f, <3>1, <4>1 DEF ReadOn
      <3>7. Element(src) \in Parsed
        <4>1. src \in Seq(Lines) /\ Len(src) = k - i
          BY <3>2, SubSeqProperties
        <4>2. src # <<>>
          <5>1. k - i # 0 BY <3>2
          <5> HIDE DEF src, k
          <5> QED BY <4>1, <5>1
        <4> HIDE DEF src
        <4> QED BY <4>1, <4>2, ElementType
      <3> HIDE DEF els
      <3>8. els \in Seq(Parsed) /\ Len(els) \in Nat BY <3>5 DEF IsParse
      <3>9. /\ els2 \in Seq(Parsed) /\ Len(els2) = Len(els) + 1 /\ els2[1] = Element(src)
            /\ \A n \in 1..Len(els) : els2[n+1] = els[n]
        <4> HIDE DEF src
        <4> QED BY <3>7, <3>8
      <3>10. e2 \in [0..Len(els2) -> i..L] /\ e2[0] = i /\ e2[Len(els2)] = L
        <4>1. e \in [0..Len(els) -> k..L] /\ e[0] = k /\ e[Len(els)] = L BY <3>5 DEF IsParse
        <4>2. \A n \in 0..Len(els) + 1 : n # 0 => n - 1 \in 0..Len(els) BY <3>8
        <4>3. \A n \in 0..Len(els) + 1 : (IF n = 0 THEN i ELSE e[n-1]) \in i..L
          <5> HIDE DEF k
          <5> QED BY <3>2, <4>1, <4>2
        <4>4. Len(els2) = Len(els) + 1 BY <3>9
        <4>5. e2 \in [0..Len(els) + 1 -> i..L] BY <4>3
        <4>6. e2[0] = i BY <3>8
        <4>7. e2[Len(els) + 1] = L BY <3>8, <4>1
        <4> QED BY <4>4, <4>5, <4>6, <4>7
      <3>11. ASSUME NEW n \in 1..Len(els2)
             PROVE  /\ e2[n-1] < e2[n]
                    /\ e2[n] = EndOf(ls, e2[n-1] + 1)
                    /\ els2[n] = Element(SubSeq(ls, e2[n-1] + 1, e2[n]))
        <4>0. n \in 1..Len(els) + 1 /\ n - 1 \in 0..Len(els) /\ n \in 0..Len(els) + 1
          BY <3>8, <3>9
        <4>b. e2[n] = e[n-1] BY <4>0
        <4>1. CASE n = 1
          <5>1. e2[0] = i /\ e2[1] = k
            <6>1. e[0] = k BY <3>5 DEF IsParse
            <6>2. e2[0] = i /\ e2[1] = e[0] BY <3>8
            <6> QED BY <6>1, <6>2
          <5>2. 1 - 1 = 0 /\ i < k BY <3>2
          <5>3. els2[1] = Element(SubSeq(ls, i + 1, k)) BY <3>9
          <5>4. n - 1 = 0 BY <4>1
          <5> HIDE DEF e2, els2
          <5> QED BY <4>1, <5>1, <5>2, <5>3, <5>4
        <4>2. CASE n # 1
          <5>1. n - 1 \in 1..Len(els) /\ (n-1)-1 \in 0..Len(els) /\ n-1 # 0 /\ n - 1 \in 0..Len(els) + 1
               BY <4>0, <4>2
          <5>2. e2[n-1] = e[(n-1)-1] BY <5>1
          <5>3. /\ e[(n-1)-1] < e[n-1]
                /\ e[n-1] = EndOf(ls, e[(n-1)-1] + 1)
                /\ els[n-1] = Element(SubSeq(ls, e[(n-1)-1] + 1, e[n-1]))
            BY <3>5, <5>1 DEF IsParse
          <5>4. els2[n] = els[n-1]
            <6>1. (n-1)+1 = n BY <4>0
            <6> HIDE DEF els2
            <6> QED BY <3>9, <5>1, <6>1
          <5> HIDE DEF e2, els2
          <5> QED BY <4>b, <5>2, <5>3, <5>4
        <4> QED BY <4>1, <4>2
      <3>12. IsParse(ls, i, els2, e2)
        <4> HIDE DEF els2, e2
        <4> QED BY <3>9, <3>10, <3>11 DEF IsParse
      <3> HIDE DEF e2, els2
      <3> QED BY <3>6, <3>12
    <2> QED BY <2>1, <2>2
  <1>3. P(0)
    <2> HIDE DEF P
    <2>1. L \in S BY <1>0, <1>1, <1>2, UpTo
    <2>2. 0 \in 0..L /\ 0 + L >= L BY <1>0
    <2> QED BY <2>1, <2>2
  <1> QED BY <1>3, ElementsFrom

\* ... whichever way the cutting was found.
LEMMA ParseOnly ==
  ASSUME NEW ls \in Seq(Lines), NEW els, NEW e, IsParse(ls, 0, els, e)
  PROVE  Elements(ls) = els
  <1> DEFINE L == Len(ls)
             N == Len(els)
             S == {d \in Nat : \A n \in 0..N : n + d = N =>
                  From(ls)[e[n] + 1] = SubSeq(els, n + 1, N)}
  <1>0. /\ L \in Nat /\ N \in Nat /\ els \in Seq(Parsed) /\ e \in [0..N -> 0..L]
        /\ e[0] = 0 /\ e[N] = L
    BY DEF IsParse
  <1>f. \A i \in 1..Len(ls) + 1 : From(ls)[i] = ReadOn(ls, From(ls), i) BY FromIs
  <1>1. 0 \in S
    <2>1. From(ls)[L+1] = <<>>
      <3>1. L + 1 \in 1..Len(ls) + 1 /\ L + 1 > Len(ls) BY <1>0
      <3>2. From(ls)[L+1] = ReadOn(ls, From(ls), L + 1) BY <1>f, <3>1
      <3> QED BY <3>1, <3>2 DEF ReadOn
    <2>2. SubSeq(els, N + 1, N) = <<>> BY <1>0, SubSeqEmpty
    <2>3. \A n \in 0..N : n + 0 = N => n = N BY <1>0
    <2> QED BY <1>0, <2>1, <2>2, <2>3
  <1>2. ASSUME NEW d \in Nat, d \in S PROVE d + 1 \in S
    <2> SUFFICES ASSUME NEW n \in 0..N, n + (d + 1) = N
                 PROVE  From(ls)[e[n] + 1] = SubSeq(els, n + 1, N)
      OBVIOUS
    <2>1. n + 1 \in 1..N /\ n + 1 \in 0..N /\ (n + 1) + d = N /\ (n + 1) - 1 = n BY <1>0
    <2>2. From(ls)[e[n+1] + 1] = SubSeq(els, (n + 1) + 1, N) BY <1>2, <2>1
    <2>3. /\ e[n] < e[n+1] /\ e[n+1] = EndOf(ls, e[n] + 1)
          /\ els[n+1] = Element(SubSeq(ls, e[n] + 1, e[n+1]))
      BY <2>1 DEF IsParse
    <2>4. e[n] \in 0..L /\ e[n+1] \in 0..L BY <1>0, <2>1
    <2>5. e[n] + 1 \in 1..L /\ e[n] + 1 \in 1..L+1 /\ ~(e[n] + 1 > L) BY <1>0, <2>3, <2>4
    <2>6. From(ls)[e[n] + 1] = <<els[n+1]>> \o SubSeq(els, (n + 1) + 1, N)
      BY <1>f, <2>2, <2>3, <2>5 DEF ReadOn
    <2>7. <<els[n+1]>> \o SubSeq(els, (n + 1) + 1, N) = SubSeq(els, n + 1, N)
      <3> HIDE DEF N
      <3>1. <<els[n+1]>> = SubSeq(els, n+1, n+1) BY <1>0, <2>1 DEF N
      <3>2. SubSeq(els, n+1, n+1) \o SubSeq(els, (n + 1) + 1, N) = SubSeq(els, n + 1, N)
        <4>1. n + 1 \in 1..N+1 /\ n + 1 \in ((n+1)-1)..N /\ N \in (n+1)..N BY <1>0, <2>1
        <4> QED BY <1>0, <4>1, ConcatAdjacentSubSeq DEF N
      <3> QED BY <3>1, <3>2
    <2> QED BY <2>6, <2>7
  <1>3. From(ls)[1] = els
    <2>1. N \in S
      <3> HIDE DEF S
      <3> QED BY <1>0, <1>1, <1>2, UpTo
    <2>2. 0 \in 0..N /\ 0 + N = N BY <1>0
    <2>3. From(ls)[e[0] + 1] = SubSeq(els, 0 + 1, N) BY <2>1, <2>2
    <2>4. SubSeq(els, 1, N) = els BY <1>0, SubSeqFull
    <2> QED BY <1>0, <2>3, <2>4
  <1> QED BY <1>3, ElementsFrom

\* Of one element: the lines it ends with and those it is made of.
LEMMA PiecesOf ==
  ASSUME NEW ls \in Seq(Lines), NEW els, NEW e, IsParse(ls, 0, els, e), NEW n \in 1..Len(els)
  PROVE  /\ n - 1 \in 0..Len(els) /\ n \in 0..Len(els)
         /\ e[n-1] \in 0..Len(ls) /\ e[n] \in 0..Len(ls) /\ e[n-1] < e[n]
         /\ SubSeq(ls, e[n-1] + 1, e[n]) \in Seq(Lines) \ {<<>>}
         /\ els[n] = Element(SubSeq(ls, e[n-1] + 1, e[n]))
         /\ els[n] \in Parsed
         /\ els[n].src = SubSeq(ls, e[n-1] + 1, e[n])
  <1>1. Len(els) \in Nat /\ Len(ls) \in Nat BY DEF IsParse
  <1>2. n - 1 \in 0..Len(els) /\ n \in 0..Len(els) BY <1>1
  <1>3. /\ e[n-1] \in 0..Len(ls) /\ e[n] \in 0..Len(ls) /\ e[n-1] < e[n]
        /\ els[n] = Element(SubSeq(ls, e[n-1] + 1, e[n]))
    BY <1>2 DEF IsParse
  <1> DEFINE src == SubSeq(ls, e[n-1] + 1, e[n])
  <1>4. src \in Seq(Lines) /\ Len(src) = e[n] - e[n-1]
    <2>1. e[n-1] + 1 \in 1..Len(ls)+1 /\ e[n] \in e[n-1]..Len(ls) BY <1>1, <1>3
    <2> QED BY <1>1, <1>3, <2>1, SubSeqProperties
  <1>5. src # <<>>
    <2>1. e[n] - e[n-1] # 0 BY <1>1, <1>3
    <2> HIDE DEF src
    <2> QED BY <1>4, <2>1
  <1>6. Element(src) \in Parsed /\ Element(src).src = src
    <2> HIDE DEF src
    <2> QED BY <1>4, <1>5, ElementType
  <1> QED BY <1>2, <1>3, <1>4, <1>5, <1>6

\* What is only read is written back as it was.
LEMMA DumpsParse ==
  ASSUME NEW ls \in Seq(Lines)
  PROVE  Dumps(Elements(ls)) = ls
  <1>1. PICK e : IsParse(ls, 0, Elements(ls), e) BY ParseExists
  <1> DEFINE els == Elements(ls)
             ss == [n \in DOMAIN els |-> Written(els[n])]
             N == Len(els)
  <1>2. N \in Nat /\ DOMAIN els = 1..N /\ e \in [0..N -> 0..Len(ls)] /\ e[0] = 0 /\ e[N] = Len(ls)
    BY <1>1 DEF IsParse
  <1>3. ASSUME NEW n \in 1..N
        PROVE  /\ ss[n] = SubSeq(ls, e[n-1] + 1, e[n])
               /\ ss[n] \in Seq(Lines)
               /\ e[n-1] <= e[n]
    <2> HIDE DEF els
    <2>1. /\ e[n-1] \in 0..Len(ls) /\ e[n] \in 0..Len(ls) /\ e[n-1] < e[n]
          /\ SubSeq(ls, e[n-1] + 1, e[n]) \in Seq(Lines) \ {<<>>}
          /\ els[n].src = SubSeq(ls, e[n-1] + 1, e[n])
      BY <1>1, PiecesOf DEF els
    <2>2. ss[n] = Written(els[n]) BY <1>2
    <2> DEFINE src == SubSeq(ls, e[n-1] + 1, e[n])
    <2>3. ss[n] = src
      <3>1. els[n].src = src /\ src # <<>> BY <2>1
      <3> HIDE DEF src, ss
      <3> QED BY <2>2, <3>1 DEF Written
    <2>4. src \in Seq(Lines) BY <2>1
    <2>5. e[n-1] <= e[n] BY <2>1
    <2> HIDE DEF src, ss
    <2> QED BY <2>3, <2>4, <2>5 DEF src
  <1>4. ss \in Seq(Seq(Lines)) /\ Len(ss) = N
    <2> HIDE DEF els
    <2>1. DOMAIN ss = 1..N BY <1>2
    <2>2. ss = [n \in 1..N |-> ss[n]] BY <1>2
    <2> HIDE DEF ss
    <2> QED BY <1>2, <1>3, <2>1, <2>2
  <1>5. FlattenSeq(ss) = SubSeq(ls, 1, e[Len(ss)])
    <2> HIDE DEF ss, els
    <2>1. e \in [0..Len(ss) -> 0..Len(ls)] BY <1>2, <1>4
    <2> QED BY <1>2, <1>3, <1>4, <2>1, FlatOfPieces
  <1>6. SubSeq(ls, 1, Len(ls)) = ls BY SubSeqFull
  <1> QED BY <1>2, <1>4, <1>5, <1>6 DEF Dumps

\* els is what the first lines are read as, up to line e[Len(els)].
IsPart(ls, els, e) ==
    /\ els \in Seq(Parsed)
    /\ e \in [0..Len(els) -> 0..Len(ls)]
    /\ e[0] = 0
    /\ \A n \in 1..Len(els) : /\ e[n-1] < e[n]
                              /\ e[n] = EndOf(ls, e[n-1] + 1)
                              /\ els[n] = Element(SubSeq(ls, e[n-1] + 1, e[n]))

Longer(els, e, to) == [n \in 0..Len(els) + 1 |-> IF n = Len(els) + 1 THEN to ELSE e[n]]

\* Of no line nothing is read.
LEMMA NoPart == ASSUME NEW ls \in Seq(Lines) PROVE IsPart(ls, <<>>, [n \in 0..0 |-> 0])
  BY DEF IsPart

\* One element more.
LEMMA PartGoesOn ==
  ASSUME NEW ls \in Seq(Lines), NEW els, NEW e, IsPart(ls, els, e),
         NEW from, from = e[Len(els)], from < Len(ls),
         NEW to \in 0..Len(ls), to = EndOf(ls, from + 1)
  PROVE  /\ IsPart(ls, Append(els, Element(SubSeq(ls, from + 1, to))), Longer(els, e, to))
         /\ Longer(els, e, to)[Len(els) + 1] = to
  <1> DEFINE N == Len(els)
             src == SubSeq(ls, from + 1, to)
             els2 == Append(els, Element(src))
             e2 == Longer(els, e, to)
  <1>0. N \in Nat /\ Len(ls) \in Nat /\ els \in Seq(Parsed) /\
       e \in [0..N -> 0..Len(ls)] /\ e[0] = 0
    BY DEF IsPart
  <1>1. from \in 0..Len(ls) BY <1>0
  <1>2. from + 1 \in 1..Len(ls) /\ to \in (from+1)..Len(ls) /\ from < to
    <2>1. from + 1 \in 1..Len(ls) BY <1>0, <1>1
    <2>2. to \in (from+1)..Len(ls) BY <2>1, EndOfIs
    <2> QED BY <1>1, <2>1, <2>2
  <1>3. Element(src) \in Parsed
    <2>1. src \in Seq(Lines) /\ Len(src) = to - from BY <1>0, <1>1, <1>2, SubSeqProperties
    <2>2. src # <<>>
      <3>1. to - from # 0 BY <1>1, <1>2
      <3> HIDE DEF src
      <3> QED BY <2>1, <3>1
    <2> HIDE DEF src
    <2> QED BY <2>1, <2>2, ElementType
  <1>4. /\ els2 \in Seq(Parsed) /\ Len(els2) = N + 1
        /\ els2[N+1] = Element(src) /\ \A n \in 1..N : els2[n] = els[n]
    <2> HIDE DEF src
    <2> QED BY <1>0, <1>3
  <1>5. /\ e2 \in [0..N+1 -> 0..Len(ls)] /\ e2[N+1] = to /\ e2[0] = 0
        /\ \A n \in 0..N : e2[n] = e[n]
    <2>1. \A n \in 0..N+1 : n # N + 1 => n \in 0..N BY <1>0
    <2>2. \A n \in 0..N : n # N + 1 /\ n \in 0..N+1 BY <1>0
    <2>3. N + 1 \in 0..N+1 /\ 0 \in 0..N BY <1>0
    <2> HIDE DEF N
    <2> QED BY <1>0, <2>1, <2>2, <2>3 DEF Longer, N
  <1>6. ASSUME NEW n \in 1..N+1
        PROVE  /\ e2[n-1] < e2[n]
               /\ e2[n] = EndOf(ls, e2[n-1] + 1)
               /\ els2[n] = Element(SubSeq(ls, e2[n-1] + 1, e2[n]))
    <2>1. CASE n = N + 1
      <3>1. n - 1 = N /\ N \in 0..N BY <1>0, <2>1
      <3>2. e2[n-1] = from /\ e2[n] = to BY <1>5, <2>1, <3>1
      <3> HIDE DEF e2, els2
      <3> QED BY <1>2, <1>4, <2>1, <3>2
    <2>2. CASE n # N + 1
      <3>1. n \in 1..N /\ n - 1 \in 0..N /\ n \in 0..N BY <1>0, <2>2
      <3>2. e2[n-1] = e[n-1] /\ e2[n] = e[n] BY <1>5, <3>1
      <3>3. els2[n] = els[n] BY <1>4, <3>1
      <3> HIDE DEF e2, els2
      <3> QED BY <3>1, <3>2, <3>3 DEF IsPart
    <2> QED BY <2>1, <2>2
  <1> HIDE DEF e2, els2
  <1>7. IsPart(ls, els2, e2) BY <1>4, <1>5, <1>6 DEF IsPart
  <1> QED BY <1>5, <1>7 DEF e2, els2

\* Elements read up to the last line are the file's.
LEMMA PartIsParse ==
  ASSUME NEW ls \in Seq(Lines), NEW els, NEW e, IsPart(ls, els, e), e[Len(els)] = Len(ls)
  PROVE  IsParse(ls, 0, els, e) /\ Elements(ls) = els
  <1>1. IsParse(ls, 0, els, e) BY DEF IsPart, IsParse
  <1> QED BY <1>1, ParseOnly

\* Blank lines that an entry ends are that entry.
LEMMA BlanksThenEntry ==
  ASSUME NEW src \in Seq(Lines), src # <<>>, src[Len(src)].what = "entry",
         \A n \in 1..Len(src) : n # Len(src) => src[n].what = "blank"
  PROVE  Element(src) = [what |-> "entry", key |-> src[Len(src)].key, src |-> src,
                         val |-> src[Len(src)].val]
  <1> DEFINE m == Len(src)
             pieces == [n \in DOMAIN src |-> Adds(src, n)]
             e == [n \in 0..m |-> IF n = m THEN Len(src[m].val) ELSE 0]
             val == src[m].val
  <1>0. m \in Nat /\ m # 0 /\ m \in 1..m /\ 1 \in 1..m /\ DOMAIN src = 1..m OBVIOUS
  <1>1. WrittenIn(src) = {m}
    <2>1. "entry" # "blank" OBVIOUS
    <2>2. m \in WrittenIn(src) BY <1>0, <2>1 DEF WrittenIn
    <2>3. \A n \in WrittenIn(src) : n = m BY <1>0 DEF WrittenIn
    <2> HIDE DEF m
    <2> QED BY <2>2, <2>3
  <1>2. Min({m}) = m
    <2>1. {m} \in SUBSET Nat /\ {m} # {} BY <1>0
    <2> HIDE DEF m
    <2> QED BY <2>1, MinIs
  <1>3. src[1].what # "comment"
    <2>1. src[1].what \in {"entry", "blank"} BY <1>0
    <2> QED BY <2>1
  <1>4. val \in Seq(STRING)
    <2>1. src[m] \in Lines BY <1>0, ElementOfSeq
    <2> QED BY <2>1 DEF Lines
  <1>5. \A n \in 1..m : pieces[n] = IF n = m THEN val ELSE <<>>
    <2> SUFFICES ASSUME NEW n \in 1..m PROVE pieces[n] = IF n = m THEN val ELSE <<>> OBVIOUS
    <2> HIDE DEF m
    <2>1. pieces[n] = Adds(src, n) BY <1>0
    <2> HIDE DEF pieces
    <2> QED BY <1>1, <1>2, <2>1 DEF Adds
  <1>6. pieces \in Seq(Seq(STRING)) /\ Len(pieces) = m
    <2>1. \A n \in 1..m : pieces[n] \in Seq(STRING)
      <3>1. <<>> \in Seq(STRING) OBVIOUS
      <3> HIDE DEF pieces, m, val
      <3> QED BY <1>4, <1>5, <3>1
    <2>2. \A n \in DOMAIN src : Adds(src, n) \in Seq(STRING) BY <1>0, <2>1
    <2> HIDE DEF m
    <2> QED BY <1>0, <2>2
  <1>7. Len(val) \in Nat BY <1>4
  <1>8. e \in [0..m -> 0..Len(val)] /\ e[0] = 0 /\ e[m] = Len(val)
    <2> HIDE DEF m, val
    <2>1. 0 \in 0..m /\ m \in 0..m BY <1>0
    <2>2. \A n \in 0..m : (IF n = m THEN Len(val) ELSE 0) \in 0..Len(val) BY <1>7
    <2>3. \A n \in 0..m : e[n] = IF n = m THEN Len(val) ELSE 0 BY DEF val
    <2> QED BY <1>0, <2>1, <2>2, <2>3 DEF val
  <1>9. ASSUME NEW n \in 1..m
        PROVE  e[n-1] <= e[n] /\ pieces[n] = SubSeq(val, e[n-1] + 1, e[n])
    <2>1. n - 1 \in 0..m /\ n \in 0..m /\ n - 1 # m
      <3> HIDE DEF m
      <3> QED BY <1>0
    <2>2. e[n-1] = 0 /\ e[n] = IF n = m THEN Len(val) ELSE 0 BY <2>1
    <2>3. SubSeq(val, 0 + 1, Len(val)) = val BY <1>4, SubSeqFull
    <2>4. SubSeq(val, 0 + 1, 0) = <<>> BY SubSeqEmpty
    <2>5. e[n-1] <= e[n]
      <3> HIDE DEF e, val, m
      <3> QED BY <1>7, <2>2
    <2>6. pieces[n] = IF n = m THEN val ELSE <<>> BY <1>5
    <2> HIDE DEF e, pieces, val, m
    <2> QED BY <2>2, <2>3, <2>4, <2>5, <2>6
  <1>10. FlattenSeq(pieces) = val
    <2> HIDE DEF e, pieces, val
    <2>1. FlattenSeq(pieces) = SubSeq(val, 1, e[Len(pieces)])
      <3>1. e \in [0..Len(pieces) -> 0..Len(val)] BY <1>6, <1>8
      <3> QED BY <1>4, <1>6, <1>8, <1>9, <3>1, FlatOfPieces
    <2>2. SubSeq(val, 1, Len(val)) = val BY <1>4, SubSeqFull
    <2> QED BY <1>6, <1>8, <2>1, <2>2
  <1>11. Element(src) = [what |-> "entry", key |-> src[m].key,
       src |-> src, val |-> FlattenSeq(pieces)]
    <2> HIDE DEF m
    <2> QED BY <1>1, <1>2, <1>3 DEF Element
  <1> HIDE DEF pieces
  <1> QED BY <1>10, <1>11

-----------------------------------------------------------------------------
(* merge: a key that is not there.                                         *)

\* Of a sequence of one.
LEMMA SingleIs ==
  ASSUME NEW S, NEW x \in S
  PROVE  <<x>> \in Seq(S) /\ Len(<<x>>) = 1 /\ <<x>>[1] = x
  OBVIOUS

\* The file that gets a line of its own.
Added(ls, goesOn, k, v) ==
    [n \in 1..Len(ls) + 1 |-> IF n = Len(ls) + 1 THEN Entry(k, v)
                              ELSE IF n = Len(ls) THEN Ended(ls[n], goesOn) ELSE ls[n]]

\* What is in that file, line by line.
LEMMA AddedType ==
  ASSUME NEW ls \in Seq(Lines), NEW goesOn \in BOOLEAN, NEW k \in STRING, NEW v \in STRING
  PROVE  /\ Added(ls, goesOn, k, v) \in Seq(Lines)
         /\ Len(Added(ls, goesOn, k, v)) = Len(ls) + 1
         /\ Added(ls, goesOn, k, v)[Len(ls) + 1] = Entry(k, v)
         /\ \A n \in 1..Len(ls) - 1 : Added(ls, goesOn, k, v)[n] = ls[n]
         /\ Len(ls) # 0 => Added(ls, goesOn, k, v)[Len(ls)] = Ended(ls[Len(ls)], goesOn)
  <1> DEFINE L == Len(ls)
             ls2 == Added(ls, goesOn, k, v)
  <1>0. L \in Nat OBVIOUS
  <1>1. Entry(k, v) \in Lines
    <2>1. <<v>> \in Seq(STRING) BY SingleIs
    <2>2. <<v>> # <<>> OBVIOUS
    <2> QED BY <2>1, <2>2 DEF Entry, Line, Lines
  <1>2. ASSUME NEW n \in 1..L PROVE Ended(ls[n], goesOn) \in Lines
    <2>1. ls[n] \in Lines OBVIOUS
    <2> QED BY <2>1 DEF Lines, Ended
  <1>3. \A n \in 1..L+1 : ls2[n] = IF n = L + 1 THEN Entry(k, v)
                                   ELSE IF n = L THEN Ended(ls[n], goesOn) ELSE ls[n]
    BY DEF Added
  <1>4. \A n \in 1..L+1 : n # L + 1 => n \in 1..L BY <1>0
  <1>5. \A n \in 1..L+1 : (IF n = L + 1 THEN Entry(k, v)
                            ELSE IF n = L THEN Ended(ls[n], goesOn) ELSE ls[n]) \in Lines
    <2> SUFFICES ASSUME NEW n \in 1..L+1
                 PROVE (IF n = L + 1 THEN Entry(k, v)
                        ELSE IF n = L THEN Ended(ls[n], goesOn) ELSE ls[n]) \in Lines
      OBVIOUS
    <2>1. CASE n = L + 1
      <3> HIDE DEF L
      <3> QED BY <1>1, <2>1
    <2>2. CASE n # L + 1
      <3>1. n \in 1..L BY <1>4, <2>2
      <3>2. ls[n] \in Lines BY <3>1
      <3>3. Ended(ls[n], goesOn) \in Lines BY <1>2, <3>1
      <3> HIDE DEF L
      <3> QED BY <2>2, <3>2, <3>3
    <2> QED BY <2>1, <2>2
  <1>6. ls2 \in Seq(Lines) /\ Len(ls2) = L + 1
    <2>1. DOMAIN ls2 = 1..L+1 /\ ls2 = [n \in 1..L+1 |-> ls2[n]] BY DEF Added
    <2>2. \A n \in 1..L+1 : ls2[n] \in Lines
      <3> HIDE DEF ls2, L
      <3> QED BY <1>3, <1>5
    <2> HIDE DEF ls2, L
    <2> QED BY <1>0, <2>1, <2>2
  <1> HIDE DEF ls2, L
  <1>7. ls2[L+1] = Entry(k, v)
    <2>1. L + 1 \in 1..L+1 BY <1>0
    <2> QED BY <1>3, <2>1
  <1>8. \A n \in 1..L-1 : ls2[n] = ls[n]
    <2> SUFFICES ASSUME NEW n \in 1..L-1 PROVE ls2[n] = ls[n] OBVIOUS
    <2>1. n \in 1..L+1 /\ n # L + 1 /\ n # L BY <1>0
    <2> QED BY <1>3, <2>1
  <1>9. L # 0 => ls2[L] = Ended(ls[L], goesOn)
    <2> SUFFICES ASSUME L # 0 PROVE ls2[L] = Ended(ls[L], goesOn) OBVIOUS
    <2>1. L \in 1..L+1 /\ L # L + 1 BY <1>0
    <2> QED BY <1>3, <2>1
  <1> QED BY <1>6, <1>7, <1>8, <1>9 DEF ls2, L

\* A piece of a sequence.
LEMMA CutIs ==
  ASSUME NEW S, NEW s \in Seq(S), NEW a \in Nat, NEW b \in Nat, a <= b, b <= Len(s)
  PROVE  /\ SubSeq(s, a + 1, b) \in Seq(S)
         /\ Len(SubSeq(s, a + 1, b)) = b - a
         /\ \A i \in 1..b-a : SubSeq(s, a + 1, b)[i] = s[a+i]
  <1>1. Len(s) \in Nat /\ \A i \in (a+1)..b : s[i] \in S OBVIOUS
  <1>2. a + 1 \in Int /\ b \in Int OBVIOUS
  <1>3. /\ SubSeq(s, a + 1, b) \in Seq(S)
        /\ Len(SubSeq(s, a + 1, b)) = IF a + 1 <= b THEN b - (a + 1) + 1 ELSE 0
        /\ \A i \in 1..(b - (a + 1) + 1) : SubSeq(s, a + 1, b)[i] = s[(a + 1) + i - 1]
    BY <1>1, <1>2, SubSeqProperties
  <1>4. \A i \in 1..b-a : i \in 1..(b - (a + 1) + 1) /\ (a + 1) + i - 1 = a + i OBVIOUS
  <1>5. \A i \in 1..b-a : SubSeq(s, a + 1, b)[i] = s[a+i]
    <2> TAKE i \in 1..b-a
    <2>1. i \in 1..(b - (a + 1) + 1) /\ (a + 1) + i - 1 = a + i BY <1>4
    <2>2. SubSeq(s, a + 1, b)[i] = s[(a + 1) + i - 1] BY <1>3, <2>1
    <2> QED BY <2>1, <2>2
  <1>6. Len(SubSeq(s, a + 1, b)) = b - a BY <1>3
  <1> QED BY <1>3, <1>5, <1>6

\* Sequences that are the same in places have the same piece there.
LEMMA SameCut ==
  ASSUME NEW S, NEW s \in Seq(S), NEW t \in Seq(S), NEW a \in Nat, NEW b \in Nat, a <= b,
         b <= Len(s), b <= Len(t), \A i \in (a+1)..b : s[i] = t[i]
  PROVE  SubSeq(s, a + 1, b) = SubSeq(t, a + 1, b)
  <1> DEFINE c == SubSeq(s, a + 1, b)
             d == SubSeq(t, a + 1, b)
  <1>1. /\ c \in Seq(S) /\ Len(c) = b - a /\ \A i \in 1..b-a : c[i] = s[a+i]
        /\ d \in Seq(S) /\ Len(d) = b - a /\ \A i \in 1..b-a : d[i] = t[a+i]
    BY CutIs
  <1>2. \A i \in 1..b-a : a + i \in (a+1)..b OBVIOUS
  <1> HIDE DEF c, d
  <1>3. \A i \in 1..b-a : c[i] = d[i] BY <1>1, <1>2
  <1>4. c = d BY <1>1, <1>3, SeqEqual
  <1> QED BY <1>4 DEF c, d

\* Every element but the last ends before the last line.
LEMMA EndsBefore ==
  ASSUME NEW ls \in Seq(Lines), NEW els, NEW e, IsParse(ls, 0, els, e),
         NEW n \in 1..Len(els), n # Len(els)
  PROVE  e[n] < Len(ls)
  <1>0. Len(els) \in Nat /\ Len(ls) \in Nat /\ e \in [0..Len(els) -> 0..Len(ls)] BY DEF IsParse
  <1>1. n + 1 \in 1..Len(els) /\ n + 1 \in 0..Len(els) /\ n \in 0..Len(els) /\ (n+1)-1 = n BY <1>0
  <1>2. e[n] < e[n+1] BY <1>1 DEF IsParse
  <1>3. e[n] \in 0..Len(ls) /\ e[n+1] \in 0..Len(ls) BY <1>0, <1>1
  <1> QED BY <1>0, <1>2, <1>3

\* No element, no line.
LEMMA NoneAndEmpty ==
  ASSUME NEW ls \in Seq(Lines), NEW els, NEW e, IsParse(ls, 0, els, e)
  PROVE  Len(els) = 0 <=> Len(ls) = 0
  <1>0. /\ Len(els) \in Nat /\ Len(ls) \in Nat /\ e \in [0..Len(els) -> 0..Len(ls)]
        /\ e[0] = 0 /\ e[Len(els)] = Len(ls)
    BY DEF IsParse
  <1>1. CASE Len(els) = 0 BY <1>0, <1>1
  <1>2. CASE Len(els) # 0
    <2>1. Len(els) \in 1..Len(els) /\ Len(els) - 1 \in 0..Len(els) BY <1>0, <1>2
    <2>2. e[Len(els)-1] < e[Len(els)] BY <2>1 DEF IsParse
    <2>3. e[Len(els)-1] \in 0..Len(ls) BY <1>0, <2>1
    <2> QED BY <1>0, <1>2, <2>2, <2>3
  <1> QED BY <1>1, <1>2

\* A key that is not there gets a line of its own, and what came last is closed.
LEMMA WritesOn ==
  ASSUME NEW ls \in Seq(Lines), NEW k \in STRING, NEW v \in STRING,
         NEW els, els = Elements(ls), EntriesOf(els, k) = {},
         NEW goesOn, goesOn = (els[Len(els)].what # "entry")
  PROVE  Dumps(SetItem(els, k, v)) = Added(ls, goesOn, k, v)
  <1>1. PICK e : IsParse(ls, 0, els, e) BY ParseExists
  <1> DEFINE N == Len(els)
             L == Len(ls)
             ls2 == Added(ls, goesOn, k, v)
             els1 == [i \in DOMAIN els |-> IF i = N THEN Closed(els[i]) ELSE els[i]]
             els2 == Append(els1, Fresh(k, v))
             e2 == Longer(els, e, L + 1)
             ss == [n \in DOMAIN els2 |-> Written(els2[n])]
  <1>0. /\ N \in Nat /\ L \in Nat /\ els \in Seq(Parsed) /\ DOMAIN els = 1..N
        /\ e \in [0..N -> 0..L] /\ e[0] = 0 /\ e[N] = L
        /\ goesOn \in BOOLEAN
    BY <1>1 DEF IsParse
  <1>2. SetItem(els, k, v) = els2 BY DEF SetItem
  <1>3. /\ DOMAIN els2 = 1..N+1 /\ els2[N+1] = Fresh(k, v)
        /\ \A n \in 1..N : els2[n] = IF n = N THEN Closed(els[n]) ELSE els[n]
    <2> DEFINE U == {els1[n] : n \in 1..N} \cup {Fresh(k, v)}
    <2>1. \A n \in 1..N : els1[n] = IF n = N THEN Closed(els[n]) ELSE els[n] BY <1>0
    <2>2. els1 \in Seq(U) /\ Len(els1) = N
      <3>1. DOMAIN els1 = 1..N /\ els1 = [n \in 1..N |-> els1[n]] BY <1>0
      <3>2. \A n \in 1..N : els1[n] \in U OBVIOUS
      <3> HIDE DEF els1, U, N
      <3> QED BY <1>0, <3>1, <3>2
    <2>3. Fresh(k, v) \in U OBVIOUS
    <2> HIDE DEF els1, U, N
    <2>4. DOMAIN els2 = 1..N+1 /\ els2[N+1] = Fresh(k, v) /\ \A n \in 1..N : els2[n] = els1[n]
      BY <1>0, <2>2, <2>3
    <2> QED BY <2>1, <2>4
  <1>4. /\ ls2 \in Seq(Lines) /\ Len(ls2) = L + 1 /\ ls2[L + 1] = Entry(k, v)
        /\ \A n \in 1..L - 1 : ls2[n] = ls[n]
        /\ L # 0 => ls2[L] = Ended(ls[L], goesOn)
    BY <1>0, AddedType
  <1>5. /\ e2 \in [0..N+1 -> 0..Len(ls2)] /\ e2[0] = 0 /\ e2[N+1] = L + 1
        /\ \A n \in 0..N : e2[n] = e[n]
    <2>1. \A n \in 0..N+1 : n # N + 1 => n \in 0..N BY <1>0
    <2>2. \A n \in 0..N : n # N + 1 /\ n \in 0..N+1 BY <1>0
    <2>3. N + 1 \in 0..N+1 /\ 0 \in 0..N BY <1>0
    <2>4. \A n \in 0..N : e[n] \in 0..L+1 BY <1>0
    <2>5. L + 1 \in 0..L+1 BY <1>0
    <2> HIDE DEF N, L, ls2
    <2>6. e2 \in [0..N+1 -> 0..L+1] BY <2>1, <2>4, <2>5 DEF Longer, N
    <2>7. e2[N+1] = L + 1 /\ \A n \in 0..N : e2[n] = e[n] BY <2>2, <2>3 DEF Longer, N
    <2> HIDE DEF e2
    <2> QED BY <1>0, <1>4, <2>3, <2>6, <2>7
  <1> HIDE DEF ls2, els2, e2
  <1>6. ASSUME NEW n \in 1..N+1
        PROVE  e2[n-1] <= e2[n] /\ Written(els2[n]) = SubSeq(ls2, e2[n-1] + 1, e2[n])
    <2>1. CASE n = N + 1
      <3>1. n - 1 = N /\ N \in 0..N BY <1>0, <2>1
      <3>2. e2[n-1] = L /\ e2[n] = L + 1 BY <1>0, <1>5, <2>1, <3>1
      <3>3. Written(els2[n]) = <<Entry(k, v)>>
        <4>1. els2[n] = Fresh(k, v) BY <1>3, <2>1
        <4>2. Written(Fresh(k, v)) = <<Entry(k, v)>> BY DEF Written, Fresh, Entry
        <4> QED BY <4>1, <4>2
      <3>4. SubSeq(ls2, L + 1, L + 1) = <<ls2[L+1]>>
        <4>1. L + 1 \in Nat /\ L <= L + 1 /\ L + 1 <= Len(ls2) /\ (L + 1) - L = 1
          <5> HIDE DEF L
          <5> QED BY <1>0, <1>4
        <4> DEFINE c == SubSeq(ls2, L + 1, L + 1)
        <4>2. c \in Seq(Lines) /\ Len(c) = (L + 1) - L /\ \A i \in 1..(L + 1) - L : c[i] = ls2[L+i]
          <5> HIDE DEF L
          <5> QED BY <1>0, <1>4, <4>1, CutIs
        <4>3. 1 \in 1..(L+1) - L BY <4>1
        <4>4. Len(c) = 1 /\ c[1] = ls2[L+1] BY <4>1, <4>2, <4>3
        <4> HIDE DEF c, L
        <4>5. c = <<ls2[L+1]>>
          <5> DEFINE x == ls2[L+1]
          <5>1. x \in Lines
            <6>1. 1 \in 1..Len(c) BY <4>4
            <6>2. c[1] \in Lines BY <4>2, <6>1, ElementOfSeq
            <6> QED BY <4>4, <6>2
          <5> HIDE DEF x
          <5>2. <<x>> \in Seq(Lines) /\ Len(<<x>>) = 1 /\ <<x>>[1] = x BY <5>1, SingleIs
          <5>3. c[1] = x BY <4>4 DEF x
          <5>4. \A i \in 1..1 : i = 1 OBVIOUS
          <5>5. c = <<x>> BY <4>2, <4>4, <5>2, <5>3, <5>4, SeqEqual
          <5> QED BY <5>5 DEF x
        <4> QED BY <4>5 DEF c
      <3>5. L <= L + 1 BY <1>0
      <3> QED BY <1>4, <3>2, <3>3, <3>4, <3>5
    <2>2. CASE n # N + 1
      <3>1. n \in 1..N /\ n - 1 \in 0..N /\ n \in 0..N BY <1>0, <2>2
      <3> DEFINE a == e[n-1]
                 b == e[n]
                 src == SubSeq(ls, a + 1, b)
      <3>2. e2[n-1] = a /\ e2[n] = b BY <1>5, <3>1
      <3>3. /\ a \in 0..L /\ b \in 0..L /\ a < b
            /\ src \in Seq(Lines) \ {<<>>} /\ els[n] \in Parsed /\ els[n].src = src
        <4> HIDE DEF els1, ss, L
        <4> QED BY ONLY <1>1, <3>1, PiecesOf, ls \in Seq(Lines) DEF N, L
      <3> HIDE DEF a, b
      <3>4. CASE n # N
        <4>1. b < L BY <1>1, <3>1, <3>4, EndsBefore DEF b
        <4>2. els2[n] = els[n] BY <1>3, <3>1, <3>4
        <4>3. Written(els2[n]) = src BY <3>3, <4>2 DEF Written
        <4>4. SubSeq(ls2, a + 1, b) = SubSeq(ls, a + 1, b)
          <5>1. \A i \in (a+1)..b : i \in 1..L-1 BY <1>0, <3>3, <4>1
          <5>2. a \in Nat /\ b \in Nat /\ a <= b /\ b <= L /\ b <= L + 1 BY <1>0, <3>3
          <5> QED BY <1>4, <5>1, <5>2, SameCut
        <4> QED BY <3>2, <3>3, <4>3, <4>4
      <3>5. CASE n = N
        <4> DEFINE m == L - a
                   new == [src EXCEPT ![m] = Ended(src[m], goesOn)]
        <4>1. b = L /\ m \in 1..L /\ L # 0 /\ Len(src) = m /\ DOMAIN src = 1..m
          <5>1. b = L BY <1>0, <3>5 DEF b
          <5>2. m \in 1..L /\ L # 0 BY <1>0, <3>3, <5>1
          <5>3. Len(src) = b - a
            <6>1. a + 1 \in 1..L+1 /\ b \in a..L BY <1>0, <3>3
            <6> QED BY <1>0, <3>3, <6>1, SubSeqProperties
          <5> HIDE DEF src
          <5> QED BY <3>3, <5>1, <5>2, <5>3
        <4>2. Closed(els[n]).src = new
          <5>1. src[m] \in Lines
            <6> HIDE DEF src, m
            <6> QED BY <3>3, <4>1, ElementOfSeq
          <5>2. els[n].src # <<>> /\ Len(els[n].src) = m /\ m # 0 BY <3>3, <4>1
          <5>4. goesOn = (els[n].what # "entry") BY <3>5
          <5> HIDE DEF src, m
          <5>3. Closed(els[n]) = [els[n] EXCEPT !.src[m] = Ended(@, goesOn)]
            BY <5>2, <5>4 DEF Closed
          <5>6. Closed(els[n]) = [els[n] EXCEPT !.src = new] BY <3>3, <5>3
          <5> HIDE DEF new
          <5> QED BY <3>3, <5>6 DEF Parsed
        <4>3. new = SubSeq(ls2, a + 1, b)
          <5> DEFINE c == SubSeq(ls2, a + 1, b)
          <5>0. a \in Nat /\ b \in Nat /\ a <= b /\ b <= L /\ b <= Len(ls2) /\ b - a = m
            BY <1>0, <1>4, <3>3, <4>1
          <5>1. c \in Seq(Lines) /\ Len(c) = m /\ \A i \in 1..m : c[i] = ls2[a+i]
            BY <1>4, <5>0, CutIs
          <5>2. src \in Seq(Lines) /\ Len(src) = m /\ \A i \in 1..m : src[i] = ls[a+i]
            BY <5>0, CutIs
          <5>4. \A i \in 1..m : i # m => a + i \in 1..L-1 BY <1>0, <5>0, <4>1
          <5>5. a + m = L BY <5>0, <4>1
          <5>7. m \in 1..m BY <4>1
          <5> HIDE DEF src, m, c, L
          <5>6. \A i \in 1..m : i # m => src[i] = c[i] BY <1>4, <5>1, <5>2, <5>4
          <5>8. c[m] = Ended(src[m], goesOn)
            <6>1. src[m] = ls[L] /\ c[m] = ls2[L] BY <5>1, <5>2, <5>5, <5>7
            <6> QED BY <1>4, <4>1, <6>1
          <5>9. new \in Seq(Lines) /\ Len(new) = m /\ \A i \in 1..m : new[i] =
               IF i = m THEN Ended(src[m], goesOn) ELSE src[i]
            <6>1. m \in 1..Len(src) BY <5>2, <5>7
            <6>2. c[m] \in Lines BY <5>1, <5>7, ElementOfSeq
            <6>3. Ended(src[m], goesOn) \in Lines BY <5>8, <6>2
            <6> QED BY <5>2, <6>1, <6>3, ExceptSeq
          <5>10. \A i \in 1..m : new[i] = c[i]
            <6> HIDE DEF new
            <6> QED BY <5>6, <5>8, <5>9
          <5> HIDE DEF new
          <5>11. new = c BY <5>1, <5>9, <5>10, SeqEqual
          <5> QED BY <5>11 DEF c
        <4>4. els2[n] = Closed(els[n]) BY <1>3, <3>1, <3>5
        <4>5. new # <<>>
          <5>1. DOMAIN new = 1..m BY <4>1
          <5>2. m \in 1..m BY <4>1
          <5> HIDE DEF new, m
          <5>3. DOMAIN new # {} BY <5>1, <5>2
          <5> QED BY <5>3
        <4>6. Written(els2[n]) = new
          <5> HIDE DEF new
          <5> QED BY <4>2, <4>4, <4>5 DEF Written
        <4> HIDE DEF new
        <4> QED BY <3>2, <3>3, <4>3, <4>6
      <3> QED BY <3>4, <3>5
    <2> QED BY <2>1, <2>2
  <1>7. ss \in Seq(Seq(Lines)) /\ Len(ss) = N + 1
    <2>1. ASSUME NEW n \in 1..N+1 PROVE Written(els2[n]) \in Seq(Lines)
      <3>1. n - 1 \in 0..N+1 /\ n \in 0..N+1 BY <1>0
      <3>2. e2[n-1] \in 0..Len(ls2) /\ e2[n] \in 0..Len(ls2) /\ e2[n-1] <= e2[n] BY <1>5, <1>6, <3>1
      <3>3. SubSeq(ls2, e2[n-1] + 1, e2[n]) \in Seq(Lines)
        <4>1. Len(ls2) \in Nat BY <1>4
        <4>2. e2[n-1] + 1 \in 1..Len(ls2)+1 /\ e2[n] \in e2[n-1]..Len(ls2) BY <3>2, <4>1
        <4> QED BY <1>4, <3>2, <4>2, SubSeqProperties
      <3> QED BY <1>6, <3>3
    <2>2. DOMAIN ss = 1..N+1 /\ ss = [n \in 1..N+1 |-> ss[n]] BY <1>3
    <2>3. \A n \in 1..N+1 : ss[n] \in Seq(Lines) BY <1>3, <2>1
    <2>4. N + 1 \in Nat BY <1>0
    <2> HIDE DEF ss, N
    <2>5. ss \in [1..N+1 -> Seq(Lines)] BY <2>2, <2>3
    <2>6. ss \in Seq(Seq(Lines)) BY <2>4, <2>5, SeqDef
    <2>7. Len(ss) = N + 1 BY <2>2, <2>4, <2>6, LenProperties
    <2> QED BY <2>6, <2>7
  <1>8. \A n \in 1..N+1 : ss[n] = Written(els2[n]) BY <1>3
  <1>9. FlattenSeq(ss) = SubSeq(ls2, 1, e2[Len(ss)])
    <2> HIDE DEF ss
    <2>1. e2 \in [0..Len(ss) -> 0..Len(ls2)] BY <1>5, <1>7
    <2>2. \A n \in 1..Len(ss) : e2[n-1] <= e2[n] /\ ss[n] = SubSeq(ls2, e2[n-1] + 1, e2[n])
      BY <1>6, <1>7, <1>8
    <2> HIDE DEF N, L
    <2> QED BY <1>4, <1>5, <1>7, <2>1, <2>2, FlatOfPieces
  <1>10. SubSeq(ls2, 1, Len(ls2)) = ls2 BY <1>4, SubSeqFull
  <1>11. Dumps(els2) = ls2
    <2> HIDE DEF ss
    <2> QED BY <1>4, <1>5, <1>7, <1>9, <1>10 DEF Dumps, ss
  <1> QED BY <1>2, <1>11 DEF ls2

LEMMA NonEmpty == ASSUME NEW s, Len(s) # 0 PROVE s # <<>> OBVIOUS

\* All but the last element are read as before where all but the last line are as before.
LEMMA PartOfBoth ==
  ASSUME NEW ls \in Seq(Lines), NEW els, NEW e, IsParse(ls, 0, els, e), Len(els) # 0,
         NEW ls2 \in Seq(Lines), Len(ls2) >= Len(ls),
         \A n \in 1..Len(ls) - 1 : ls2[n] = ls[n],
         NEW els0, els0 = SubSeq(els, 1, Len(els) - 1),
         NEW e0, e0 = [n \in 0..Len(els) - 1 |-> e[n]]
  PROVE  /\ IsPart(ls2, els0, e0)
         /\ Len(els0) = Len(els) - 1
         /\ e0[Len(els0)] = e[Len(els) - 1]
         /\ \A n \in 1..Len(els) - 1 : els0[n] = els[n]
  <1> DEFINE N == Len(els)
             L == Len(ls)
  <1>0. /\ N \in Nat /\ L \in Nat /\ Len(ls2) \in Nat /\ els \in Seq(Parsed)
        /\ e \in [0..N -> 0..L] /\ e[0] = 0 /\ e[N] = L
    BY DEF IsParse
  <1>1. els0 \in Seq(Parsed) /\ Len(els0) = N - 1 /\ \A n \in 1..N-1 : els0[n] = els[n]
    <2>1. N - 1 \in Nat /\ 0 <= N - 1 /\ N - 1 <= Len(els) /\ (N - 1) - 0 = N - 1 BY <1>0
    <2>2. SubSeq(els, 0 + 1, N - 1) = els0 OBVIOUS
    <2> HIDE DEF N
    <2>3. els0 \in Seq(Parsed) /\ Len(els0) = (N - 1) - 0 /\ \A n \in 1..(N-1)-0 :
         els0[n] = els[0+n]
      BY <1>0, <2>1, <2>2, CutIs
    <2>4. \A n \in 1..N-1 : 0 + n = n OBVIOUS
    <2> QED BY <2>1, <2>3, <2>4
  <1>2. e0 \in [0..N-1 -> 0..Len(ls2)] /\ e0[0] = 0 /\ \A n \in 0..N-1 : e0[n] = e[n]
    <2>1. \A n \in 0..N-1 : n \in 0..N BY <1>0
    <2>2. \A n \in 0..N-1 : e[n] \in 0..Len(ls2)
      <3>1. \A m \in 0..L : m \in 0..Len(ls2) BY <1>0
      <3> HIDE DEF N, L
      <3> QED BY <1>0, <2>1, <3>1
    <2>3. 0 \in 0..N-1 BY <1>0
    <2> QED BY <1>0, <2>2, <2>3
  <1>3. ASSUME NEW n \in 1..N-1
        PROVE  /\ e0[n-1] < e0[n]
               /\ e0[n] = EndOf(ls2, e0[n-1] + 1)
               /\ els0[n] = Element(SubSeq(ls2, e0[n-1] + 1, e0[n]))
    <2> DEFINE a == e[n-1]
               b == e[n]
    <2>1. n \in 1..N /\ n - 1 \in 0..N-1 /\ n \in 0..N-1 /\ n # N BY <1>0
    <2>2. e0[n-1] = a /\ e0[n] = b /\ els0[n] = els[n] BY <1>1, <1>2, <2>1
    <2>3. /\ a \in 0..L /\ b \in 0..L /\ a < b
          /\ els[n] = Element(SubSeq(ls, a + 1, b))
      BY <2>1, PiecesOf
    <2>4. b = EndOf(ls, a + 1) BY <2>1 DEF IsParse
    <2>5. b < L BY <2>1, EndsBefore
    <2> HIDE DEF a, b
    <2>6. a + 1 \in 1..L-1 /\ a + 1 \in 1..L /\ b \in (a+1)..Len(ls2) /\ a + 1 \in 1..Len(ls2)
      BY <1>0, <2>3, <2>5
    <2>7. /\ Stops(ls, a + 1, b)
          /\ \A j \in (a+1)..(b-1) : ~Stops(ls, a + 1, j)
      BY <2>4, <2>5, <2>6, EndOfIs
    <2>8. \A j \in (a+1)..b : j \in 1..L-1 /\ (Stops(ls2, a + 1, j) <=> Stops(ls, a + 1, j))
      <3> SUFFICES ASSUME NEW j \in (a+1)..b
                   PROVE  j \in 1..L-1 /\ (Stops(ls2, a + 1, j) <=> Stops(ls, a + 1, j))
        OBVIOUS
      <3>1. j \in 1..L-1 BY <1>0, <2>3, <2>5
      <3>2. ls2[j] = ls[j] /\ ls2[a+1] = ls[a+1] BY <2>6, <3>1
      <3>3. Stops(ls2, a + 1, j) <=> Stops(ls, a + 1, j) BY <3>2, Zenon DEF Stops
      <3> QED BY <3>1, <3>3
    <2>9. EndOf(ls2, a + 1) = b
      <3>1. Stops(ls2, a + 1, b)
        <4>1. b \in (a+1)..b BY <2>6
        <4> QED BY <2>7, <2>8, <4>1
      <3>2. \A j \in (a+1)..(b-1) : j \in (a+1)..b BY <2>3
      <3>3. \A j \in (a+1)..(b-1) : ~Stops(ls2, a + 1, j) BY <2>7, <2>8, <3>2
      <3> QED BY <2>6, <3>1, <3>3, EndOfOnly
    <2>10. SubSeq(ls2, a + 1, b) = SubSeq(ls, a + 1, b)
      <3>1. a \in Nat /\ b \in Nat /\ a <= b /\ b <= L /\ b <= Len(ls2) BY <1>0, <2>3
      <3>2. \A j \in (a+1)..b : ls2[j] = ls[j] BY <2>8
      <3> QED BY <3>1, <3>2, SameCut
    <2> QED BY <2>2, <2>3, <2>9, <2>10
  <1>4. N - 1 \in 0..N-1 BY <1>0
  <1> QED BY <1>1, <1>2, <1>3, <1>4 DEF IsPart

\* What els2 says, one more entry included, that els did not.
Joined(els, els2, k, v) ==
    /\ els2 \in Seq(Parsed) /\ els2 # <<>>
    /\ els2[Len(els2)].what = "entry" /\ els2[Len(els2)].key = k
    /\ els2[Len(els2)].val = <<v>>
    /\ \A n \in 1..Len(els2) - 1 : n \in 1..Len(els) /\ SameElement(els2[n], els[n])
    /\ \A n \in 1..Len(els) : n \in 1..Len(els2) - 1 \/ els[n].what = "blank"

LEMMA SameElementIs == ASSUME NEW x PROVE SameElement(x, x) BY DEF SameElement

\* The new line is read as an entry of its own, or as what ends a blank line.
LEMMA ReadsOn ==
  ASSUME NEW ls \in Seq(Lines), NEW k \in STRING, NEW v \in STRING,
         NEW els, els = Elements(ls),
         NEW goesOn, goesOn = (els[Len(els)].what # "entry")
  PROVE  Joined(els, Elements(Added(ls, goesOn, k, v)), k, v)
  <1>1. PICK e : IsParse(ls, 0, els, e) BY ParseExists
  <1> DEFINE N == Len(els)
             L == Len(ls)
             ls2 == Added(ls, goesOn, k, v)
  <1>0. /\ N \in Nat /\ L \in Nat /\ els \in Seq(Parsed) /\ DOMAIN els = 1..N
        /\ e \in [0..N -> 0..L] /\ e[0] = 0 /\ e[N] = L
        /\ goesOn \in BOOLEAN
    BY <1>1 DEF IsParse
  <1>2. /\ ls2 \in Seq(Lines) /\ Len(ls2) = L + 1 /\ ls2[L + 1] = Entry(k, v)
        /\ \A n \in 1..L - 1 : ls2[n] = ls[n]
        /\ L # 0 => ls2[L] = Ended(ls[L], goesOn)
    BY <1>0, AddedType
  <1> HIDE DEF ls2
  <1> DEFINE last == Element(SubSeq(ls2, L + 1, L + 1))
  <1>3. /\ last \in Parsed /\ last.what = "entry" /\ last.key = k /\ last.val = <<v>>
        /\ EndOf(ls2, L + 1) = L + 1
    <2> DEFINE src == SubSeq(ls2, L + 1, L + 1)
    <2>1. src \in Seq(Lines) /\ Len(src) = 1 /\ src[1] = Entry(k, v)
      <3>1. L + 1 \in Nat /\ L <= L + 1 /\ L + 1 <= Len(ls2) /\ (L + 1) - L = 1 BY <1>0, <1>2
      <3> HIDE DEF L
      <3>2. src \in Seq(Lines) /\ Len(src) = (L + 1) - L /\
           \A i \in 1..(L + 1) - L : src[i] = ls2[L+i]
        BY <1>0, <1>2, <3>1, CutIs
      <3> HIDE DEF src
      <3>3. 1 \in 1..(L+1) - L BY <3>1
      <3> QED BY <1>2, <3>1, <3>2, <3>3
    <2> HIDE DEF src
    <2>2. Entry(k, v).what = "entry" /\ Entry(k, v).key = k /\ Entry(k, v).val = <<v>>
      BY DEF Entry, Line
    <2>3. src # <<>>
      <3>1. Len(src) # 0 BY <2>1
      <3> QED BY <3>1, NonEmpty
    <2>4. Element(src) \in Parsed BY <2>1, <2>3, ElementType
    <2>5. Element(src) = [what |-> "entry", key |-> k, src |-> src, val |-> <<v>>]
      <3>1. \A n \in 1..Len(src) : n = Len(src) BY <2>1
      <3>2. src[Len(src)] = Entry(k, v) BY <2>1
      <3> QED BY <2>1, <2>2, <2>3, <3>1, <3>2, BlanksThenEntry
    <2>6. EndOf(ls2, L + 1) = L + 1
      <3>1. L + 1 \in 1..Len(ls2) BY <1>0, <1>2
      <3>2. EndOf(ls2, L + 1) \in (L+1)..Len(ls2) BY <1>2, <3>1, EndOfIs
      <3> QED BY <1>0, <1>2, <3>2
    <2> QED BY <2>4, <2>5, <2>6 DEF src
  <1> HIDE DEF last
  <1>4. CASE N = 0
    <2>1. L = 0 BY <1>1, <1>4, NoneAndEmpty
    <2> DEFINE e0 == [n \in 0..0 |-> 0]
               none == <<>>
    <2>2. IsPart(ls2, none, e0) BY <1>2, NoPart
    <2>3. e0[Len(none)] = 0 /\ 0 < Len(ls2) /\ 1 \in 0..Len(ls2) /\ 1 = EndOf(ls2, 0 + 1)
      BY <1>2, <1>3, <2>1
    <2> HIDE DEF e0, none
    <2>4. /\ IsPart(ls2, Append(none, Element(SubSeq(ls2, 0 + 1, 1))), Longer(none, e0, 1))
          /\ Longer(none, e0, 1)[Len(none) + 1] = 1
      BY <1>2, <2>2, <2>3, PartGoesOn
    <2>5. Element(SubSeq(ls2, 0 + 1, 1)) = last BY <2>1 DEF last
    <2> DEFINE els2 == <<last>>
               e2 == Longer(none, e0, 1)
    <2>6. els2 = Append(none, last) /\ Len(els2) = 1 /\ els2[1] = last /\ els2 \in Seq(Parsed) /\ els2 # <<>>
      BY <1>3 DEF none
    <2> HIDE DEF els2, e2
    <2>7. IsPart(ls2, els2, e2) /\ e2[Len(els2)] = Len(ls2)
      <3>1. Len(none) + 1 = 1 /\ Len(ls2) = 1 BY <1>2, <2>1 DEF none
      <3> QED BY <2>4, <2>5, <2>6, <3>1 DEF e2
    <2>8. Elements(ls2) = els2 BY <1>2, <2>7, PartIsParse
    <2>9. (\A n \in 1..Len(els2) - 1 : FALSE) /\ (\A n \in 1..Len(els) : FALSE) BY <1>4, <2>6
    <2>10. Joined(els, els2, k, v) BY <1>3, <2>6, <2>9 DEF Joined
    <2> QED BY <2>8, <2>10 DEF ls2
  <1>5. CASE N # 0
    <2> DEFINE a == e[N-1]
               src == SubSeq(ls, a + 1, L)
               front == SubSeq(els, 1, N - 1)
               e0 == [n \in 0..N - 1 |-> e[n]]
    <2>0. N \in 1..N /\ N - 1 \in Nat BY <1>0, <1>5
    <2>1. /\ a \in 0..L /\ a < L
          /\ src \in Seq(Lines) \ {<<>>} /\ els[N] = Element(src)
      <3> DEFINE b == e[N]
      <3>1. /\ a \in 0..L /\ b \in 0..L /\ a < b
            /\ SubSeq(ls, a + 1, b) \in Seq(Lines) \ {<<>>} /\ els[N] = Element(SubSeq(ls, a + 1, b))
        BY <1>1, <2>0, PiecesOf
      <3>2. b = L BY <1>0
      <3> HIDE DEF a, b
      <3> QED BY <3>1, <3>2
    <2>2. EndOf(ls, a + 1) = L BY <1>0, <1>1, <2>0 DEF IsParse
    <2>3. /\ IsPart(ls2, front, e0) /\ Len(front) = N - 1 /\ e0[Len(front)] = a
          /\ \A n \in 1..N - 1 : front[n] = els[n]
      <3>1. Len(ls2) >= Len(ls) BY <1>0, <1>2
      <3>2. front = SubSeq(els, 1, Len(els) - 1) /\ e0 = [n \in 0..Len(els) - 1 |-> e[n]] OBVIOUS
      <3> HIDE DEF front, e0
      <3> QED BY <1>1, <1>2, <1>5, <3>1, <3>2, PartOfBoth
    <2> HIDE DEF a, front, e0
    <2>4. a + 1 \in 1..L /\ a + 1 \in 1..Len(ls2) /\ L # 0 /\ a < Len(ls2) /\ a \in Nat
          /\ L \in (a+1)..Len(ls2) /\ L \in 0..Len(ls2) /\ L < Len(ls2) /\ L + 1 \in 0..Len(ls2)
      BY <1>0, <1>2, <2>1
    <2>5. Len(src) = L - a /\ \A i \in 1..L-a : src[i] = ls[a+i]
      BY <1>0, <2>1, <2>4, CutIs
    <2>6. \A j \in (a+1)..(L-1) : ~Stops(ls, a + 1, j)
      BY <1>0, <2>2, <2>4, EndOfIs
    <2>7. \A j \in 1..L : ls2[j].what = ls[j].what /\ SameText(ls2[j], ls[j])
      <3> SUFFICES ASSUME NEW j \in 1..L PROVE ls2[j].what = ls[j].what /\ SameText(ls2[j], ls[j])
        OBVIOUS
      <3>1. CASE j = L
        <4>1. ls[L] \in Lines BY <2>4, <3>1, ElementOfSeq
        <4>2. ls2[L] = Ended(ls[L], goesOn) BY <1>2, <2>4
        <4> QED BY <3>1, <4>1, <4>2 DEF Ended, SameText, Lines
      <3>2. CASE j # L
        <4>1. j \in 1..L-1 BY <1>0, <3>2
        <4> QED BY <1>2, <4>1 DEF SameText
      <3> QED BY <3>1, <3>2
    <2>8. \A j \in (a+1)..(L-1) : ~Stops(ls2, a + 1, j)
      <3> SUFFICES ASSUME NEW j \in (a+1)..(L-1) PROVE ~Stops(ls2, a + 1, j) OBVIOUS
      <3>1. j \in 1..L-1 /\ a + 1 \in 1..L-1 BY <1>0, <2>4
      <3>2. ls2[j] = ls[j] /\ ls2[a+1] = ls[a+1] BY <1>2, <3>1
      <3>3. ~Stops(ls, a + 1, j) BY <2>6
      <3> QED BY <3>2, <3>3, Zenon DEF Stops
    <2>9. ls2[L].eol = TRUE /\ (ls2[L].cont <=> (ls[L].cont /\ goesOn))
      <3>1. ls[L] \in Lines BY <2>4, ElementOfSeq
      <3>2. ls2[L] = Ended(ls[L], goesOn) BY <1>2, <2>4
      <3> QED BY <1>0, <3>1, <3>2 DEF Ended, Lines
    <2>10. CASE Stops(ls2, a + 1, L)
      <3> DEFINE src2 == SubSeq(ls2, a + 1, L)
                 closed == Element(src2)
                 els1 == Append(front, closed)
                 e1 == Longer(front, e0, L)
                 els2 == Append(els1, last)
                 e2 == Longer(els1, e1, L + 1)
      <3>1. EndOf(ls2, a + 1) = L BY <1>2, <2>4, <2>8, <2>10, EndOfOnly
      <3>2. IsPart(ls2, els1, e1) /\ e1[Len(front) + 1] = L
        <4> HIDE DEF L
        <4> QED BY <1>2, <2>3, <2>4, <3>1, PartGoesOn
      <3>3. src2 \in Seq(Lines) /\ Len(src2) = L - a /\ \A i \in 1..L-a : src2[i] = ls2[a+i]
        BY <1>0, <1>2, <2>4, CutIs
      <3>4. SameElement(closed, els[N]) /\ closed \in Parsed
        <4>1. L - a # 0 BY <2>4
        <4>2. \A i \in 1..L-a : a + i \in 1..L BY <1>0, <2>4
        <4>3. \A i \in 1..L-a : SameText(src2[i], src[i]) BY <2>5, <2>7, <3>3, <4>2
        <4>4. src2 # <<>> BY <3>3, <4>1
        <4> HIDE DEF src2, src
        <4>5. SameElement(Element(src2), Element(src))
          BY <2>1, <2>5, <3>3, <4>3, <4>4, EndsDoNotRead
        <4>6. Element(src2) \in Parsed BY <3>3, <4>4, ElementType
        <4> QED BY <2>1, <4>5, <4>6
      <3> HIDE DEF closed
      <3>5. /\ els1 \in Seq(Parsed) /\ Len(els1) = N /\ els1[N] = closed
            /\ \A n \in 1..N-1 : els1[n] = els[n]
        <4>1. front \in Seq(Parsed) BY <2>3 DEF IsPart
        <4>2. (N - 1) + 1 = N BY <1>0
        <4> HIDE DEF N
        <4>3. Len(els1) = Len(front) + 1 /\ els1[Len(front) + 1] = closed /\ els1 \in Seq(Parsed)
              /\ \A n \in 1..Len(front) : els1[n] = front[n]
          BY <3>4, <4>1
        <4> QED BY <2>3, <4>2, <4>3
      <3> HIDE DEF els1, e1
      <3>6. e1[Len(els1)] = L
        <4>1. Len(front) + 1 = N BY <1>0, <2>3
        <4> QED BY <3>2, <3>5, <4>1
      <3>7. IsPart(ls2, els2, e2) /\ e2[Len(els1) + 1] = L + 1
        <4> HIDE DEF L
        <4>1. last = Element(SubSeq(ls2, L + 1, L + 1)) BY DEF last
        <4> QED BY <1>2, <1>3, <2>4, <3>2, <3>6, <4>1, PartGoesOn
      <3>8. /\ els2 \in Seq(Parsed) /\ Len(els2) = N + 1 /\ els2[N+1] = last
            /\ \A n \in 1..N : els2[n] = els1[n]
        <4> HIDE DEF N
        <4> QED BY <1>3, <3>5
      <3> HIDE DEF els2, e2
      <3>9. Elements(ls2) = els2
        <4>1. e2[Len(els2)] = Len(ls2) BY <1>2, <3>5, <3>7, <3>8
        <4> QED BY <1>2, <3>7, <4>1, PartIsParse
      <3>10. \A n \in 1..N : SameElement(els2[n], els[n])
        <4> TAKE n \in 1..N
        <4>1. CASE n = N BY <3>4, <3>5, <3>8, <4>1
        <4>2. CASE n # N
          <5>1. n \in 1..N-1
            <6> HIDE DEF N
            <6> QED BY <1>0, <4>2
          <5>2. els2[n] = els[n] BY <3>5, <3>8, <5>1
          <5> QED BY <5>2, SameElementIs
        <4> QED BY <4>1, <4>2
      <3>11. Joined(els, els2, k, v)
        <4>1. Len(els2) - 1 = N BY <1>0, <3>8
        <4>2. els2[Len(els2)] = last BY <3>8
        <4>3. els2 # <<>> BY <1>0, <3>8
        <4>4. \A n \in 1..Len(els2) - 1 : n \in 1..Len(els) /\ SameElement(els2[n], els[n])
          BY <3>10, <4>1
        <4>5. \A n \in 1..Len(els) : n \in 1..Len(els2) - 1 BY <4>1
        <4> QED BY <1>3, <3>8, <4>2, <4>3, <4>4, <4>5 DEF Joined
      <3> QED BY <3>9, <3>11 DEF ls2
    <2>11. CASE ~Stops(ls2, a + 1, L)
      <3> DEFINE src2 == SubSeq(ls2, a + 1, L + 1)
                 merged == Element(src2)
                 els2 == Append(front, merged)
                 e2 == Longer(front, e0, L + 1)
      <3>1. EndOf(ls2, a + 1) = L + 1
        <4>1. \A j \in (a+1)..((L+1)-1) : j = L \/ j \in (a+1)..(L-1) BY <1>0, <2>4
        <4>2. \A j \in (a+1)..((L+1)-1) : ~Stops(ls2, a + 1, j) BY <2>8, <2>11, <4>1
        <4>3. L + 1 \in (a+1)..Len(ls2) BY <1>0, <1>2, <2>4
        <4> QED BY <1>2, <2>4, <4>2, <4>3, EndOfOnly
      <3>2. IsPart(ls2, els2, e2) /\ e2[Len(front) + 1] = L + 1
        <4> HIDE DEF L
        <4> QED BY <1>2, <2>3, <2>4, <3>1, PartGoesOn
      <3>3. els[N].what = "blank" /\ \A i \in 1..L-a : src[i].what = "blank"
        <4>1. ls2[a+1].what # "comment" /\ ls2[L].cont
          BY <2>9, <2>11 DEF Stops
        <4>2. goesOn BY <2>9, <4>1
        <4>3. els[N].what # "entry" BY <4>2
        <4>4. src[1].what # "comment"
          <5>1. 1 \in 1..L-a BY <2>4
          <5>2. src[1] = ls[a+1] BY <2>5, <5>1
          <5> QED BY <2>4, <2>7, <4>1, <5>2
        <4> HIDE DEF src
        <4>5. WrittenIn(src) = {}
          <5> SUFFICES ASSUME WrittenIn(src) # {} PROVE FALSE OBVIOUS
          <5>1. Element(src).what = "entry" BY <4>4 DEF Element
          <5> QED BY <2>1, <4>3, <5>1
        <4>6. Element(src).what = "blank" BY <4>4, <4>5 DEF Element
        <4>7. DOMAIN src = 1..L-a BY <2>1, <2>5
        <4> QED BY <2>1, <4>5, <4>6, <4>7 DEF WrittenIn
      <3>4. src2 \in Seq(Lines) /\ Len(src2) = (L + 1) - a /\ \A i \in 1..(L+1)-a : src2[i] = ls2[a+i]
        <4> DEFINE b == L + 1
        <4>1. a \in Nat /\ b \in Nat /\ a <= b /\ b <= Len(ls2) BY <1>0, <1>2, <2>4
        <4>2. ls2 \in Seq(Lines) BY <1>2
        <4> HIDE DEF L, a, b, ls2
        <4>3. /\ SubSeq(ls2, a + 1, b) \in Seq(Lines)
              /\ Len(SubSeq(ls2, a + 1, b)) = b - a
              /\ \A i \in 1..b-a : SubSeq(ls2, a + 1, b)[i] = ls2[a+i]
          BY ONLY <4>1, <4>2, CutIs
        <4> QED BY <4>3 DEF b
      <3>5. merged \in Parsed /\ merged.what = "entry" /\ merged.key = k /\ merged.val = <<v>>
        <4> DEFINE m == Len(src2)
        <4>1. m \in Nat /\ m # 0 /\ m \in 1..(L+1)-a /\ a + m = L + 1 BY <1>0, <2>4, <3>4
        <4>2. src2[m] = Entry(k, v) BY <1>2, <3>4, <4>1
        <4>3. Entry(k, v).what = "entry" /\ Entry(k, v).key = k /\ Entry(k, v).val = <<v>>
          BY DEF Entry, Line
        <4>4. src2 # <<>> BY <4>1, NonEmpty
        <4>5. ASSUME NEW i \in 1..m, i # m PROVE src2[i].what = "blank"
          <5>1. i \in 1..(L+1)-a /\ i \in 1..L-a /\ a + i \in 1..L BY <1>0, <2>4, <3>4, <4>5
          <5>2. src2[i] = ls2[a+i] BY <3>4, <5>1
          <5>3. src[i] = ls[a+i] BY <2>5, <5>1
          <5>4. src[i].what = "blank" BY <3>3, <5>1
          <5> QED BY <2>7, <5>1, <5>2, <5>3, <5>4
        <4> HIDE DEF src2
        <4>6. Element(src2) \in Parsed BY <3>4, <4>4, ElementType
        <4>7. Element(src2) = [what |-> "entry", key |-> k, src |-> src2, val |-> <<v>>]
          BY <3>4, <4>2, <4>3, <4>4, <4>5, BlanksThenEntry
        <4> QED BY <4>6, <4>7
      <3> HIDE DEF merged
      <3>6. /\ els2 \in Seq(Parsed) /\ Len(els2) = N /\ els2[N] = merged
            /\ \A n \in 1..N-1 : els2[n] = els[n]
        <4>1. front \in Seq(Parsed) BY <2>3 DEF IsPart
        <4>2. (N - 1) + 1 = N BY <1>0
        <4> HIDE DEF N
        <4>3. Len(els2) = Len(front) + 1 /\ els2[Len(front) + 1] = merged /\ els2 \in Seq(Parsed)
              /\ \A n \in 1..Len(front) : els2[n] = front[n]
          BY <3>5, <4>1
        <4> QED BY <2>3, <4>2, <4>3
      <3> HIDE DEF els2, e2
      <3>7. Elements(ls2) = els2
        <4>1. Len(front) + 1 = N BY <1>0, <2>3
        <4>2. e2[Len(els2)] = Len(ls2) BY <1>2, <3>2, <3>6, <4>1
        <4> QED BY <1>2, <3>2, <4>2, PartIsParse
      <3>8. Joined(els, els2, k, v)
        <4>1. els2[Len(els2)] = merged /\ els2 # <<>> BY <1>0, <1>5, <3>6
        <4>2. \A n \in 1..N - 1 : n \in 1..N /\ SameElement(els2[n], els[n])
          <5> TAKE n \in 1..N-1
          <5>1. n \in 1..N BY <1>0
          <5> QED BY <3>6, <5>1, SameElementIs
        <4>3. \A n \in 1..N : n \in 1..N - 1 \/ els[n].what = "blank"
          <5> TAKE n \in 1..N
          <5>1. n \in 1..N-1 \/ n = N
            <6> HIDE DEF N
            <6> QED BY <1>0
          <5> QED BY <3>3, <5>1
        <4> QED BY <3>5, <3>6, <4>1, <4>2, <4>3 DEF Joined
      <3> QED BY <3>7, <3>8 DEF ls2
    <2> QED BY <2>10, <2>11
  <1> QED BY <1>4, <1>5

\* The updates are one key, so the recursion of Merge is one step.
LEMMA MergeOne ==
  ASSUME NEW ls \in Seq(Lines), NEW k \in STRING, NEW v \in STRING
  PROVE  Merge(ls, <<<<k, v>>>>, TRUE) =
            IF EntriesOf(Elements(ls), k) # {} THEN ls ELSE Dumps(SetItem(Elements(ls), k, v))
  <1> DEFINE u == <<<<k, v>>>>
             E == Elements(ls)
             One == IF Skips(E, k, TRUE) THEN E ELSE SetItem(E, k, v)
             after == CHOOSE f : f = [n \in 0..Len(u) |->
                        IF n = 0 THEN E
                        ELSE LET q == u[n][1]
                             IN IF Skips(f[n - 1], q, TRUE) THEN f[n - 1]
                                ELSE SetItem(f[n - 1], q, u[n][2])]
             g == [n \in 0..1 |-> IF n = 0 THEN E ELSE One]
  <1>1. Len(u) = 1 /\ u[1][1] = k /\ u[1][2] = v OBVIOUS
  <1>2. g[0] = E /\ g[1] = One OBVIOUS
  <1> HIDE DEF u, E, One
  <1>3. ASSUME NEW n \in 0..1
        PROVE  g[n] = IF n = 0 THEN E
                      ELSE LET q == u[n][1]
                           IN IF Skips(g[n - 1], q, TRUE) THEN g[n - 1]
                              ELSE SetItem(g[n - 1], q, u[n][2])
    <2>1. CASE n = 0
      <3> HIDE DEF g
      <3> QED BY <1>2, <2>1
    <2>2. CASE n = 1
      <3>1. n - 1 = 0 /\ n # 0 BY <2>2
      <3> HIDE DEF g
      <3>2. g[n - 1] = E /\ g[n] = One BY <1>2, <2>2, <3>1
      <3>3. u[n][1] = k /\ u[n][2] = v BY <1>1, <2>2
      <3>4. One = LET q == u[n][1]
                  IN IF Skips(g[n - 1], q, TRUE) THEN g[n - 1]
                     ELSE SetItem(g[n - 1], q, u[n][2])
        BY <3>2, <3>3, Zenon DEF One
      <3> QED BY <3>1, <3>2, <3>4, Zenon
    <2>3. n = 0 \/ n = 1 OBVIOUS
    <2> QED BY <2>1, <2>2, <2>3, Zenon
  <1>4. g = [n \in 0..Len(u) |->
                        IF n = 0 THEN E
                        ELSE LET q == u[n][1]
                             IN IF Skips(g[n - 1], q, TRUE) THEN g[n - 1]
                                ELSE SetItem(g[n - 1], q, u[n][2])]
    BY <1>1, <1>3
  <1>5. after = [n \in 0..Len(u) |->
                        IF n = 0 THEN E
                        ELSE LET q == u[n][1]
                             IN IF Skips(after[n - 1], q, TRUE) THEN after[n - 1]
                                ELSE SetItem(after[n - 1], q, u[n][2])]
    <2> HIDE DEF g
    <2> QED BY <1>4
  <1> HIDE DEF after
  <1>6. after[0] = E
    <2>1. 0 \in 0..Len(u) BY <1>1
    <2> QED BY <1>5, <2>1
  <1>7. after[1] = One
    <2>1. 1 \in 0..Len(u) /\ 1 - 1 = 0 /\ 1 # 0 BY <1>1
    <2>2. after[1] = LET q == u[1][1]
                     IN IF Skips(after[1 - 1], q, TRUE) THEN after[1 - 1]
                        ELSE SetItem(after[1 - 1], q, u[1][2])
      BY <1>5, <2>1
    <2> QED BY <1>1, <1>6, <2>1, <2>2 DEF One
  <1>8. Merge(ls, u, TRUE) = Dumps(after[Len(u)]) BY DEF Merge, after, E
  <1>9. Dumps(E) = ls BY DumpsParse DEF E
  <1>10. Merge(ls, u, TRUE) = Dumps(One) BY <1>1, <1>7, <1>8
  <1> QED BY <1>9, <1>10 DEF One, Skips, E, u

\* A value is the value of an entry ...
LEMMA ValueIs ==
  ASSUME NEW ls \in Seq(Lines), NEW k, Has(ls, k)
  PROVE  \E i \in DOMAIN Elements(ls) : /\ Elements(ls)[i].what = "entry"
                                        /\ Elements(ls)[i].key = k
                                        /\ Value(ls, k) = Elements(ls)[i].val
  <1> DEFINE els == Elements(ls)
             hits == EntriesOf(els, k)
  <1>1. els \in Seq(Parsed) BY ParseExists DEF IsParse
  <1>2. hits \subseteq 0..Len(els) /\ Len(els) \in Nat
    <2> HIDE DEF els
    <2> QED BY <1>1 DEF EntriesOf
  <1>3. hits # {} BY DEF Has
  <1> HIDE DEF hits
  <1>4. Max(hits) \in hits BY <1>2, <1>3, MaxIs
  <1>5. Value(ls, k) = els[Max(hits)].val BY DEF Value, hits
  <1> QED BY <1>4, <1>5 DEF hits, EntriesOf

\* ... and so a text, which parses if the file does.
LEMMA ValueType ==
  ASSUME NEW ls \in Seq(Lines), NEW k, Has(ls, k)
  PROVE  /\ Value(ls, k) \in Seq(STRING) /\ Value(ls, k) # <<>>
         /\ ~Raises(ls) => \A n \in DOMAIN Value(ls, k) : Value(ls, k)[n] # Garbled
  <1> DEFINE els == Elements(ls)
  <1>1. els \in Seq(Parsed) BY ParseExists DEF IsParse
  <1>2. PICK i \in DOMAIN els : els[i].what = "entry" /\ Value(ls, k) = els[i].val BY ValueIs
  <1>3. els[i] \in Parsed
    <2> HIDE DEF els
    <2>1. i \in 1..Len(els) BY <1>1
    <2> QED BY <1>1, <2>1, ElementOfSeq
  <1>4. els[i].val \in Seq(STRING) \ {<<>>}
    <2> HIDE DEF els
    <2> QED BY <1>2, <1>3 DEF Parsed
  <1>5. ~Raises(ls) => \A n \in DOMAIN Value(ls, k) : Value(ls, k)[n] # Garbled
    BY <1>2, Zenon DEF Raises
  <1> QED BY <1>2, <1>4, <1>5

\* Nothing that was there reads differently.
Kept(ls, ls2) == \A q : Has(ls, q) => Has(ls2, q) /\ Value(ls2, q) = Value(ls, q)

\* One more entry under a new key changes what no other key reads as.
LEMMA JoinedKeeps ==
  ASSUME NEW ls \in Seq(Lines), NEW ls2 \in Seq(Lines),
         NEW k \in STRING, NEW v \in STRING,
         EntriesOf(Elements(ls), k) = {}, Joined(Elements(ls), Elements(ls2), k, v)
  PROVE  /\ Has(ls2, k)
         /\ Kept(ls, ls2)
         /\ Raises(ls2) => Raises(ls) \/ v = Garbled
  <1> DEFINE els == Elements(ls)
             els2 == Elements(ls2)
             last == Len(els2)
  <1>1. els \in Seq(Parsed) /\ els2 \in Seq(Parsed) BY ParseExists DEF IsParse
  <1> HIDE DEF els, els2
  <1>2. /\ els2 # <<>> /\ els2[last].what = "entry" /\ els2[last].key = k /\ els2[last].val = <<v>>
        /\ \A n \in 1..last - 1 : n \in 1..Len(els) /\ SameElement(els2[n], els[n])
        /\ \A n \in 1..Len(els) : n \in 1..last - 1 \/ els[n].what = "blank"
    BY DEF Joined, els, els2
  <1>3. /\ DOMAIN els = 1..Len(els) /\ DOMAIN els2 = 1..last /\ last \in Nat /\ last # 0
        /\ Len(els) \in Nat /\ last \in 1..last
    BY <1>1, <1>2
  <1> HIDE DEF last
  <1>4. Has(ls2, k)
    <2>1. last \in EntriesOf(els2, k) BY <1>2, <1>3 DEF EntriesOf
    <2> QED BY <2>1 DEF Has, els2
  <1>5. \A n \in 1..last : n = last \/ n \in 1..last - 1 BY <1>3
  <1>6. \A n \in 1..last - 1 : n \in 1..last BY <1>3
  <1>7. ASSUME NEW q, Has(ls, q) PROVE Has(ls2, q) /\ Value(ls2, q) = Value(ls, q)
    <2>1. q # k BY <1>7 DEF Has, els
    <2>2. EntriesOf(els2, q) \subseteq EntriesOf(els, q)
      <3> SUFFICES ASSUME NEW n \in 1..last, els2[n].what = "entry", els2[n].key = q
                   PROVE  n \in 1..Len(els) /\ els[n].what = "entry" /\ els[n].key = q
        BY <1>3 DEF EntriesOf
      <3>1. n \in 1..last - 1 BY <1>2, <1>5, <2>1
      <3> QED BY <1>2, <3>1 DEF SameElement
    <2>3. EntriesOf(els, q) \subseteq EntriesOf(els2, q)
      <3> SUFFICES ASSUME NEW n \in 1..Len(els), els[n].what = "entry", els[n].key = q
                   PROVE  n \in 1..last /\ els2[n].what = "entry" /\ els2[n].key = q
        BY <1>3 DEF EntriesOf
      <3>1. n \in 1..last - 1 BY <1>2
      <3> QED BY <1>2, <1>6, <3>1 DEF SameElement
    <2> DEFINE hits == EntriesOf(els, q)
    <2>4. hits = EntriesOf(els2, q) BY <2>2, <2>3
    <2>5. hits # {} BY <1>7 DEF Has, els
    <2>6. hits \subseteq 0..Len(els) BY <1>3 DEF EntriesOf
    <2>7. hits \subseteq 1..Len(els) BY <1>3 DEF EntriesOf
    <2>8. \A n \in hits : els[n].what = "entry" /\ els2[n].what = "entry" /\ els2[n].key = q
      BY <2>4 DEF EntriesOf
    <2> HIDE DEF hits
    <2>9. Max(hits) \in hits BY <1>3, <2>5, <2>6, MaxIs
    <2>10. els2[Max(hits)].val = els[Max(hits)].val
      <3>1. Max(hits) \in 1..Len(els) BY <2>7, <2>9
      <3>2. els[Max(hits)].what # "blank" BY <2>8, <2>9
      <3>3. Max(hits) \in 1..last - 1 BY <1>2, <3>1, <3>2
      <3> QED BY <1>2, <2>8, <2>9, <3>3 DEF SameElement
    <2>11. Value(ls, q) = els[Max(hits)].val BY DEF Value, hits, els
    <2>12. Value(ls2, q) = els2[Max(hits)].val BY <2>4 DEF Value, els2
    <2>13. Has(ls2, q) BY <2>4, <2>5 DEF Has, els2
    <2> QED BY <2>10, <2>11, <2>12, <2>13
  <1>8. ASSUME Raises(ls2), v # Garbled PROVE Raises(ls)
    <2>1. PICK i \in DOMAIN els2 : /\ els2[i].what = "entry"
                                   /\ \E n \in DOMAIN els2[i].val : els2[i].val[n] = Garbled
      BY <1>8 DEF Raises, els2
    <2>2. i # last
      <3> SUFFICES ASSUME i = last PROVE FALSE OBVIOUS
      <3>1. PICK n \in DOMAIN <<v>> : <<v>>[n] = Garbled BY <1>2, <2>1
      <3>2. n = 1 OBVIOUS
      <3> QED BY <1>8, <3>1, <3>2
    <2>3. i \in 1..last - 1 BY <1>3, <1>5, <2>2
    <2>4. i \in DOMAIN els /\ SameElement(els2[i], els[i]) BY <1>2, <1>3, <2>3
    <2>5. els[i].what = "entry" /\ els[i].val = els2[i].val BY <2>1, <2>4 DEF SameElement
    <2> QED BY <2>1, <2>4, <2>5, Zenon DEF Raises, els
  <1> QED BY <1>4, <1>7, <1>8 DEF Kept

\* sysprops.merge of one key with only_if_absent: the key is there, what was there
\* stays, and what parsed still does.
LEMMA MergeReads ==
  ASSUME NEW ls \in Seq(Lines), NEW k \in STRING, NEW v \in STRING,
         NEW ls2, ls2 = Merge(ls, <<<<k, v>>>>, TRUE)
  PROVE  /\ ls2 \in Seq(Lines)
         /\ Has(ls2, k)
         /\ Kept(ls, ls2)
         /\ Raises(ls2) => Raises(ls) \/ v = Garbled
  <1>1. CASE EntriesOf(Elements(ls), k) # {}
    <2>1. ls2 = ls BY <1>1, MergeOne
    <2> QED BY <1>1, <2>1 DEF Has, Kept
  <1>2. CASE EntriesOf(Elements(ls), k) = {}
    <2> DEFINE els == Elements(ls)
               goesOn == els[Len(els)].what # "entry"
               add == Added(ls, goesOn, k, v)
    <2>1. ls2 = add
      <3>1. ls2 = Dumps(SetItem(els, k, v)) BY <1>2, MergeOne
      <3> HIDE DEF els
      <3>2. Dumps(SetItem(els, k, v)) = add BY <1>2, WritesOn DEF els
      <3> QED BY <3>1, <3>2
    <2>2. Joined(els, Elements(add), k, v)
      <3> HIDE DEF els
      <3> QED BY ReadsOn DEF els
    <2>3. goesOn \in BOOLEAN OBVIOUS
    <2>4. add \in Seq(Lines)
      <3> HIDE DEF goesOn
      <3> QED BY <2>3, AddedType
    <2> HIDE DEF add
    <2>5. /\ Has(add, k) /\ Kept(ls, add)
          /\ Raises(add) => Raises(ls) \/ v = Garbled
      <3>1. Joined(Elements(ls), Elements(add), k, v) BY <2>2
      <3> HIDE DEF els
      <3>2. Has(add, k) BY <1>2, <2>4, <3>1, JoinedKeeps
      <3>3. Kept(ls, add) BY <1>2, <2>4, <3>1, JoinedKeeps
      <3>4. Raises(add) => Raises(ls) \/ v = Garbled BY <1>2, <2>4, <3>1, JoinedKeeps
      <3> QED BY <3>2, <3>3, <3>4, Zenon
    <2> QED BY <2>1, <2>4, <2>5
  <1> QED BY <1>1, <1>2

\* A file of plain entries is read line by line.
Plain(ls) ==
    /\ ls \in Seq(Lines)
    /\ \A n \in 1..Len(ls) : ls[n].what = "entry" /\ ~ls[n].cont /\ ls[n].eol

\* It has the keys its lines have, and parses if they do.
LEMMA PlainReads ==
  ASSUME NEW ls, Plain(ls)
  PROVE  /\ \A n \in 1..Len(ls) : Has(ls, ls[n].key)
         /\ (\A n \in 1..Len(ls) : \A i \in DOMAIN ls[n].val : ls[n].val[i] # Garbled)
               => ~Raises(ls)
  <1> DEFINE L == Len(ls)
             els == [n \in 1..L |-> Element(<<ls[n]>>)]
             e == [n \in 0..L |-> n]
  <1>0. L \in Nat /\ ls \in Seq(Lines) /\ \A n \in 1..L : ls[n] \in Lines BY DEF Plain
  <1>1. ASSUME NEW n \in 1..L
        PROVE  Element(<<ls[n]>>) \in Parsed /\ Element(<<ls[n]>>).what = "entry"
               /\ Element(<<ls[n]>>).key = ls[n].key /\ Element(<<ls[n]>>).val = ls[n].val
    <2> DEFINE l == ls[n]
               src == <<l>>
    <2>1. l \in Lines /\ l.what = "entry" BY <1>0 DEF Plain
    <2> HIDE DEF l
    <2>2. src \in Seq(Lines) /\ Len(src) = 1 /\ src[1] = l BY <2>1, SingleIs
    <2> HIDE DEF src
    <2>3. src # <<>>
      <3>1. Len(src) # 0 BY <2>2
      <3> QED BY <3>1, NonEmpty
    <2>4. \A i \in 1..Len(src) : i = Len(src) BY <2>2
    <2>5. src[Len(src)] = l BY <2>2
    <2>6. Element(src) = [what |-> "entry", key |-> l.key, src |-> src, val |-> l.val]
      BY <2>1, <2>2, <2>3, <2>4, <2>5, BlanksThenEntry
    <2>7. Element(src) \in Parsed BY <2>2, <2>3, ElementType
    <2> QED BY <2>6, <2>7 DEF src, l
  <1>2. els \in Seq(Parsed) /\ Len(els) = L /\ DOMAIN els = 1..L
    <2>1. \A n \in 1..L : Element(<<ls[n]>>) \in Parsed BY <1>1
    <2> HIDE DEF L
    <2>2. DOMAIN els = 1..L /\ els \in [1..L -> Parsed] BY <2>1
    <2> HIDE DEF els
    <2>3. L \in Nat BY <1>0
    <2> QED BY ONLY <2>2, <2>3
  <1>3. ASSUME NEW n \in 1..L
        PROVE  /\ e[n-1] < e[n] /\ e[n] = EndOf(ls, e[n-1] + 1)
               /\ els[n] = Element(SubSeq(ls, e[n-1] + 1, e[n]))
    <2>1. n - 1 \in 0..L /\ n \in 0..L /\ (n-1)+1 = n /\ n - 1 < n
      <3> HIDE DEF L
      <3> QED BY <1>0
    <2>2. e[n-1] = n - 1 /\ e[n] = n BY <2>1
    <2>3. EndOf(ls, n) = n
      <3>1. Stops(ls, n, n) BY Zenon DEF Stops, Plain
      <3>2. n \in n..Len(ls) /\ \A j \in n..(n-1) : FALSE BY <1>0
      <3> QED BY <1>0, <3>1, <3>2, EndOfOnly
    <2>4. SubSeq(ls, (n-1)+1, n) = <<ls[n]>>
      <3> DEFINE c == SubSeq(ls, (n-1)+1, n)
                 a == n - 1
      <3>1. a \in Nat /\ n \in Nat /\ a <= n /\ n <= Len(ls) /\ n - a = 1 /\ a + 1 = n BY <1>0
      <3> HIDE DEF a
      <3>2. c \in Seq(Lines) /\ Len(c) = n - a /\ \A i \in 1..n-a : c[i] = ls[a+i]
        BY <1>0, <3>1, CutIs DEF a
      <3>3. Len(c) = 1 /\ c[1] = ls[n]
        <4>1. 1 \in 1..n-a BY <3>1
        <4> HIDE DEF c
        <4> QED BY <3>1, <3>2, <4>1
      <3> DEFINE l == ls[n]
      <3>4. l \in Lines BY <1>0
      <3> HIDE DEF c, l
      <3>5. <<l>> \in Seq(Lines) /\ Len(<<l>>) = 1 /\ <<l>>[1] = l BY <3>4, SingleIs
      <3>6. c[1] = l BY <3>3 DEF l
      <3>7. \A i \in 1..1 : i = 1 OBVIOUS
      <3>8. c = <<l>> BY <3>2, <3>3, <3>5, <3>6, <3>7, SeqEqual
      <3> QED BY <3>8 DEF c, l
    <2>5. els[n] = Element(<<ls[n]>>) OBVIOUS
    <2> HIDE DEF els, e
    <2> QED BY <2>1, <2>2, <2>3, <2>4, <2>5
  <1>4. IsPart(ls, els, e) /\ e[Len(els)] = Len(ls)
    <2>1. e \in [0..L -> 0..L] /\ e[0] = 0 /\ e[L] = L BY <1>0
    <2> HIDE DEF els, e
    <2> QED BY <1>2, <1>3, <2>1 DEF IsPart
  <1>5. Elements(ls) = els
    <2> HIDE DEF els, e
    <2> QED BY <1>0, <1>4, PartIsParse
  <1>6. \A n \in 1..L : /\ els[n].what = "entry" /\ els[n].key = ls[n].key /\ els[n].val = ls[n].val
    BY <1>1
  <1> HIDE DEF els
  <1>7. \A n \in 1..L : Has(ls, ls[n].key)
    <2> TAKE n \in 1..L
    <2>1. n \in EntriesOf(els, ls[n].key) BY <1>2, <1>6 DEF EntriesOf
    <2> QED BY <1>5, <2>1 DEF Has
  <1>8. ASSUME \A n \in 1..Len(ls) : \A i \in DOMAIN ls[n].val : ls[n].val[i] # Garbled
        PROVE  ~Raises(ls)
    <2> SUFFICES ASSUME NEW i \in DOMAIN els, NEW n \in DOMAIN els[i].val, els[i].val[n] = Garbled
                 PROVE  FALSE
      BY <1>5 DEF Raises
    <2>1. i \in 1..L /\ els[i].val = ls[i].val BY <1>2, <1>6
    <2> QED BY <1>8, <2>1, Zenon
  <1> QED BY <1>7, <1>8

-----------------------------------------------------------------------------
(* What a setting reads as, through both boots.                            *)

\* An empty file parses and says nothing.
LEMMA EmptyReads == ~Raises(<<>>) /\ \A k : ~Has(<<>>, k)
  <1> DEFINE none == <<>>
             e == [n \in 0..0 |-> 0]
  <1>1. none \in Seq(Lines) /\ Len(none) = 0 OBVIOUS
  <1>2. IsPart(none, none, e) BY <1>1, NoPart
  <1>3. e[Len(none)] = Len(none) BY <1>1
  <1> HIDE DEF none, e
  <1>4. Elements(none) = none BY <1>1, <1>2, <1>3, PartIsParse
  <1>5. DOMAIN Elements(none) = {} BY <1>4 DEF none
  <1> QED BY <1>5 DEF Raises, Has, EntriesOf, none

\* What a key is given is not nothing.
LEMMA OfIs ==
  ASSUME NEW ls \in Seq(Lines), NEW k
  PROVE  Of(k, ls) # NotSaid <=> Has(ls, k)
  BY ValueType DEF Of, NotSaid

\* What is kept is what a key is given.
LEMMA KeptOf ==
  ASSUME NEW ls \in Seq(Lines), NEW ls2 \in Seq(Lines), Kept(ls, ls2), NEW k, Of(k, ls) # NotSaid
  PROVE  Of(k, ls2) = Of(k, ls)
  <1>1. Has(ls, k) BY OfIs
  <1>2. Has(ls2, k) /\ Value(ls2, k) = Value(ls, k) BY <1>1 DEF Kept
  <1> QED BY <1>1, <1>2 DEF Of

\* x is in the sequence.
Occurs(x, s) == \E i \in 1..Len(s) : s[i] = x

LEMMA InConcat ==
  ASSUME NEW S, NEW s \in Seq(S), NEW t \in Seq(S), NEW x, Occurs(x, s) \/ Occurs(x, t)
  PROVE  Occurs(x, s \o t)
  <1> USE DEF Occurs
  <1>1. CASE \E i \in 1..Len(s) : s[i] = x
    <2>1. PICK i \in 1..Len(s) : s[i] = x BY <1>1
    <2>2. i \in 1..Len(s \o t) /\ (s \o t)[i] = x BY <2>1
    <2> QED BY <2>2
  <1>2. CASE \E i \in 1..Len(t) : t[i] = x
    <2>1. PICK i \in 1..Len(t) : t[i] = x BY <1>2
    <2>2. Len(s) + i \in 1..Len(s \o t) /\ (s \o t)[Len(s) + i] = x BY <2>1
    <2> QED BY <2>2
  <1> QED BY <1>1, <1>2

\* What the controller stores when it sets k: a plain line for each key that is there.
NowTold(ls, k) == [Told(ls) EXCEPT ![k] = <<"changed">>]
LineOf(ls, k, q) == IF NowTold(ls, k)[q] = NotSaid THEN <<>>
                    ELSE <<Line("entry", q, NowTold(ls, k)[q], FALSE, TRUE)>>
Stored(ls, k) == LineOf(ls, k, "port") \o LineOf(ls, k, "is_simulation") \o LineOf(ls, k, "mine")

\* It parses and lacks no key that was there.
LEMMA StoredReads ==
  ASSUME NEW ls \in Seq(Lines), ~Raises(ls), NEW k \in Keys
  PROVE  /\ Stored(ls, k) \in Seq(Lines) /\ ~Raises(Stored(ls, k))
         /\ \A q \in Keys : Has(ls, q) => Has(Stored(ls, k), q)
  <1> DEFINE now == NowTold(ls, k)
             new == Stored(ls, k)
             line(q) == LineOf(ls, k, q)
             Good == {l \in Lines : /\ l.what = "entry" /\ ~l.cont /\ l.eol
                                    /\ \A i \in DOMAIN l.val : l.val[i] # Garbled}
             L(q) == Line("entry", q, now[q], FALSE, TRUE)
  <1>1. ASSUME NEW q \in Keys, now[q] # NotSaid
        PROVE  now[q] \in Seq(STRING) /\ \A i \in DOMAIN now[q] : now[q][i] # Garbled
    <2>1. CASE q = k
      <3>1. now[q] = <<"changed">> BY <2>1 DEF NowTold, Told
      <3>2. "changed" # Garbled BY DEF Garbled
      <3>3. <<"changed">> \in Seq(STRING) BY TextAssumption, SingleIs
      <3>4. \A i \in DOMAIN <<"changed">> : <<"changed">>[i] = "changed" OBVIOUS
      <3> QED BY <3>1, <3>2, <3>3, <3>4
    <2>2. CASE q # k
      <3>1. now[q] = Of(q, ls) BY <2>2 DEF NowTold, Told
      <3>2. Has(ls, q) /\ now[q] = Value(ls, q) BY <1>1, <3>1 DEF Of
      <3> QED BY <3>2, ValueType
    <2> QED BY <2>1, <2>2
  <1>2. ASSUME NEW q \in Keys, now[q] # NotSaid PROVE L(q) \in Good
    <2>1. now[q] \in Seq(STRING) /\ \A i \in DOMAIN now[q] : now[q][i] # Garbled BY <1>1, <1>2
    <2>2. q \in STRING BY TextAssumption DEF Keys
    <2>3. L(q) \in Lines BY <1>2, <2>1, <2>2 DEF Line, Lines, NotSaid
    <2>4. /\ L(q).what = "entry" /\ L(q).cont = FALSE /\ L(q).eol = TRUE /\ L(q).val = now[q]
      BY DEF Line
    <2> HIDE DEF L
    <2> QED BY <2>1, <2>3, <2>4
  <1>3. ASSUME NEW q \in Keys
        PROVE  /\ line(q) \in Seq(Good)
               /\ now[q] # NotSaid => \E i \in 1..Len(line(q)) : line(q)[i] = L(q)
    <2>1. line(q) = IF now[q] = NotSaid THEN <<>> ELSE <<L(q)>> BY DEF LineOf
    <2> HIDE DEF Good, L, line, now
    <2>2. CASE now[q] = NotSaid
      <3>1. <<>> \in Seq(Good) OBVIOUS
      <3> QED BY <2>1, <2>2, <3>1
    <2>3. CASE now[q] # NotSaid
      <3> DEFINE x == L(q)
      <3>1. line(q) = <<x>> BY <2>1, <2>3
      <3>2. x \in Good BY <1>2, <2>3
      <3> HIDE DEF x
      <3>3. <<x>> \in Seq(Good) /\ Len(<<x>>) = 1 /\ <<x>>[1] = x BY <3>2, SingleIs
      <3>4. 1 \in 1..Len(line(q)) /\ line(q)[1] = x BY ONLY <3>1, <3>3
      <3> QED BY <3>1, <3>3, <3>4 DEF x
    <2> QED BY <2>2, <2>3
  <1> HIDE DEF Good, L, line
  <1> DEFINE a == line("port")
             b == line("is_simulation")
             c == line("mine")
  <1>4. "port" \in Keys /\ "is_simulation" \in Keys /\ "mine" \in Keys
        /\ Keys = {"port", "is_simulation", "mine"} BY DEF Keys
  <1>5. a \in Seq(Good) /\ b \in Seq(Good) /\ c \in Seq(Good) BY <1>3, <1>4
  <1>6. a \o b \in Seq(Good) /\ new \in Seq(Good) /\ new = (a \o b) \o c
    <2>1. new = (a \o b) \o c BY DEF Stored, line
    <2> HIDE DEF a, b, c, new
    <2> QED BY <1>5, <2>1, ConcatProperties
  <1> HIDE DEF new
  <1>7. ASSUME NEW q \in Keys, now[q] # NotSaid PROVE \E i \in 1..Len(new) : new[i] = L(q)
    <2> DEFINE x == L(q)
               Holds(s) == Occurs(x, s)
    <2>1. Holds(line(q)) BY <1>3, <1>7 DEF Occurs
    <2> HIDE DEF a, b, c, x
    <2>2. Holds(a) \/ Holds(b) => Holds(a \o b) BY ONLY <1>5, InConcat
    <2>3. Holds(a \o b) \/ Holds(c) => Holds((a \o b) \o c) BY ONLY <1>5, <1>6, InConcat
    <2>4. line(q) = a \/ line(q) = b \/ line(q) = c BY <1>4 DEF a, b, c
    <2> HIDE DEF Holds
    <2>5. Holds(new) BY <1>6, <2>1, <2>2, <2>3, <2>4
    <2> QED BY <2>5 DEF Holds, Occurs, x
  <1> HIDE DEF a, b, c
  <1>8. \A n \in 1..Len(new) : new[n] \in Good BY <1>6, ElementOfSeq
  <1>9. Plain(new)
    <2>1. new \in Seq(Lines)
      <3>1. Good \subseteq Lines BY DEF Good
      <3> QED BY <1>6, <3>1, SeqMonotonic
    <2> QED BY <1>8, <2>1, Zenon DEF Plain, Good
  <1>10. ~Raises(new)
    <2>1. \A n \in 1..Len(new) : \A i \in DOMAIN new[n].val : new[n].val[i] # Garbled
      BY <1>8, Zenon DEF Good
    <2> QED BY <1>9, <2>1, PlainReads
  <1>11. ASSUME NEW q \in Keys, Has(ls, q) PROVE Has(new, q)
    <2>1. now[q] # NotSaid
      <3>1. CASE q = k BY <3>1 DEF NowTold, Told, NotSaid
      <3>2. CASE q # k
        <4>1. now[q] = Of(q, ls) BY <3>2 DEF NowTold, Told
        <4> QED BY <1>11, <4>1, OfIs
      <3> QED BY <3>1, <3>2
    <2>2. PICK i \in 1..Len(new) : new[i] = L(q) BY <1>7, <2>1
    <2>4. L(q).key = q BY DEF L, Line
    <2>3. new[i].key = q BY <2>2, <2>4
    <2> QED BY <1>9, <2>3, PlainReads
  <1> QED BY <1>9, <1>10, <1>11 DEF Plain, new

\* The file is open; nothing in it fails to parse; the default port is there; and no
\* hook has run.
Opened   == {"props_write", "demo_write"}
Parsing  == {"props_open", "props_write", "plan_hooks"} \cup InHooks
Started  == {"plan_hooks", "app"} \cup InHooks
BeforeHooks == {"props", "props_open", "props_write", "eth0", "envfiles", "units", "plan_hooks"}

\* What the file says, or is about to: while it is open, what was read of it.
Held == IF pc \in Opened THEN read ELSE text

\* Opening the file empties it, and it was read before.
FileOpen ==
    /\ text \in Seq(Lines) /\ read \in Seq(Lines)
    /\ pc \in Opened => text = <<>>
    /\ pc \in {"props_open", "demo_open"} => read = text

\* It says what it was told.
WordHeld == \A k \in Keys : said[k] # NotSaid => Of(k, Held) = said[k]

\* What does not parse ends the boot of the network image and is never on UniFi OS.
HeldParses == image.base = "uos" \/ pc \in Parsing => ~Raises(Held)

\* Each default is there once the step that writes it is over.
HeldDefaults ==
    /\ image.base = "network" /\ pc \in Started => Has(Held, "port")
    /\ pc \in {"hooks", "app"} /\ "demo" \in done => Has(Held, "is_simulation")

\* Before the hooks none has run, and only UniFi OS has units.
BootSteps ==
    /\ pc \in BeforeHooks => done = {}
    /\ pc \in {"eth0", "envfiles", "units"} => image.base = "uos"

\* What every step keeps.
WordInv == FileOpen /\ WordHeld /\ HeldParses /\ HeldDefaults /\ BootSteps

\* There are two entrypoints.
LEMMA WhichImage == ASSUME IInv PROVE image.base \in {"network", "uos"}
  BY WhoseTypes DEF IInv

\* A file that is kept, with a key more, says what it said.
LEMMA WordKept ==
  ASSUME WordInv, said' = said, NEW ls2 \in Seq(Lines), Held' = ls2, Kept(Held, ls2)
  PROVE  WordHeld'
  <1>1. Held \in Seq(Lines) BY DEF WordInv, FileOpen, Held
  <1>2. ASSUME NEW k \in Keys, said[k] # NotSaid PROVE Of(k, ls2) = said[k]
    <2>1. Of(k, Held) = said[k] BY <1>2 DEF WordInv, WordHeld
    <2> QED BY <1>1, <1>2, <2>1, KeptOf
  <1> QED BY <1>2 DEF WordHeld

\* A file keeps what it says.
LEMMA KeptItself == ASSUME NEW ls PROVE Kept(ls, ls) BY DEF Kept

\* What write_system_properties and the hook write, each with its one key.
LEMMA PortMerge ==
  ASSUME NEW ls \in Seq(Lines)
  PROVE  /\ Merge(ls, Ports, TRUE) \in Seq(Lines)
         /\ Has(Merge(ls, Ports, TRUE), "port")
         /\ Kept(ls, Merge(ls, Ports, TRUE))
         /\ ~Raises(ls) => ~Raises(Merge(ls, Ports, TRUE))
  <1> DEFINE ls2 == Merge(ls, Ports, TRUE)
  <1>1. ls2 = Merge(ls, <<<<"port", "8443">>>>, TRUE) BY DEF Ports
  <1>2. "port" \in STRING /\ "8443" \in STRING BY TextAssumption
  <1>3. "8443" # Garbled BY DEF Garbled
  <1> HIDE DEF ls2
  <1>4. ls2 \in Seq(Lines) /\ Has(ls2, "port") /\ Kept(ls, ls2) BY <1>1, <1>2, MergeReads
  <1>5. Raises(ls2) => Raises(ls) \/ "8443" = Garbled BY <1>1, <1>2, MergeReads
  <1> QED BY <1>3, <1>4, <1>5 DEF ls2

LEMMA DemoMerge ==
  ASSUME NEW ls \in Seq(Lines)
  PROVE  /\ Merge(ls, DemoKeys, TRUE) \in Seq(Lines)
         /\ Has(Merge(ls, DemoKeys, TRUE), "is_simulation")
         /\ Kept(ls, Merge(ls, DemoKeys, TRUE))
         /\ ~Raises(ls) => ~Raises(Merge(ls, DemoKeys, TRUE))
  <1> DEFINE ls2 == Merge(ls, DemoKeys, TRUE)
  <1>1. ls2 = Merge(ls, <<<<"is_simulation", "true">>>>, TRUE) BY DEF DemoKeys
  <1>2. "is_simulation" \in STRING /\ "true" \in STRING BY TextAssumption
  <1>3. "true" # Garbled BY DEF Garbled
  <1> HIDE DEF ls2
  <1>4. ls2 \in Seq(Lines) /\ Has(ls2, "is_simulation") /\ Kept(ls, ls2) BY <1>1, <1>2, MergeReads
  <1>5. Raises(ls2) => Raises(ls) \/ "true" = Garbled BY <1>1, <1>2, MergeReads
  <1> QED BY <1>3, <1>4, <1>5 DEF ls2

\* Before the first boot nothing has been said.
LEMMA InitWord == ASSUME Init PROVE WordInv
  <1>1. FileOpen
    <2>1. <<>> \in Seq(Lines) OBVIOUS
    <2> QED BY <2>1 DEF Init, FileOpen, Opened
  <1>2. WordHeld BY DEF Init, WordHeld
  <1>3. Held = <<>> BY DEF Init, Held
  <1>4. HeldParses BY <1>3, EmptyReads DEF HeldParses
  <1>5. HeldDefaults /\ BootSteps
       BY DEF Init, HeldDefaults, BootSteps, Started, BeforeHooks, InHooks
  <1> QED BY <1>1, <1>2, <1>4, <1>5 DEF WordInv

\* A step that leaves alone what the file holds, though it reads it or empties it.
LEMMA SameHeld ==
  ASSUME WordInv, said' = said, image' = image, Held' = Held, FileOpen'
  PROVE  WordHeld'
  <1>1. Held \in Seq(Lines) BY DEF WordInv, FileOpen, Held
  <1> QED BY <1>1, WordKept, KeptItself

\* One lemma for each group of steps.
LEMMA NetworkWord == ASSUME IInv, WordInv, Network PROVE WordInv'
  <1>1. /\ UNCHANGED <<image, done, said>>
        /\ pc \in {"props", "props_open", "props_write"}
        /\ pc' \in {"dead", "props_open", "props_write", "plan_hooks"}
    BY DEF Network, ReadProperties, OpenProperties, WriteProperties, Goto, who, hooks
  <1>2. image.base = "network" BY <1>1, WhichImage DEF IInv, UosSteps
  <1>3. BootSteps' BY <1>1 DEF WordInv, BootSteps, BeforeHooks
  <1>4. text \in Seq(Lines) /\ read \in Seq(Lines) BY DEF WordInv, FileOpen
  <1>d. ~("demo" \in done) BY <1>1 DEF WordInv, BootSteps, BeforeHooks
  <1>5. CASE ReadProperties
    <2>1. /\ pc = "props" /\ read' = text /\ text' = text
          /\ pc' = IF Raises(text) THEN "dead"
                   ELSE IF Merge(text, Ports, TRUE) = text THEN "plan_hooks" ELSE "props_open"
      BY <1>5 DEF ReadProperties, Read
    <2>2. Held = text /\ Held' = text
      BY <2>1 DEF Held, Opened
    <2>3. FileOpen' BY <1>4, <2>1 DEF FileOpen, Opened
    <2>4. WordHeld' BY <1>1, <2>2, <2>3, SameHeld
    <2>5. HeldParses'
      <3>1. pc' \in Parsing => ~Raises(text) BY <2>1 DEF Parsing, InHooks
      <3> QED BY <1>1, <1>2, <2>2, <3>1 DEF HeldParses, Parsing, InHooks
    <2>6. HeldDefaults'
      <3>1. pc' \in Started => Merge(text, Ports, TRUE) = text BY <2>1 DEF Started, InHooks
      <3>2. pc' \in Started => Has(text, "port") BY <1>4, <3>1, PortMerge
      <3> QED BY <1>1, <1>d, <2>2, <3>2 DEF HeldDefaults, Started, InHooks
    <2> QED BY <1>3, <2>3, <2>4, <2>5, <2>6 DEF WordInv
  <1>6. CASE OpenProperties
    <2>1. pc = "props_open" /\ pc' = "props_write" /\ text' = <<>> /\ read' = read
      BY <1>6 DEF OpenProperties, Goto
    <2>2. Held = text /\ Held' = text BY <2>1 DEF Held, Opened, WordInv, FileOpen
    <2>3. FileOpen'
      <3>1. <<>> \in Seq(Lines) OBVIOUS
      <3> QED BY <1>4, <2>1, <3>1 DEF FileOpen, Opened
    <2>4. WordHeld' BY <1>1, <2>2, <2>3, SameHeld
    <2>5. HeldParses'
      <3>1. ~Raises(text) BY <2>1, <2>2 DEF WordInv, HeldParses, Parsing
      <3> QED BY <2>2, <3>1 DEF HeldParses
    <2>6. HeldDefaults' BY <2>1 DEF HeldDefaults, Started, InHooks
    <2> QED BY <1>3, <2>3, <2>4, <2>5, <2>6 DEF WordInv
  <1>7. CASE WriteProperties
    <2>1. /\ pc = "props_write" /\ pc' = "plan_hooks" /\ read' = read
          /\ text' = Merge(read, Ports, TRUE)
      BY <1>7 DEF WriteProperties, Goto
    <2>2. Held = read /\ Held' = text' BY <2>1 DEF Held, Opened
    <2>3. ~Raises(read) BY <2>1, <2>2 DEF WordInv, HeldParses, Parsing
    <2>4. /\ text' \in Seq(Lines) /\ Has(text', "port") /\ Kept(read, text') /\ ~Raises(text')
      BY <1>4, <2>1, <2>3, PortMerge
    <2>5. FileOpen' BY <1>4, <2>1, <2>4 DEF FileOpen, Opened
    <2>6. WordHeld' BY <1>1, <2>2, <2>4, WordKept
    <2>7. HeldParses' BY <2>2, <2>4 DEF HeldParses
    <2>8. HeldDefaults' BY <1>1, <1>d, <2>2, <2>4 DEF HeldDefaults
    <2> QED BY <1>3, <2>5, <2>6, <2>7, <2>8 DEF WordInv
  <1> QED BY <1>5, <1>6, <1>7 DEF Network

LEMMA UniFiOsWord == ASSUME IInv, WordInv, UniFiOs PROVE WordInv'
  <1>1. /\ UNCHANGED <<image, done, said, text, read>>
        /\ pc \in {"eth0", "envfiles", "units"}
        /\ pc' \in {"envfiles", "units", "plan_hooks", "dead"}
    BY DEF UniFiOs, EnsureEth0, WriteEnvFiles, EnableUnits, Goto, who, hooks, file
  <1>2. image.base = "uos" /\ done = {} BY <1>1 DEF WordInv, BootSteps, BeforeHooks
  <1>3. Held = text /\ Held' = text BY <1>1 DEF Held, Opened
  <1>4. FileOpen' BY <1>1 DEF WordInv, FileOpen, Opened
  <1>5. WordHeld' BY <1>1, <1>3, <1>4, SameHeld
  <1>6. HeldParses'
    <2>1. ~Raises(text) BY <1>2, <1>3 DEF WordInv, HeldParses
    <2> QED BY <1>3, <2>1 DEF HeldParses
  <1>7. HeldDefaults' BY <1>1, <1>2 DEF HeldDefaults
  <1>8. BootSteps' BY <1>1, <1>2 DEF BootSteps
  <1> QED BY <1>4, <1>5, <1>6, <1>7, <1>8 DEF WordInv

LEMMA HooksWord == ASSUME IInv, WordInv, RunHooks PROVE WordInv'
  <1>0. text \in Seq(Lines) /\ read \in Seq(Lines) BY DEF WordInv, FileOpen
  <1>1. CASE PlanHooks \/ (\E h \in Hooks : RunHook(h)) \/ HooksEnd
    <2>1. /\ UNCHANGED <<image, said, text, read>>
          /\ pc \in {"plan_hooks", "hooks"} /\ pc' \in {"hooks", "dead", "app"}
      <3>1. CASE PlanHooks BY <3>1 DEF PlanHooks, Goto, who, file
      <3>2. ASSUME NEW h \in Hooks, RunHook(h)
            PROVE  /\ UNCHANGED <<image, said, text, read>>
                   /\ pc \in {"plan_hooks", "hooks"} /\ pc' \in {"hooks", "dead", "app"}
        BY <3>2 DEF RunHook, HookEnds, who, file
      <3>3. CASE HooksEnd BY <3>3 DEF HooksEnd, who, file
      <3> QED BY <1>1, <3>1, <3>2, <3>3
    <2>2. "demo" \in done' => "demo" \in done /\ pc = "hooks"
      <3>1. CASE PlanHooks BY <3>1 DEF PlanHooks, Goto, WordInv, BootSteps, BeforeHooks
      <3>2. ASSUME NEW h \in Hooks, RunHook(h)
           PROVE "demo" \in done' => "demo" \in done /\ pc = "hooks"
        <4>1. pc = "hooks" /\ h # "demo" /\ (done' = done \cup {h} \/ done' = done \ {h})
          BY <3>2 DEF RunHook, HookEnds
        <4> QED BY <4>1
      <3>3. CASE HooksEnd BY <3>3 DEF HooksEnd
      <3> QED BY <1>1, <3>1, <3>2, <3>3
    <2>3. Held = text /\ Held' = text BY <2>1 DEF Held, Opened
    <2>4. FileOpen' BY <1>0, <2>1 DEF FileOpen, Opened
    <2>5. WordHeld' BY <2>1, <2>3, <2>4, SameHeld
    <2>6. HeldParses'
      <3>1. ~Raises(text) BY <2>1, <2>3 DEF WordInv, HeldParses, Parsing, InHooks
      <3> QED BY <2>3, <3>1 DEF HeldParses
    <2>7. HeldDefaults'
      <3>1. image.base = "network" => Has(text, "port")
        BY <2>1, <2>3 DEF WordInv, HeldDefaults, Started, InHooks
      <3>2. "demo" \in done' => Has(text, "is_simulation")
        BY <2>2, <2>3 DEF WordInv, HeldDefaults
      <3> QED BY <2>1, <2>3, <3>1, <3>2 DEF HeldDefaults
    <2>8. BootSteps' BY <2>1 DEF BootSteps, BeforeHooks
    <2> QED BY <2>4, <2>5, <2>6, <2>7, <2>8 DEF WordInv
  <1>2. CASE DemoReads \/ DemoOpens
    <2>1. UNCHANGED <<image, said, done>>
      BY <1>2 DEF DemoReads, DemoOpens, who, hooks
    <2>2. /\ pc \in {"hooks", "demo_open"} /\ pc' \in {"demo_open", "demo_write"} /\ Held' = Held
          /\ FileOpen'
      <3>1. CASE DemoReads
        <4>1. pc = "hooks" /\ pc' = "demo_open" /\ read' = text /\ text' = text
          BY <3>1 DEF DemoReads, Read
        <4> QED BY <1>0, <4>1 DEF Held, Opened, FileOpen
      <3>2. CASE DemoOpens
        <4>1. pc = "demo_open" /\ pc' = "demo_write" /\ read' = read /\ text' = <<>>
          BY <3>2 DEF DemoOpens, Goto
        <4>2. read = text BY <4>1 DEF WordInv, FileOpen
        <4>3. <<>> \in Seq(Lines) OBVIOUS
        <4> QED BY <1>0, <4>1, <4>2, <4>3 DEF Held, Opened, FileOpen
      <3> QED BY <1>2, <3>1, <3>2
    <2>3. WordHeld' BY <2>1, <2>2, SameHeld
    <2>4. HeldParses'
      <3>1. ~Raises(Held) BY <2>2 DEF WordInv, HeldParses, Parsing, InHooks
      <3> QED BY <2>2, <3>1 DEF HeldParses
    <2>5. HeldDefaults'
      <3>1. image.base = "network" => Has(Held, "port")
        BY <2>2 DEF WordInv, HeldDefaults, Started, InHooks
      <3> QED BY <2>1, <2>2, <3>1 DEF HeldDefaults
    <2>6. BootSteps' BY <2>2 DEF BootSteps, BeforeHooks
    <2> QED BY <2>2, <2>3, <2>4, <2>5, <2>6 DEF WordInv
  <1>3. CASE DemoWrites
    <2>1. Held = read /\ pc = "demo_write" BY <1>3 DEF DemoWrites, Held, Opened
    <2>2. ~Raises(read) BY <2>1 DEF WordInv, HeldParses, Parsing, InHooks
    <2>3. /\ text' = Merge(read, DemoKeys, TRUE) /\ UNCHANGED <<image, said, read>>
          /\ pc' = "hooks"
      BY <1>3, <2>2 DEF DemoWrites, HookEnds, who
    <2>4. Held' = text' BY <2>3 DEF Held, Opened
    <2>5. /\ text' \in Seq(Lines) /\ Has(text', "is_simulation") /\ Kept(read, text') /\ ~Raises(text')
      BY <1>0, <2>2, <2>3, DemoMerge
    <2>6. FileOpen' BY <1>0, <2>3, <2>5 DEF FileOpen, Opened
    <2>7. WordHeld' BY <2>1, <2>3, <2>4, <2>5, WordKept
    <2>8. HeldParses' BY <2>4, <2>5 DEF HeldParses
    <2>9. HeldDefaults'
      <3>1. image.base = "network" => Has(text', "port")
        <4>1. image.base = "network" => Has(read, "port")
          BY <2>1 DEF WordInv, HeldDefaults, Started, InHooks
        <4> QED BY <2>5, <4>1 DEF Kept
      <3> QED BY <2>3, <2>4, <2>5, <3>1 DEF HeldDefaults
    <2>10. BootSteps' BY <2>3 DEF BootSteps, BeforeHooks
    <2> QED BY <2>6, <2>7, <2>8, <2>9, <2>10 DEF WordInv
  <1> QED BY <1>1, <1>2, <1>3 DEF RunHooks

LEMMA OutsideWord ==
    ASSUME IInv, WordInv, "uos" \notin Garbles,
           \/ Boot \/ Restart \/ \E c \in Containers : Recreate(c)
           \/ \E k \in Keys : AppStores(k)
           \/ \E ls \in HandFiles : Edit(ls)
    PROVE  WordInv'
  <1>0. text \in Seq(Lines) /\ read \in Seq(Lines) BY DEF WordInv, FileOpen
  <1>1. CASE Boot
    <2>1. /\ pc = "off" /\ pc' = First /\ done' = {} /\ UNCHANGED <<image, said, text, read>>
      BY <1>1 DEF Boot, Goto, who, file
    <2>2. Held = text /\ Held' = text BY <2>1 DEF Held, Opened, First
    <2>3. FileOpen' BY <1>0, <2>1 DEF FileOpen, Opened, First
    <2>4. WordHeld' BY <2>1, <2>2, <2>3, SameHeld
    <2>5. HeldParses'
      <3>1. image.base = "uos" => ~Raises(text) BY <2>2 DEF WordInv, HeldParses
      <3> QED BY <2>1, <2>2, <3>1 DEF HeldParses, Parsing, InHooks, First
    <2>6. HeldDefaults' BY <2>1 DEF HeldDefaults, Started, InHooks, First
    <2>7. BootSteps' BY <2>1, WhichImage DEF BootSteps, First
    <2> QED BY <2>3, <2>4, <2>5, <2>6, <2>7 DEF WordInv
  <1>2. CASE Restart \/ \E c \in Containers : Recreate(c)
    <2>1. /\ pc' = "off" /\ read' = <<>> /\ UNCHANGED <<image, text, done>>
          /\ said' = IF pc \in Opened THEN Told(<<>>) ELSE said
      BY <1>2 DEF Restart, Recreate, Down, who, Opened
    <2>2. Held' = text BY <2>1 DEF Held, Opened
    <2>3. FileOpen'
      <3>1. <<>> \in Seq(Lines) OBVIOUS
      <3> QED BY <1>0, <2>1, <3>1 DEF FileOpen, Opened
    <2>4. WordHeld' /\ HeldParses'
      <3>1. CASE pc \in Opened
        <4>1. text = <<>> /\ said' = Told(<<>>) BY <2>1, <3>1 DEF WordInv, FileOpen
        <4>2. WordHeld' BY <2>2, <4>1 DEF WordHeld, Told
        <4>3. HeldParses' BY <2>2, <4>1, EmptyReads DEF HeldParses
        <4> QED BY <4>2, <4>3
      <3>2. CASE pc \notin Opened
        <4>1. Held = text /\ said' = said BY <2>1, <3>2 DEF Held
        <4>2. WordHeld' BY <2>1, <2>2, <2>3, <4>1, SameHeld
        <4>3. image.base = "uos" => ~Raises(text) BY <4>1 DEF WordInv, HeldParses
        <4>4. HeldParses' BY <2>1, <2>2, <4>3 DEF HeldParses, Parsing, InHooks
        <4> QED BY <4>2, <4>4
      <3> QED BY <3>1, <3>2
    <2>5. HeldDefaults' /\ BootSteps'
      BY <2>1 DEF HeldDefaults, BootSteps, Started, BeforeHooks, InHooks
    <2> QED BY <2>3, <2>4, <2>5 DEF WordInv
  <1>3. ASSUME NEW k \in Keys, AppStores(k) PROVE WordInv'
    <2> DEFINE new == Stored(text, k)
    <2>1. /\ pc = "app" /\ pc' = "app" /\ ~Raises(text) /\ said' = Told(text')
          /\ UNCHANGED <<image, read, done>>
      BY <1>3 DEF AppStores, who, hooks
    <2>2. text' = new BY <1>3, Zenon DEF AppStores, Stored, LineOf, NowTold
    <2>3. new \in Seq(Lines) /\ ~Raises(new) /\ \A q \in Keys : Has(text, q) => Has(new, q)
      BY <1>0, <2>1, StoredReads
    <2> HIDE DEF new
    <2>4. Held = text /\ Held' = new BY <2>1, <2>2 DEF Held, Opened
    <2>5. FileOpen' BY <1>0, <2>1, <2>2, <2>3 DEF FileOpen, Opened
    <2>6. WordHeld' BY <2>1, <2>2, <2>4 DEF WordHeld, Told
    <2>7. HeldParses' BY <2>3, <2>4 DEF HeldParses
    <2>8. HeldDefaults'
      <3>1. image.base = "network" => Has(text, "port")
        BY <2>1, <2>4 DEF WordInv, HeldDefaults, Started
      <3>2. "demo" \in done => Has(text, "is_simulation")
        BY <2>1, <2>4 DEF WordInv, HeldDefaults
      <3>3. "port" \in Keys /\ "is_simulation" \in Keys BY DEF Keys
      <3> QED BY <2>1, <2>3, <2>4, <3>1, <3>2, <3>3 DEF HeldDefaults
    <2>9. BootSteps' BY <2>1 DEF BootSteps, BeforeHooks
    <2> QED BY <2>5, <2>6, <2>7, <2>8, <2>9 DEF WordInv
  <1>4. ASSUME NEW ls \in HandFiles, Edit(ls) PROVE WordInv'
    <2>1. /\ pc = "off" /\ pc' = "off" /\ text' = ls /\ said' = Told(ls)
          /\ UNCHANGED <<image, read, done>>
          /\ Raises(ls) => image.base \in Garbles
      BY <1>4 DEF Edit, who, hooks
    <2>2. ls \in Seq(Lines) BY BootAssumption
    <2>3. Held' = ls BY <2>1 DEF Held, Opened
    <2>4. FileOpen' BY <1>0, <2>1, <2>2 DEF FileOpen, Opened
    <2>5. WordHeld' BY <2>1, <2>3 DEF WordHeld, Told
    <2>6. HeldParses'
      <3>1. image.base = "uos" => ~Raises(ls) BY <2>1
      <3> QED BY <2>1, <2>3, <3>1 DEF HeldParses, Parsing, InHooks
    <2>7. HeldDefaults' /\ BootSteps'
      BY <2>1 DEF HeldDefaults, BootSteps, Started, BeforeHooks, InHooks
    <2> QED BY <2>4, <2>5, <2>6, <2>7 DEF WordInv
  <1> QED BY <1>1, <1>2, <1>3, <1>4

LEMMA NextWord == ASSUME "uos" \notin Garbles PROVE IInv /\ WordInv /\ [Next]_vars => WordInv'
  <1> SUFFICES ASSUME IInv, WordInv, [Next]_vars PROVE WordInv' OBVIOUS
  <1>1. CASE UNCHANGED vars
    <2>1. UNCHANGED <<image, pc, done, said, text, read>> BY <1>1 DEF vars, who, hooks, file
    <2>2. Held' = Held BY <2>1 DEF Held
    <2>3. FileOpen' BY <2>1 DEF WordInv, FileOpen
    <2>4. WordHeld' BY <2>1, <2>2, <2>3, SameHeld
    <2>5. HeldParses' BY <2>1, <2>2 DEF WordInv, HeldParses
    <2>6. HeldDefaults' /\ BootSteps' BY <2>1, <2>2 DEF WordInv, HeldDefaults, BootSteps
    <2> QED BY <2>3, <2>4, <2>5, <2>6 DEF WordInv
  <1> QED BY <1>1, NetworkWord, UniFiOsWord, HooksWord, OutsideWord DEF Next

\* The controller's defaults are there because the hook that writes one has run.
LEMMA WordStands == ASSUME IInv, WordInv PROVE LastWordStands
  <1>1. pc \notin Opened => Held = text BY DEF Held
  <1>2. pc \notin {"props_write", "demo_write"} => \A k \in Keys : said[k] # NotSaid => Of(k, text) = said[k]
    BY <1>1 DEF WordInv, WordHeld, Opened
  <1>3. ASSUME pc = "app" PROVE /\ image.base = "network" => Has(text, "port")
                                /\ image.sim => Has(text, "is_simulation")
    <2>1. Held = text BY <1>1, <1>3 DEF Opened
    <2>2. image.base = "network" => Has(text, "port")
         BY <1>3, <2>1 DEF WordInv, HeldDefaults, Started
    <2>3. image.sim => "demo" \in done
      BY <1>3 DEF IInv, HookSteps, Due, Installed, Named, Hooks, Order
    <2>4. "demo" \in done => Has(text, "is_simulation") BY <1>3, <2>1 DEF WordInv, HeldDefaults
    <2> QED BY <2>2, <2>3, <2>4
  <1> QED BY <1>2, <1>3 DEF LastWordStands

\* "Written only when absent, so the application and a seeded volume both keep the last
\* word": for any file of any length that an operator may leave, a key still reads as
\* whoever set it last left it, and the controller starts with the defaults it needs
\* (network.py:53, demo.py:29).  It is of a UniFi OS volume whose file parses: the run
\* ImageBootGarbled shows the one where it does not and the word is lost.
THEOREM EveryWordStands == ASSUME "uos" \notin Garbles PROVE Spec => []LastWordStands
  <1>1. Init => WordInv BY InitWord
  <1>2. IInv /\ WordInv /\ [Next]_vars => WordInv' BY NextWord
  <1>3. IInv /\ WordInv => LastWordStands BY WordStands
  <1> QED BY <1>1, <1>2, <1>3, AlwaysIInv, PTL DEF Spec
=============================================================================
