------------------------- MODULE ChunkMarkdownProofs -------------------------
(***************************************************************************)
(* Every document is cut without loss, whatever its lines, max_chars and   *)
(* overlap.                                                                *)
(*                                                                         *)
(* The lengths of runs of lines are differences of prefix sums, so nothing *)
(* has to be known of a length but that it grows with the run.  That the   *)
(* prefix sums exist and grow is shown by the least line that would break  *)
(* it.  The inductive invariant follows one section from the lines read,   *)
(* through the section that keeps them, to the windows they are cut into.  *)
(***************************************************************************)
EXTENDS ChunkMarkdown, SequenceTheorems, WellFoundedInduction, TLAPS

\* A set of natural numbers that is not empty has a least element.
LEMMA LeastIs ==
  ASSUME NEW S \in SUBSET Nat, S # {}
  PROVE  \E k \in S : \A j \in S : k <= j
  <1> DEFINE R == OpToRel(<, Nat)
  <1>1. IsWellFoundedOn(R, Nat)
    BY NatLessThanWellFounded
  <1>2. R = {p \in Nat \X Nat : p[1] < p[2]}
    BY DEF OpToRel
  <1> HIDE DEF R
  <1>3. PICK k \in S : \A j \in S : <<j, k>> \notin R
    BY <1>1, WFMin
  <1>4. \A j \in S : k <= j
    <2> TAKE j \in S
    <2> DEFINE p == <<j, k>>
    <2>1. p \in Nat \X Nat /\ p[1] = j /\ p[2] = k /\ j \in Nat /\ k \in Nat
      OBVIOUS
    <2>2. p \notin R
      BY <1>3
    <2>3. ~ (p[1] < p[2])
      <3> HIDE DEF p
      <3> QED BY <1>2, <2>1, <2>2
    <2>4. QED
      BY <2>1, <2>3
  <1>5. QED
    BY <1>4

\* f adds up the lines, each with its line break, as far as n.
Adds(f, t, n) ==
  /\ f \in [0 .. n -> Int] /\ f[0] = 0
  /\ \A i \in 1 .. n : f[i] = f[i - 1] + t[i] + 1

LEMMA SumExists ==
  ASSUME NEW t \in Seq(Int), NEW n \in 0 .. Len(t)
  PROVE  \E f : Adds(f, t, n)
  <1> DEFINE S == {i \in 0 .. Len(t) : ~ \E f : Adds(f, t, i)}
  <1>1. Len(t) \in Nat /\ \A i \in 1 .. Len(t) : t[i] \in Int
    BY LenProperties, ElementOfSeq
  <1>2. 0 \notin S
    <2> DEFINE f == [i \in 0 .. 0 |-> 0]
    <2>1. Adds(f, t, 0)
      BY DEF Adds
    <2>2. QED
      BY <2>1
  <1>3. ASSUME NEW k \in S, \A j \in S : k <= j PROVE FALSE
    <2>1. k \in 1 .. Len(t) /\ k - 1 \in 0 .. Len(t) /\ k - 1 \notin S
      <3>1. k \in 0 .. Len(t)
        OBVIOUS
      <3> HIDE DEF S
      <3>2. QED
        BY <1>1, <1>2, <1>3, <3>1
    <2>2. PICK f : Adds(f, t, k - 1)
      BY <2>1
    <2> DEFINE g == [i \in 0 .. k |-> IF i = k THEN f[k - 1] + t[k] + 1 ELSE f[i]]
    <2>3. f \in [0 .. k - 1 -> Int] /\ t[k] \in Int /\ f[k - 1] \in Int /\ f[0] = 0
      BY <1>1, <2>1, <2>2 DEF Adds
    <2>4. g \in [0 .. k -> Int] /\ g[0] = 0
      <3>1. f[k - 1] + t[k] + 1 \in Int
        BY <2>3
      <3>2. \A i \in 0 .. k : i # k => i \in 0 .. k - 1
        BY <2>1
      <3>3. \A i \in 0 .. k : i # k => f[i] \in Int
        BY <2>3, <3>2
      <3>4. 0 \in 0 .. k /\ k # 0
        BY <2>1
      <3>5. QED
        BY <2>3, <3>1, <3>3, <3>4
    <2>5. ASSUME NEW i \in 1 .. k PROVE g[i] = g[i - 1] + t[i] + 1
      <3>1. CASE i = k
        BY <2>1, <3>1
      <3>2. CASE i # k
        <4>1. i \in 1 .. k - 1 /\ i - 1 \in 0 .. k - 1
          BY <2>1, <3>2
        <4>2. QED
          BY <2>1, <2>2, <3>2, <4>1 DEF Adds
      <3>3. QED
        BY <3>1, <3>2
    <2> HIDE DEF g
    <2>6. Adds(g, t, k)
      BY <2>4, <2>5 DEF Adds
    <2>7. QED
      BY <2>6
  <1>4. S \subseteq Nat
    BY <1>1
  <1>5. S = {}
    <2> HIDE DEF S
    <2>1. QED
      BY <1>3, <1>4, LeastIs
  <1>6. QED
    BY <1>5

LEMMA UptoAdds ==
  ASSUME NEW t \in Seq(Int)
  PROVE  Adds(Upto(t), t, Len(t))
  <1> DEFINE n == Len(t)
             F(f) == [i \in 0 .. n |-> IF i = 0 THEN 0 ELSE f[i - 1] + t[i] + 1]
  <1>1. n \in Nat /\ \A i \in 1 .. n : t[i] \in Int
    BY LenProperties, ElementOfSeq
  <1>2. PICK f : Adds(f, t, n)
    BY <1>1, SumExists
  <1>3. f = F(f)
    BY <1>1, <1>2 DEF Adds
  <1>4. Upto(t) = CHOOSE g : g = F(g)
    BY DEF Upto
  <1>5. Upto(t) = F(Upto(t))
    <2> HIDE DEF F
    <2>1. QED
      BY <1>3, <1>4
  <1>6. PICK g : g = Upto(t)
    OBVIOUS
  <1>7. /\ g = [i \in 0 .. n |-> g[i]] /\ f = [i \in 0 .. n |-> f[i]]
        /\ g[0] = 0 /\ f[0] = 0
        /\ \A i \in 1 .. n : g[i] = g[i - 1] + t[i] + 1
        /\ \A i \in 1 .. n : f[i] = f[i - 1] + t[i] + 1
    <2>1. g = F(g) /\ f = F(f)
      <3> HIDE DEF F
      <3>1. QED
        BY <1>3, <1>5, <1>6
    <2>2. ASSUME NEW e, e = F(e)
          PROVE  /\ e = [i \in 0 .. n |-> e[i]] /\ e[0] = 0
                 /\ \A i \in 1 .. n : e[i] = e[i - 1] + t[i] + 1
      <3>1. \A i \in 0 .. n : e[i] = IF i = 0 THEN 0 ELSE e[i - 1] + t[i] + 1
        BY <2>2
      <3>2. e = [i \in 0 .. n |-> e[i]]
        BY <2>2
      <3>3. \A i \in 1 .. n : i \in 0 .. n /\ i # 0
        BY <1>1
      <3>4. 0 \in 0 .. n
        BY <1>1
      <3>5. QED
        BY <3>1, <3>2, <3>3, <3>4
    <2>3. QED
      BY <2>1, <2>2
  <1> DEFINE S == {i \in 0 .. n : g[i] # f[i]}
  <1>8. ASSUME NEW k \in S, \A j \in S : k <= j PROVE FALSE
    <2>1. k \in 1 .. n /\ k - 1 \in 0 .. n /\ k - 1 \notin S
      BY <1>1, <1>7, <1>8
    <2>2. g[k - 1] = f[k - 1]
      BY <2>1
    <2>3. g[k] = f[k]
      BY <1>7, <2>1, <2>2
    <2>4. QED
      BY <2>3
  <1>9. S \subseteq Nat
    BY <1>1
  <1>10. S = {}
    <2> HIDE DEF S
    <2>1. QED
      BY <1>8, <1>9, LeastIs
  <1>11. g = f
    BY <1>7, <1>10
  <1>12. QED
    BY <1>2, <1>6, <1>11

-----------------------------------------------------------------------------
(* Documents and intervals.                                                *)

SizeOf(t, run) == Upto(t)[run.hi] - Upto(t)[run.lo - 1] - 1

LEMMA TextIs ==
  ASSUME NEW t \in Documents
  PROVE  /\ t \in Seq(Int) /\ Len(t) \in 0 .. MaxLines /\ DOMAIN t = 1 .. Len(t)
         /\ MaxLines \in Nat
         /\ \A i \in 1 .. Len(t) : t[i] \in Int /\ t[i] >= -1
  <1>1. PICK n \in 0 .. MaxLines : t \in [1 .. n -> Lines]
    BY DEF Documents
  <1>2. Lines \subseteq Int /\ \A x \in Lines : x >= -1
    BY ChunkAssumption DEF Lines, Heading
  <1>3. MaxLines \in Nat /\ n \in Nat
    BY <1>1, ChunkAssumption
  <1>4. t = [i \in 1 .. n |-> t[i]] /\ \A i \in 1 .. n : t[i] \in Int
    BY <1>1, <1>2
  <1>5. t \in Seq(Int)
    BY <1>3, <1>4, IsASeq
  <1>6. Len(t) = n /\ DOMAIN t = 1 .. n
    BY <1>1, <1>3, <1>5, LenProperties
  <1>7. QED
    BY <1>1, <1>2, <1>3, <1>5, <1>6

LEMMA UptoIs ==
  ASSUME NEW t \in Documents
  PROVE  /\ \A i \in 0 .. Len(t) : Upto(t)[i] \in Int
         /\ \A i \in 1 .. Len(t) : Upto(t)[i] = Upto(t)[i - 1] + t[i] + 1
  BY TextIs, UptoAdds DEF Adds

\* More lines are not shorter.
LEMMA UptoGrows ==
  ASSUME NEW t \in Documents, NEW i \in 0 .. Len(t), NEW j \in i .. Len(t)
  PROVE  Upto(t)[i] <= Upto(t)[j]
  <1> DEFINE n == Len(t)
             U == Upto(t)
             S == {k \in 0 .. n : k >= i /\ ~ (U[i] <= U[k])}
  <1>1. /\ n \in Nat /\ \A k \in 0 .. n : U[k] \in Int
        /\ \A k \in 1 .. n : U[k] = U[k - 1] + t[k] + 1 /\ t[k] + 1 >= 0
                            /\ t[k] \in Int
    BY TextIs, UptoIs
  <1> HIDE DEF n, U
  <1>2. ASSUME NEW k \in S, \A m \in S : k <= m PROVE FALSE
    <2>1. k \in 0 .. n /\ k >= i /\ ~ (U[i] <= U[k]) /\ i \in 0 .. n
      BY DEF n
    <2>2. k # i
      BY <1>1, <2>1
    <2>3. k \in 1 .. n /\ k - 1 \in 0 .. n /\ k - 1 >= i
      BY <1>1, <2>1, <2>2
    <2>4. k - 1 \notin S
      <3> HIDE DEF S
      <3>1. QED
        BY <1>2, <2>3
    <2>5. U[i] <= U[k - 1]
      BY <2>3, <2>4
    <2>6. /\ U[k] = U[k - 1] + t[k] + 1 /\ t[k] + 1 >= 0 /\ t[k] \in Int
          /\ U[i] \in Int /\ U[k - 1] \in Int /\ U[k] \in Int
      BY <1>1, <2>1, <2>3
    <2> HIDE DEF S
    <2>7. QED
      BY <2>1, <2>5, <2>6
  <1>3. S \subseteq Nat
    BY <1>1
  <1>4. S = {}
    <2> HIDE DEF S
    <2>1. QED
      BY <1>2, <1>3, LeastIs
  <1>5. j \in 0 .. n /\ j >= i
    BY <1>1 DEF n
  <1>6. QED
    BY <1>4, <1>5 DEF U

\* A set of line numbers that is not empty has a first and a last.
LEMMA EndsAre ==
  ASSUME NEW n \in Nat, NEW S \in SUBSET (1 .. n), S # {}
  PROVE  /\ Min(S) \in S /\ \A i \in S : Min(S) <= i
         /\ Max(S) \in S /\ \A i \in S : i <= Max(S)
  <1>1. \E x \in S : \A y \in S : x <= y
    BY LeastIs
  <1> DEFINE T == {k \in Nat : n - k \in S}
  <1>2. T # {}
    <2>1. PICK i \in S : TRUE
      OBVIOUS
    <2>2. n - i \in Nat /\ n - (n - i) = i
      BY <2>1
    <2>3. QED
      BY <2>2
  <1>3. PICK k \in T : \A j \in T : k <= j
    BY <1>2, LeastIs
  <1>4. \A i \in S : n - i \in T
    <2>1. \A i \in S : n - i \in Nat /\ n - (n - i) = i
      OBVIOUS
    <2>2. QED
      BY <2>1
  <1>5. \A i \in S : n - k >= i
    <2> TAKE i \in S
    <2>1. k <= n - i /\ i \in 1 .. n /\ k \in Nat
      BY <1>3, <1>4
    <2>2. QED
      BY <2>1
  <1>6. \E x \in S : \A y \in S : x >= y
    BY <1>5
  <1>7. Min(S) \in S /\ \A i \in S : Min(S) <= i
    BY <1>1 DEF Min
  <1>8. Max(S) \in S /\ \A i \in S : Max(S) >= i
    BY <1>6 DEF Max
  <1>9. QED
    BY <1>7, <1>8

\* Line i is text under heading h, which is 0 before the first heading.
Under(t, h, i) ==
  /\ i \in 1 .. Len(t) /\ t[i] # Heading
  /\ h \in 0 .. i - 1 /\ (h = 0 \/ t[h] = Heading)
  /\ \A k \in h + 1 .. i - 1 : t[k] # Heading

Within(t, h, run) == \A i \in LinesOf(run) : Under(t, h, i)

LEMMA HeadingIs ==
  ASSUME text \in Documents, NEW h, NEW i, Under(text, h, i)
  PROVE  HeadingOf(i) = h
  <1> DEFINE S == {0} \cup {k \in 1 .. i - 1 : text[k] = Heading}
  <1>1. Len(text) \in Nat
    BY TextIs
  <1>2. i \in Nat \ {0} /\ h \in 0 .. i - 1
    BY <1>1 DEF Under
  <1>3. h \in S
    BY <1>2 DEF Under
  <1>4. ASSUME NEW k \in S PROVE h >= k
    <2>1. k \in 0 .. i - 1 /\ (k = 0 \/ text[k] = Heading)
      BY <1>2
    <2>2. k \notin h + 1 .. i - 1
      BY <1>2, <2>1 DEF Under
    <2>3. QED
      BY <1>2, <2>1, <2>2
  <1>5. S \subseteq Int
    BY <1>2
  <1> HIDE DEF S
  <1>6. Max(S) = h
    <2>1. \A x \in S : (\A y \in S : x >= y) => x = h
      BY <1>3, <1>4, <1>5
    <2>2. QED
      BY <1>3, <1>4, <2>1 DEF Max
  <1>7. QED
    BY <1>6 DEF HeadingOf, S

\* strip keeps every line that is not blank.
LEMMA StripIs ==
  ASSUME text \in Documents, NEW lo \in 1 .. Len(text) + 1,
         NEW hi \in 0 .. Len(text)
  PROVE  LET s == Strip(Run(lo, hi))
         IN  /\ s \in Runs
             /\ LinesOf(s) \subseteq lo .. hi
             /\ \A i \in lo .. hi : text[i] > 0 => i \in LinesOf(s)
  <1> DEFINE full == {i \in lo .. hi : text[i] > 0}
             s == Strip(Run(lo, hi))
  <1>1. Len(text) \in 0 .. MaxLines /\ MaxLines \in Nat
    BY TextIs
  <1>2. LinesOf(Run(lo, hi)) = lo .. hi
    BY DEF LinesOf, Run
  <1>3. full \in SUBSET (1 .. Len(text))
    BY <1>1
  <1>4. s = IF full = {} THEN Run(1, 0) ELSE Run(Min(full), Max(full))
    BY <1>2 DEF Strip
  <1> HIDE DEF s
  <1>5. CASE full = {}
    <2>1. s.lo = 1 /\ s.hi = 0 /\ s \in Runs
      BY <1>1, <1>4, <1>5 DEF Run, Runs
    <2>2. LinesOf(s) = {}
      BY <2>1 DEF LinesOf
    <2>3. QED
      BY <1>5, <2>1, <2>2 DEF s
  <1>6. CASE full # {}
    <2> HIDE DEF full
    <2>0. Len(text) \in Nat
      BY <1>1
    <2>1. /\ Min(full) \in full /\ \A i \in full : Min(full) <= i
          /\ Max(full) \in full /\ \A i \in full : i <= Max(full)
      BY <1>3, <1>6, <2>0, EndsAre
    <2>2. s.lo = Min(full) /\ s.hi = Max(full) /\ s = Run(s.lo, s.hi)
      BY <1>4, <1>6 DEF Run
    <2> USE DEF full
    <2>3. s.lo \in lo .. hi /\ s.hi \in lo .. hi
      BY <2>1, <2>2
    <2>4. s \in Runs
      BY <1>1, <2>2, <2>3 DEF Run, Runs
    <2>5. LinesOf(s) \subseteq lo .. hi
      BY <1>1, <2>3 DEF LinesOf
    <2>6. \A i \in full : i \in LinesOf(s)
      BY <1>1, <2>1, <2>2, <2>3 DEF LinesOf
    <2>7. QED
      BY <2>4, <2>5, <2>6 DEF s
  <1>7. QED
    BY <1>5, <1>6

-----------------------------------------------------------------------------
(* Lists of sections and of windows.                                       *)

SectionSet(t) == [heading : 0 .. Len(t), body : Runs]
WindowSet(t)  == [heading : 0 .. Len(t), lines : Runs]

InSection(ss, i) == \E s \in DOMAIN ss : i \in LinesOf(ss[s].body)
InWindow(ws, i)  == \E w \in DOMAIN ws : i \in LinesOf(ws[w].lines)

\* Sections in the order of their headings, each with its own lines.
Filed(t, ss) ==
  /\ ss \in Seq(SectionSet(t))
  /\ \A s \in DOMAIN ss : Within(t, ss[s].heading, ss[s].body)
  /\ \A r, s \in DOMAIN ss : r < s => ss[r].heading < ss[s].heading

\* Interval b goes on where a of the same section ends.
Follows(t, a, b) ==
  /\ a.lo <= b.lo /\ b.lo <= a.hi + 1 /\ a.hi < b.hi
  /\ SizeOf(t, Run(b.lo, a.hi)) <= Overlap

\* The last window is of section h.
Open(ws, h) == ws # <<>> /\ ws[Len(ws)].heading = h

\* What makes run the next window of section h.
MayFollow(t, ws, h, run) ==
  /\ Open(ws, h) => Follows(t, ws[Len(ws)].lines, run)
  /\ SizeOf(t, run) > MaxChars =>
       \/ run.lo = run.hi
       \/ Open(ws, h) /\ ws[Len(ws)].lines.hi = run.hi - 1

Cut(t, ws) ==
  /\ ws \in Seq(WindowSet(t))
  /\ \A w \in DOMAIN ws : Within(t, ws[w].heading, ws[w].lines)
  /\ \A w \in DOMAIN ws :
       w + 1 \in DOMAIN ws /\ ws[w].heading = ws[w + 1].heading =>
         Follows(t, ws[w].lines, ws[w + 1].lines)
  /\ \A w \in DOMAIN ws : SizeOf(t, ws[w].lines) > MaxChars =>
       \/ ws[w].lines.lo = ws[w].lines.hi
       \/ /\ w > 1 /\ ws[w - 1].heading = ws[w].heading
          /\ ws[w - 1].lines.hi = ws[w].lines.hi - 1

LEMMA Appended ==
  ASSUME NEW S, NEW s \in Seq(S), NEW e \in S
  PROVE  /\ Append(s, e) \in Seq(S) /\ Len(s) \in Nat
         /\ DOMAIN s = 1 .. Len(s) /\ DOMAIN Append(s, e) = 1 .. Len(s) + 1
         /\ \A i \in 1 .. Len(s) : Append(s, e)[i] = s[i]
         /\ Append(s, e)[Len(s) + 1] = e
         /\ Len(Append(s, e)) = Len(s) + 1 /\ Append(s, e) # <<>>
  <1>1. /\ Append(s, e) \in Seq(S) /\ Len(Append(s, e)) = Len(s) + 1
        /\ \A i \in 1 .. Len(s) : Append(s, e)[i] = s[i]
        /\ Append(s, e)[Len(s) + 1] = e
    BY AppendProperties
  <1>2. Len(s) \in Nat /\ DOMAIN s = 1 .. Len(s)
        /\ DOMAIN Append(s, e) = 1 .. Len(Append(s, e))
    BY <1>1, LenProperties
  <1>3. Append(s, e) # <<>>
    BY <1>1, <1>2, EmptySeq
  <1>4. QED
    BY <1>1, <1>2, <1>3

LEMMA Divided ==
  ASSUME NEW S, NEW s \in Seq(S), s # <<>>
  PROVE  /\ Tail(s) \in Seq(S) /\ Len(s) \in Nat \ {0} /\ Head(s) = s[1]
         /\ s[1] \in S /\ DOMAIN s = 1 .. Len(s) /\ 1 \in DOMAIN s
         /\ DOMAIN Tail(s) = 1 .. Len(s) - 1
         /\ \A i \in 1 .. Len(s) - 1 : Tail(s)[i] = s[i + 1]
  <1>1. /\ Tail(s) \in Seq(S) /\ Len(Tail(s)) = Len(s) - 1 /\ Head(s) \in S
        /\ \A i \in 1 .. Len(Tail(s)) : Tail(s)[i] = s[i + 1]
    BY HeadTailProperties
  <1>2. Len(s) \in Nat \ {0} /\ DOMAIN s = 1 .. Len(s)
        /\ DOMAIN Tail(s) = 1 .. Len(Tail(s)) /\ Head(s) = s[1]
    BY <1>1, LenProperties, EmptySeq
  <1>3. QED
    BY <1>1, <1>2

LEMMA FiledMore ==
  ASSUME NEW t, NEW ss, Filed(t, ss), NEW x \in SectionSet(t),
         Within(t, x.heading, x.body),
         \A s \in DOMAIN ss : ss[s].heading < x.heading
  PROVE  /\ Filed(t, Append(ss, x))
         /\ \A i : InSection(ss, i) => InSection(Append(ss, x), i)
         /\ \A i \in LinesOf(x.body) : InSection(Append(ss, x), i)
         /\ \A s \in DOMAIN Append(ss, x) :
              (s \in DOMAIN ss /\ Append(ss, x)[s] = ss[s]) \/ Append(ss, x)[s] = x
  <1> DEFINE zs == Append(ss, x)
  <1>1. /\ zs \in Seq(SectionSet(t)) /\ Len(ss) \in Nat
        /\ DOMAIN ss = 1 .. Len(ss) /\ DOMAIN zs = 1 .. Len(ss) + 1
        /\ \A i \in 1 .. Len(ss) : zs[i] = ss[i]
        /\ zs[Len(ss) + 1] = x
    BY Appended DEF Filed
  <1> HIDE DEF zs
  <1>2. \A s \in DOMAIN zs : s \in DOMAIN ss \/ s = Len(ss) + 1
    BY <1>1
  <1>3. \A s \in DOMAIN zs : (s \in DOMAIN ss /\ zs[s] = ss[s]) \/ zs[s] = x
    BY <1>1, <1>2
  <1>4. \A s \in DOMAIN zs : Within(t, zs[s].heading, zs[s].body)
    BY <1>3 DEF Filed
  <1>5. ASSUME NEW r \in DOMAIN zs, NEW s \in DOMAIN zs, r < s
        PROVE  zs[r].heading < zs[s].heading
    <2>1. r \in DOMAIN ss /\ zs[r] = ss[r]
      BY <1>1, <1>5
    <2>2. CASE s \in DOMAIN ss
      BY <1>1, <1>5, <2>1, <2>2 DEF Filed
    <2>3. CASE s = Len(ss) + 1
      BY <1>1, <2>1, <2>3
    <2>4. QED
      BY <1>2, <2>2, <2>3
  <1>6. \A i : InSection(ss, i) => InSection(zs, i)
    BY <1>1 DEF InSection
  <1>7. \A i \in LinesOf(x.body) : InSection(zs, i)
    <2>1. Len(ss) + 1 \in DOMAIN zs
      BY <1>1
    <2>2. QED
      BY <1>1, <2>1 DEF InSection
  <1>8. Filed(t, zs)
    BY <1>1, <1>4, <1>5 DEF Filed
  <1>9. QED
    BY <1>3, <1>6, <1>7, <1>8 DEF zs

LEMMA FiledLess ==
  ASSUME NEW t, NEW ss, Filed(t, ss), ss # <<>>
  PROVE  /\ Filed(t, Tail(ss)) /\ Head(ss) = ss[1] /\ ss[1] \in SectionSet(t)
         /\ Within(t, ss[1].heading, ss[1].body)
         /\ \A s \in DOMAIN Tail(ss) :
              /\ ss[1].heading < Tail(ss)[s].heading
              /\ s + 1 \in DOMAIN ss /\ Tail(ss)[s] = ss[s + 1] /\ s + 1 # 1
         /\ \A i : InSection(ss, i) =>
              InSection(Tail(ss), i) \/ i \in LinesOf(ss[1].body)
         /\ 1 \in DOMAIN ss
  <1> DEFINE zs == Tail(ss)
  <1>1. /\ zs \in Seq(SectionSet(t)) /\ Len(ss) \in Nat \ {0} /\ Head(ss) = ss[1]
        /\ ss[1] \in SectionSet(t) /\ DOMAIN ss = 1 .. Len(ss) /\ 1 \in DOMAIN ss
        /\ DOMAIN zs = 1 .. Len(ss) - 1
        /\ \A i \in 1 .. Len(ss) - 1 : zs[i] = ss[i + 1]
    BY Divided DEF Filed
  <1> HIDE DEF zs
  <1>2. \A s \in DOMAIN zs : /\ s + 1 \in DOMAIN ss /\ zs[s] = ss[s + 1]
                             /\ 1 < s + 1 /\ s \in Nat
    BY <1>1
  <1>3. \A s \in DOMAIN zs : ss[1].heading < zs[s].heading
    BY <1>1, <1>2 DEF Filed
  <1>4. \A s \in DOMAIN zs : Within(t, zs[s].heading, zs[s].body)
    BY <1>2 DEF Filed
  <1>5. \A r, s \in DOMAIN zs : r < s => zs[r].heading < zs[s].heading
    <2>1. \A r, s \in DOMAIN zs : r < s => r + 1 < s + 1
      BY <1>2
    <2>2. QED
      BY <1>2, <2>1 DEF Filed
  <1>6. ASSUME NEW i, InSection(ss, i), i \notin LinesOf(ss[1].body)
        PROVE  InSection(zs, i)
    <2>1. PICK s \in DOMAIN ss : i \in LinesOf(ss[s].body)
      BY <1>6 DEF InSection
    <2>2. s # 1
      BY <1>6, <2>1
    <2>3. s - 1 \in DOMAIN zs /\ (s - 1) + 1 = s
      BY <1>1, <2>1, <2>2
    <2>4. zs[s - 1] = ss[s]
      BY <1>2, <2>3
    <2>5. QED
      BY <2>1, <2>3, <2>4 DEF InSection
  <1>7. Filed(t, zs)
    BY <1>1, <1>4, <1>5 DEF Filed
  <1>8. QED
    BY <1>1, <1>2, <1>3, <1>6, <1>7 DEF Filed, zs

LEMMA CutMore ==
  ASSUME NEW t, NEW ws, Cut(t, ws), NEW x \in WindowSet(t),
         Within(t, x.heading, x.lines), MayFollow(t, ws, x.heading, x.lines)
  PROVE  LET zs == Append(ws, x)
         IN  /\ Cut(t, zs) /\ Open(zs, x.heading) /\ zs[Len(zs)] = x
             /\ \A i : InWindow(ws, i) => InWindow(zs, i)
             /\ \A i \in LinesOf(x.lines) : InWindow(zs, i)
             /\ \A w \in DOMAIN zs : (w \in DOMAIN ws /\ zs[w] = ws[w]) \/ zs[w] = x
  <1> DEFINE zs == Append(ws, x)
             n == Len(ws)
  <1>1. /\ zs \in Seq(WindowSet(t)) /\ n \in Nat
        /\ DOMAIN ws = 1 .. n /\ DOMAIN zs = 1 .. n + 1
        /\ \A i \in 1 .. n : zs[i] = ws[i]
        /\ zs[n + 1] = x /\ Len(zs) = n + 1 /\ zs # <<>>
    BY Appended DEF Cut
  <1>2. n # 0 => ws # <<>>
    BY EmptySeq
  <1> HIDE DEF zs, n
  <1>3. \A w \in DOMAIN zs : (w \in DOMAIN ws /\ zs[w] = ws[w]) \/ zs[w] = x
    <2>1. \A w \in DOMAIN zs : w \in DOMAIN ws \/ w = n + 1
      BY <1>1
    <2>2. QED
      BY <1>1, <2>1
  <1>4. \A w \in DOMAIN zs : Within(t, zs[w].heading, zs[w].lines)
    BY <1>3 DEF Cut
  <1>5. ASSUME NEW w \in DOMAIN zs, w + 1 \in DOMAIN zs,
               zs[w].heading = zs[w + 1].heading
        PROVE  Follows(t, zs[w].lines, zs[w + 1].lines)
    <2>1. w \in 1 .. n /\ zs[w] = ws[w]
      BY <1>1, <1>5
    <2>2. CASE w = n
      <3>1. zs[w + 1] = x /\ ws # <<>> /\ zs[w] = ws[n]
        BY <1>1, <1>2, <2>1, <2>2
      <3>2. QED
        BY <1>5, <3>1 DEF MayFollow, Open, n
    <2>3. CASE w # n
      <3>1. w + 1 \in 1 .. n /\ zs[w + 1] = ws[w + 1]
        BY <1>1, <2>1, <2>3
      <3>2. QED
        BY <1>1, <1>5, <2>1, <3>1 DEF Cut
    <2>4. QED
      BY <2>2, <2>3
  <1>6. ASSUME NEW w \in DOMAIN zs, SizeOf(t, zs[w].lines) > MaxChars
        PROVE  \/ zs[w].lines.lo = zs[w].lines.hi
               \/ /\ w > 1 /\ zs[w - 1].heading = zs[w].heading
                  /\ zs[w - 1].lines.hi = zs[w].lines.hi - 1
    <2>1. CASE w = n + 1 /\ ~Open(ws, x.heading)
      BY <1>1, <1>6, <2>1 DEF MayFollow
    <2>2. CASE w = n + 1 /\ Open(ws, x.heading)
      <3>1. n # 0
        BY <1>1, <2>2, EmptySeq DEF Open, n, Cut
      <3>2. w > 1 /\ w - 1 \in 1 .. n /\ w - 1 = n
        BY <1>1, <2>2, <3>1
      <3>3. zs[w] = x /\ zs[w - 1] = ws[Len(ws)]
        BY <1>1, <2>2, <3>2 DEF n
      <3>4. QED
        BY <1>6, <2>2, <3>2, <3>3 DEF MayFollow, Open
    <2>3. CASE w \in 1 .. n
      <3>1. zs[w] = ws[w] /\ w \in DOMAIN ws
        BY <1>1, <2>3
      <3>2. w > 1 => zs[w - 1] = ws[w - 1]
        <4>1. w > 1 => w - 1 \in 1 .. n
          BY <1>1, <2>3
        <4>2. QED
          BY <1>1, <4>1
      <3>3. QED
        BY <1>6, <3>1, <3>2 DEF Cut
    <2>4. QED
      BY <1>1, <2>1, <2>2, <2>3
  <1>7. Cut(t, zs)
    BY <1>1, <1>4, <1>5, <1>6 DEF Cut
  <1>8. Open(zs, x.heading) /\ zs[Len(zs)] = x
    BY <1>1 DEF Open
  <1>9. \A i : InWindow(ws, i) => InWindow(zs, i)
    BY <1>1 DEF InWindow
  <1>10. \A i \in LinesOf(x.lines) : InWindow(zs, i)
    <2>1. n + 1 \in DOMAIN zs
      BY <1>1
    <2>2. QED
      BY <1>1, <2>1 DEF InWindow
  <1>11. QED
    BY <1>3, <1>7, <1>8, <1>9, <1>10 DEF zs

-----------------------------------------------------------------------------
(* The inductive invariant.                                                *)

Places ==
  /\ text \in Documents /\ pc \in {"split", "section", "window"}
  /\ at \in 1 .. Len(text) + 1 /\ heading \in 0 .. Len(text)
  /\ buf \in Runs /\ cur \in Runs /\ cur_len \in Nat

\* While the sections are found, buf is all that follows the last heading.
Splitting ==
  pc = "split" =>
    /\ buf.lo = heading + 1 /\ buf.hi = at - 1
    /\ heading < at /\ (heading = 0 \/ text[heading] = Heading)
    /\ \A k \in heading + 1 .. at - 1 : text[k] # Heading
    /\ \A s \in DOMAIN sections : sections[s].heading < heading
    /\ windows = <<>>

\* Windows are cut section by section.
InOrder ==
  pc # "split" =>
    \A w \in DOMAIN windows, s \in DOMAIN sections :
      \/ windows[w].heading < sections[s].heading
      \/ pc = "window" /\ s = 1 /\ windows[w].heading = sections[s].heading

\* While a section is cut, cur is what follows the last of its windows, and
\* its lines so far are there or in one of them.
Cutting ==
  pc = "window" =>
    /\ sections # <<>>
    /\ LET b == sections[1].body
           h == sections[1].heading IN
       /\ b.lo <= b.hi /\ at \in b.lo .. b.hi + 1
       /\ cur.hi = at - 1 /\ cur.lo \in b.lo .. at
       /\ at > b.lo => cur.lo < at
       /\ at = b.lo => ~Open(windows, h)
       /\ cur_len = SizeOf(text, cur) + 1
       /\ at > b.lo => MayFollow(text, windows, h, cur)
       /\ \A i \in b.lo .. at - 1 : i \in LinesOf(cur) \/ InWindow(windows, i)

Covered ==
  \A i \in 1 .. Len(text) : text[i] > 0 =>
    \/ pc = "split" /\ i > heading
    \/ InSection(sections, i)
    \/ InWindow(windows, i)

Inv ==
  /\ Places /\ Filed(text, sections) /\ Cut(text, windows)
  /\ Splitting /\ InOrder /\ Cutting /\ Covered

LEMMA InitInv == Init => Inv
  <1> SUFFICES ASSUME Init PROVE Inv
    OBVIOUS
  <1>1. text \in Documents /\ Len(text) \in 0 .. MaxLines /\ MaxLines \in Nat
    BY TextIs DEF Init
  <1>2. Run(1, 0) \in Runs /\ Run(1, 0).lo = 1 /\ Run(1, 0).hi = 0
    BY <1>1 DEF Run, Runs
  <1>3. /\ <<>> \in Seq(SectionSet(text)) /\ <<>> \in Seq(WindowSet(text))
        /\ DOMAIN <<>> = {}
    BY EmptySeq, LenProperties
  <1>4. Places
    BY <1>1, <1>2 DEF Init, Places
  <1>5. Filed(text, sections) /\ Cut(text, windows)
    BY <1>3 DEF Init, Filed, Cut
  <1>6. Splitting /\ InOrder /\ Cutting /\ Covered
    BY <1>1, <1>2, <1>3 DEF Init, Splitting, InOrder, Cutting, Covered
  <1>7. QED
    BY <1>4, <1>5, <1>6 DEF Inv

-----------------------------------------------------------------------------
(* The sections.                                                           *)

LEMMA ClosedIs ==
  ASSUME Inv, pc = "split"
  PROVE  /\ Filed(text, Closed)
         /\ \A s \in DOMAIN Closed : Closed[s].heading <= heading
         /\ \A i \in 1 .. at - 1 : text[i] > 0 => InSection(Closed, i)
  <1>1. /\ text \in Documents /\ Filed(text, sections)
        /\ at \in 1 .. Len(text) + 1 /\ heading \in 0 .. Len(text)
        /\ Len(text) \in Nat
    BY TextIs DEF Inv, Places
  <1>2. /\ buf.lo = heading + 1 /\ buf.hi = at - 1 /\ heading < at
        /\ heading = 0 \/ text[heading] = Heading
        /\ \A k \in heading + 1 .. at - 1 : text[k] # Heading
        /\ \A s \in DOMAIN sections : sections[s].heading < heading
        /\ windows = <<>>
    BY DEF Inv, Splitting
  <1>3. \A s \in DOMAIN sections : sections[s].heading \in 0 .. Len(text)
    <2>1. sections \in Seq(SectionSet(text))
      BY <1>1 DEF Filed
    <2>2. \A s \in DOMAIN sections : sections[s] \in SectionSet(text)
      BY <2>1, LenProperties, ElementOfSeq
    <2>3. QED
      BY <2>2 DEF SectionSet
  <1>4. \A i \in 1 .. heading : text[i] > 0 => InSection(sections, i)
    <2>1. ~ \E i : InWindow(windows, i)
      BY <1>2, EmptySeq, LenProperties DEF InWindow
    <2>2. \A i \in 1 .. heading : i \in 1 .. Len(text) /\ ~ (i > heading)
      BY <1>1
    <2>3. QED
      BY <2>1, <2>2 DEF Inv, Covered
  <1>5. CASE IsEmpty(buf)
    <2>1. Closed = sections /\ at - 1 = heading
      BY <1>1, <1>2, <1>5 DEF Closed, IsEmpty
    <2>2. QED
      BY <1>1, <1>2, <1>3, <1>4, <2>1
  <1>6. CASE ~IsEmpty(buf)
    <2> DEFINE x == Section(buf)
    <2>1. Closed = Append(sections, x)
      BY <1>6 DEF Closed
    <2>2. buf = Run(heading + 1, at - 1)
      BY <1>2 DEF Inv, Places, Runs, Run
    <2>3. x.heading = heading /\ x.body = Strip(Run(heading + 1, at - 1))
      BY <2>2 DEF Section
    <2>4. /\ x.body \in Runs /\ LinesOf(x.body) \subseteq heading + 1 .. at - 1
          /\ \A i \in heading + 1 .. at - 1 : text[i] > 0 => i \in LinesOf(x.body)
      <3>1. PICK lo \in 1 .. Len(text) + 1, hi \in 0 .. Len(text) :
              lo = heading + 1 /\ hi = at - 1
        BY <1>1
      <3>2. QED
        BY <1>1, <2>3, <3>1, StripIs
    <2>5. x \in SectionSet(text)
      BY <1>1, <2>4 DEF SectionSet, Section
    <2> HIDE DEF x
    <2>6. Within(text, x.heading, x.body)
      <3>1. ASSUME NEW i \in heading + 1 .. at - 1 PROVE Under(text, heading, i)
        BY <1>1, <1>2 DEF Under
      <3>2. QED
        BY <2>3, <2>4, <3>1 DEF Within
    <2>7. /\ Filed(text, Closed)
          /\ \A i : InSection(sections, i) => InSection(Closed, i)
          /\ \A i \in LinesOf(x.body) : InSection(Closed, i)
          /\ \A s \in DOMAIN Closed :
               (s \in DOMAIN sections /\ Closed[s] = sections[s]) \/ Closed[s] = x
      BY <1>1, <1>2, <2>1, <2>3, <2>5, <2>6, FiledMore
    <2>8. \A s \in DOMAIN Closed : Closed[s].heading <= heading
      BY <1>1, <1>2, <1>3, <2>3, <2>7
    <2>9. \A i \in 1 .. at - 1 : text[i] > 0 => InSection(Closed, i)
      <3>1. \A i \in 1 .. at - 1 : i \in 1 .. heading \/ i \in heading + 1 .. at - 1
        BY <1>1
      <3>2. QED
        BY <1>4, <2>4, <2>7, <3>1
    <2>10. QED
      BY <2>7, <2>8, <2>9
  <1>7. QED
    BY <1>5, <1>6

LEMMA ReadHeadingInv == Inv /\ ReadHeading => Inv'
  <1> SUFFICES ASSUME Inv, ReadHeading PROVE Inv'
    OBVIOUS
  <1>1. /\ pc = "split" /\ at <= Len(text) /\ text[at] = Heading
        /\ sections' = Closed /\ heading' = at /\ buf' = Run(at + 1, at)
        /\ at' = at + 1 /\ UNCHANGED <<text, pc, cur, cur_len, windows>>
    BY DEF ReadHeading
  <1>2. /\ Filed(text, Closed)
        /\ \A s \in DOMAIN Closed : Closed[s].heading <= heading
        /\ \A i \in 1 .. at - 1 : text[i] > 0 => InSection(Closed, i)
    BY <1>1, ClosedIs
  <1>3. /\ text \in Documents /\ Len(text) \in 0 .. MaxLines /\ MaxLines \in Nat
        /\ at \in 1 .. Len(text) /\ heading \in 0 .. Len(text) /\ heading < at
        /\ windows = <<>>
    BY <1>1, TextIs DEF Inv, Places, Splitting
  <1>4. buf' \in Runs /\ buf'.lo = at + 1 /\ buf'.hi = at
    BY <1>1, <1>3 DEF Run, Runs
  <1>5. Places'
    BY <1>1, <1>3, <1>4 DEF Inv, Places
  <1>6. Filed(text, sections)' /\ Cut(text, windows)'
    BY <1>1, <1>2 DEF Inv
  <1>7. Splitting'
    <2>1. \A s \in DOMAIN Closed : Closed[s].heading < at
      <3>1. ASSUME NEW s \in DOMAIN Closed PROVE Closed[s].heading \in Int
        <4>1. Closed[s] \in SectionSet(text)
          BY <1>2, LenProperties, ElementOfSeq DEF Filed
        <4>2. QED
          BY <4>1 DEF SectionSet
      <3>2. QED
        BY <1>2, <1>3, <3>1
    <2>2. QED
      BY <1>1, <1>3, <1>4, <2>1 DEF Splitting
  <1>8. InOrder' /\ Cutting'
    BY <1>1 DEF InOrder, Cutting
  <1>9. Covered'
    <2>1. ~ (Heading > 0)
      BY DEF Heading
    <2>2. \A i \in 1 .. Len(text) : i \in 1 .. at - 1 \/ i = at \/ i > at
      BY <1>3
    <2>3. QED
      BY <1>1, <1>2, <2>1, <2>2 DEF Covered
  <1>10. QED
    BY <1>5, <1>6, <1>7, <1>8, <1>9 DEF Inv

LEMMA ReadTextInv == Inv /\ ReadText => Inv'
  <1> SUFFICES ASSUME Inv, ReadText PROVE Inv'
    OBVIOUS
  <1>1. /\ pc = "split" /\ at <= Len(text) /\ text[at] # Heading
        /\ buf' = Run(buf.lo, at) /\ at' = at + 1
        /\ UNCHANGED <<text, pc, heading, sections, cur, cur_len, windows>>
    BY DEF ReadText
  <1>2. /\ text \in Documents /\ Len(text) \in 0 .. MaxLines /\ MaxLines \in Nat
        /\ at \in 1 .. Len(text) /\ heading \in 0 .. Len(text)
        /\ buf.lo = heading + 1 /\ heading < at
        /\ \A k \in heading + 1 .. at - 1 : text[k] # Heading
    BY <1>1, TextIs DEF Inv, Places, Splitting
  <1>3. buf' \in Runs /\ buf'.lo = heading + 1 /\ buf'.hi = at
    BY <1>1, <1>2 DEF Run, Runs
  <1>4. Places'
    BY <1>1, <1>2, <1>3 DEF Inv, Places
  <1>5. Splitting'
    <2>1. \A k \in heading + 1 .. at : k \in heading + 1 .. at - 1 \/ k = at
      BY <1>2
    <2>2. \A k \in heading + 1 .. at : text[k] # Heading
      BY <1>1, <1>2, <2>1
    <2>3. at' - 1 = at /\ heading < at'
      BY <1>1, <1>2
    <2>4. QED
      BY <1>1, <1>3, <2>2, <2>3 DEF Inv, Splitting
  <1>6. QED
    BY <1>1, <1>4, <1>5 DEF Inv, InOrder, Cutting, Covered

LEMMA EndOfTextInv == Inv /\ EndOfText => Inv'
  <1> SUFFICES ASSUME Inv, EndOfText PROVE Inv'
    OBVIOUS
  <1>1. /\ pc = "split" /\ at > Len(text) /\ sections' = Closed /\ pc' = "section"
        /\ UNCHANGED <<text, at, heading, buf, cur, cur_len, windows>>
    BY DEF EndOfText
  <1>2. /\ Filed(text, Closed)
        /\ \A i \in 1 .. at - 1 : text[i] > 0 => InSection(Closed, i)
    BY <1>1, ClosedIs
  <1>3. DOMAIN windows = {} /\ Len(text) \in Nat /\ at = Len(text) + 1
    BY <1>1, TextIs, EmptySeq, LenProperties DEF Inv, Places, Splitting
  <1>4. Places' /\ Filed(text, sections)' /\ Cut(text, windows)'
    BY <1>1, <1>2 DEF Inv, Places
  <1>5. Splitting' /\ InOrder' /\ Cutting'
    BY <1>1, <1>3 DEF Splitting, InOrder, Cutting
  <1>6. Covered'
    BY <1>1, <1>2, <1>3 DEF Covered
  <1>7. QED
    BY <1>4, <1>5, <1>6 DEF Inv
-----------------------------------------------------------------------------
(* The windows.                                                            *)

\* What is known of the section that is cut next.
LEMMA FirstIs ==
  ASSUME Inv, sections # <<>>
  PROVE  LET s == sections[1]
         IN  /\ Head(sections) = s /\ s \in SectionSet(text)
             /\ s.heading \in 0 .. Len(text) /\ s.body \in Runs
             /\ s.body = Run(s.body.lo, s.body.hi)
             /\ Within(text, s.heading, s.body)
             /\ Filed(text, Tail(sections)) /\ 1 \in DOMAIN sections
             /\ \A r \in DOMAIN Tail(sections) :
                  /\ s.heading < Tail(sections)[r].heading
                  /\ r + 1 \in DOMAIN sections /\ r + 1 # 1
                  /\ Tail(sections)[r] = sections[r + 1]
             /\ \A i : InSection(sections, i) =>
                  InSection(Tail(sections), i) \/ i \in LinesOf(s.body)
             /\ Len(text) \in 0 .. MaxLines /\ MaxLines \in Nat
             /\ text \in Documents
             /\ pc # "split" => windows \in Seq(WindowSet(text))
  <1>1. Filed(text, sections) /\ text \in Documents
    BY DEF Inv, Places
  <1>2. sections[1].heading \in 0 .. Len(text) /\ sections[1].body \in Runs
    BY <1>1, FiledLess DEF SectionSet
  <1>3. sections[1].body = Run(sections[1].body.lo, sections[1].body.hi)
    BY <1>2 DEF Runs, Run
  <1>4. QED
    BY <1>1, <1>2, <1>3, FiledLess, TextIs DEF Inv, Cut

\* A section is done: its lines are in windows, all of them before the next.
LEMMA NextSection ==
  ASSUME Inv, pc \in {"section", "window"}, sections # <<>>,
         NEW ws, Cut(text, ws), \A i : InWindow(windows, i) => InWindow(ws, i),
         \A i \in LinesOf(sections[1].body) : text[i] > 0 => InWindow(ws, i),
         \A w \in DOMAIN ws :
           \/ w \in DOMAIN windows /\ ws[w] = windows[w]
           \/ ws[w].heading = sections[1].heading,
         windows' = ws, sections' = Tail(sections), pc' = "section",
         UNCHANGED <<text, heading, buf>>,
         at' \in 1 .. Len(text) + 1, cur' \in Runs, cur_len' \in Nat
  PROVE  Inv'
  <1> DEFINE h == sections[1].heading
             tail == Tail(sections)
  <1>1. /\ h \in 0 .. Len(text) /\ Filed(text, tail) /\ 1 \in DOMAIN sections
        /\ \A r \in DOMAIN tail :
             /\ h < tail[r].heading
             /\ r + 1 \in DOMAIN sections /\ r + 1 # 1
             /\ tail[r] = sections[r + 1]
        /\ \A i : InSection(sections, i) =>
             InSection(tail, i) \/ i \in LinesOf(sections[1].body)
    BY FirstIs
  <1>2. Places' /\ Filed(text, sections)' /\ Cut(text, windows)'
    BY <1>1 DEF Inv, Places
  <1>3. ASSUME NEW w \in DOMAIN ws, NEW r \in DOMAIN tail
        PROVE  ws[w].heading < tail[r].heading
    <2>1. CASE w \in DOMAIN windows /\ ws[w] = windows[w]
      BY <1>1, <2>1 DEF Inv, InOrder
    <2>2. CASE ws[w].heading = h
      BY <1>1, <2>2
    <2>3. QED
      BY <2>1, <2>2
  <1>4. InOrder' /\ Splitting' /\ Cutting'
    BY <1>3 DEF InOrder, Splitting, Cutting
  <1>5. ASSUME NEW i \in 1 .. Len(text), text[i] > 0
        PROVE  InSection(tail, i) \/ InWindow(ws, i)
    BY <1>1, <1>5 DEF Inv, Covered
  <1>6. Covered'
    BY <1>5 DEF Covered
  <1>7. QED
    BY <1>2, <1>4, <1>6 DEF Inv

LEMMA SizeIs ==
  ASSUME text \in Documents, NEW lo \in 1 .. Len(text) + 1,
         NEW hi \in 0 .. Len(text)
  PROVE  /\ Size(Run(lo, hi)) = Upto(text)[hi] - Upto(text)[lo - 1] - 1
         /\ SizeOf(text, Run(lo, hi)) = Upto(text)[hi] - Upto(text)[lo - 1] - 1
         /\ Upto(text)[hi] \in Int /\ Upto(text)[lo - 1] \in Int
         /\ lo <= hi + 1 => Upto(text)[lo - 1] <= Upto(text)[hi]
  <1>1. Len(text) \in Nat /\ lo - 1 \in 0 .. Len(text)
    BY TextIs
  <1>2. lo <= hi + 1 => Upto(text)[lo - 1] <= Upto(text)[hi]
    <2> DEFINE k == lo - 1
    <2>1. SUFFICES ASSUME lo <= hi + 1 PROVE Upto(text)[k] <= Upto(text)[hi]
      OBVIOUS
    <2>2. k \in 0 .. Len(text) /\ hi \in k .. Len(text)
      BY <1>1, <2>1
    <2> HIDE DEF k
    <2>3. QED
      BY <2>2, UptoGrows
  <1>3. QED
    BY <1>1, <1>2, UptoIs DEF Size, SizeOf, Run

LEMMA OpenSectionInv == Inv /\ OpenSection => Inv'
  <1> SUFFICES ASSUME Inv, OpenSection PROVE Inv'
    OBVIOUS
  <1> DEFINE s == sections[1]
             body == s.body
  <1>1. pc = "section" /\ sections # <<>> /\ UNCHANGED <<text, heading, buf>>
    BY DEF OpenSection
  <1>2. /\ Head(sections) = s /\ s.heading \in 0 .. Len(text) /\ body \in Runs
        /\ body = Run(body.lo, body.hi) /\ Within(text, s.heading, body)
        /\ 1 \in DOMAIN sections /\ text \in Documents
        /\ Len(text) \in 0 .. MaxLines /\ MaxLines \in Nat
        /\ windows \in Seq(WindowSet(text))
    BY <1>1, FirstIs
  <1>3. ~Open(windows, s.heading)
    <2>1. ASSUME Open(windows, s.heading) PROVE FALSE
      <3>1. Len(windows) \in DOMAIN windows
        BY <1>2, <2>1, LenProperties, EmptySeq DEF Open
      <3>2. windows[Len(windows)].heading < s.heading
        BY <1>1, <1>2, <3>1 DEF Inv, InOrder
      <3>3. QED
        BY <1>2, <2>1, <3>2 DEF Open
    <2>2. QED
      BY <2>1
  <1>4. CASE IsEmpty(body) /\ windows' = windows /\ sections' = Tail(sections)
             /\ UNCHANGED <<pc, at, cur, cur_len>>
    <2>1. LinesOf(body) = {}
      BY <1>2, <1>4 DEF IsEmpty, LinesOf, Runs
    <2>2. Cut(text, windows) /\ at \in 1 .. Len(text) + 1 /\ cur \in Runs
          /\ cur_len \in Nat
      BY DEF Inv, Places
    <2>3. QED
      BY <1>1, <1>4, <2>1, <2>2, NextSection
  <1>5. CASE /\ ~IsEmpty(body) /\ Size(body) <= MaxChars
             /\ windows' = Append(windows, Window(body))
             /\ sections' = Tail(sections) /\ UNCHANGED <<pc, at, cur, cur_len>>
    <2> DEFINE x == Window(body)
    <2>1. x.heading = s.heading /\ x.lines = body /\ x \in WindowSet(text)
      BY <1>2 DEF Window, WindowSet
    <2>2. ~ (SizeOf(text, body) > MaxChars)
      <3>1. body.lo \in 1 .. Len(text) + 1 /\ body.hi \in 0 .. Len(text)
        <4>1. body.lo <= body.hi /\ body.lo \in Int /\ body.hi \in Int
          BY <1>2, <1>5 DEF IsEmpty, Runs
        <4>2. body.lo \in LinesOf(body) /\ body.hi \in LinesOf(body)
          BY <4>1 DEF LinesOf
        <4>3. body.lo \in 1 .. Len(text) /\ body.hi \in 1 .. Len(text)
          BY <1>2, <4>2 DEF Within, Under
        <4>4. QED
          BY <1>2, <4>3
      <3>2. Size(body) = SizeOf(text, body) /\ SizeOf(text, body) \in Int
        <4>1. PICK lo \in 1 .. Len(text) + 1, hi \in 0 .. Len(text) :
                lo = body.lo /\ hi = body.hi
          BY <3>1
        <4>2. body = Run(lo, hi)
          BY <1>2, <4>1
        <4>3. /\ Size(Run(lo, hi)) = SizeOf(text, Run(lo, hi))
              /\ SizeOf(text, Run(lo, hi)) \in Int
          <5> HIDE DEF body
          <5>1. text \in Documents
            BY <1>2
          <5>2. /\ Size(Run(lo, hi)) = Upto(text)[hi] - Upto(text)[lo - 1] - 1
                /\ SizeOf(text, Run(lo, hi)) =
                     Upto(text)[hi] - Upto(text)[lo - 1] - 1
                /\ Upto(text)[hi] \in Int /\ Upto(text)[lo - 1] \in Int
            BY <5>1, SizeIs
          <5>3. QED
            BY <5>2
        <4> HIDE DEF body
        <4>4. QED
          BY <4>2, <4>3
      <3>3. QED
        BY <1>5, <3>2, ChunkAssumption
    <2>3. MayFollow(text, windows, x.heading, x.lines)
      BY <1>3, <2>1, <2>2 DEF MayFollow
    <2>4. Cut(text, windows) /\ at \in 1 .. Len(text) + 1 /\ cur \in Runs
          /\ cur_len \in Nat
      BY DEF Inv, Places
    <2> HIDE DEF x
    <2> DEFINE ws == Append(windows, x)
    <2>5. /\ Cut(text, ws) /\ \A i : InWindow(windows, i) => InWindow(ws, i)
          /\ \A i \in LinesOf(body) : InWindow(ws, i)
          /\ \A w \in DOMAIN ws : \/ w \in DOMAIN windows /\ ws[w] = windows[w]
                                  \/ ws[w].heading = s.heading
      <3>1. Within(text, x.heading, x.lines)
        BY <1>2, <2>1
      <3>2. QED
        BY <2>1, <2>3, <2>4, <3>1, CutMore
    <2>6. windows' = ws
      BY <1>5 DEF x
    <2> HIDE DEF ws
    <2>7. QED
      BY <1>1, <1>5, <2>4, <2>5, <2>6, NextSection
  <1>6. CASE /\ ~IsEmpty(body) /\ at' = body.lo
             /\ cur' = Run(body.lo, body.lo - 1) /\ cur_len' = 0
             /\ pc' = "window" /\ UNCHANGED <<sections, windows>>
    <2> DEFINE lo == body.lo
    <2>1. lo \in 1 .. Len(text) /\ lo <= body.hi /\ body.hi \in 1 .. Len(text)
      <3>1. body.lo <= body.hi /\ body.lo \in Int /\ body.hi \in Int
        BY <1>2, <1>6 DEF IsEmpty, Runs
      <3>2. body.lo \in LinesOf(body) /\ body.hi \in LinesOf(body)
        BY <3>1 DEF LinesOf
      <3>3. QED
        BY <1>2, <3>1, <3>2 DEF Within, Under
    <2>2. /\ cur'.lo = lo /\ cur'.hi = lo - 1 /\ cur' \in Runs
          /\ at' \in 1 .. Len(text) + 1 /\ at' = lo
      BY <1>2, <1>6, <2>1 DEF Run, Runs
    <2>3. SizeOf(text, cur') = -1
      <3>1. PICK k \in 0 .. Len(text) : k = lo - 1
        BY <1>2, <2>1
      <3>2. Upto(text)[k] \in Int
        BY <1>2, UptoIs
      <3>3. QED
        BY <2>2, <3>1, <3>2 DEF SizeOf
    <2>4. Places'
      BY <1>1, <1>6, <2>2 DEF Inv, Places
    <2>5. Cutting'
      <3>1. ~ (at' > lo) /\ at' \in lo .. body.hi + 1 /\ \A i \in lo .. at' - 1 : FALSE
        BY <2>1, <2>2
      <3>2. cur_len' = SizeOf(text, cur') + 1
        BY <1>6, <2>3
      <3> HIDE DEF lo
      <3>3. /\ lo <= body.hi /\ at' \in lo .. body.hi + 1
            /\ cur'.hi = at' - 1 /\ cur'.lo \in lo .. at'
            /\ ~ (at' > lo)
        BY <2>1, <2>2, <3>1
      <3> USE DEF lo
      <3>4. QED
        BY <1>1, <1>3, <1>6, <3>1, <3>2, <3>3 DEF Cutting
    <2>6. InOrder'
      <3>1. \A w \in DOMAIN windows, r \in DOMAIN sections :
              windows[w].heading < sections[r].heading
        BY <1>1 DEF Inv, InOrder
      <3>2. QED
        BY <1>6, <3>1 DEF InOrder
    <2>7. QED
      BY <1>1, <1>6, <2>4, <2>5, <2>6 DEF Inv, Splitting, Covered
  <1>7. QED
    BY <1>1, <1>2, <1>4, <1>5, <1>6 DEF OpenSection

\* What a window is continued with: an end of it that is short enough.
LEMMA OverlapIs ==
  ASSUME text \in Documents, NEW lo \in 1 .. Len(text),
         NEW hi \in lo .. Len(text)
  PROVE  LET o == OverlapOf(Run(lo, hi))
         IN  /\ o = Run(o.lo, hi) /\ o.lo \in lo .. hi + 1
             /\ Size(o) <= Overlap
  <1> DEFINE run == Run(lo, hi)
             fits == {k \in lo .. hi : Size(Run(k, hi)) <= Overlap}
             o == OverlapOf(run)
  <1>1. Len(text) \in Nat /\ Overlap \in Nat
    BY TextIs, ChunkAssumption
  <1>2. LinesOf(run) = lo .. hi /\ run.hi = hi
    BY DEF LinesOf, Run
  <1>3. o = Run(IF fits = {} THEN hi + 1 ELSE Min(fits), hi)
    BY <1>2 DEF OverlapOf
  <1> HIDE DEF o
  <1>4. o.hi = hi /\ o = Run(o.lo, hi)
    BY <1>3 DEF Run
  <1>5. CASE fits = {}
    <2>1. o.lo = hi + 1
      BY <1>3, <1>5 DEF Run
    <2>2. hi \in 0 .. Len(text) /\ hi + 1 \in 1 .. Len(text) + 1 /\ hi + 1 \in lo .. hi + 1
          /\ hi + 1 - 1 = hi
      BY <1>1
    <2>3. Size(Run(hi + 1, hi)) = -1
      <3>1. Upto(text)[hi] \in Int
        BY <2>2, UptoIs
      <3>2. QED
        BY <2>2, <3>1 DEF Size, Run
    <2>4. Size(o) <= Overlap
      <3>1. o = Run(hi + 1, hi)
        BY <1>4, <2>1
      <3>2. QED
        BY <1>1, <2>3, <3>1
    <2>5. QED
      BY <1>4, <2>1, <2>2, <2>4 DEF o
  <1>6. CASE fits # {}
    <2>1. fits \in SUBSET (1 .. Len(text))
      BY <1>1
    <2>2. Min(fits) \in fits
      <3> HIDE DEF fits
      <3>1. QED
        BY <1>1, <1>6, <2>1, EndsAre
    <2>3. o.lo = Min(fits)
      <3> HIDE DEF fits
      <3>1. QED
        BY <1>3, <1>6 DEF Run
    <2>4. o.lo \in lo .. hi /\ Size(Run(o.lo, hi)) <= Overlap
      BY <2>2, <2>3
    <2>5. QED
      BY <1>1, <1>4, <2>4 DEF o
  <1>7. QED
    BY <1>5, <1>6
\* What the step of _window and its end have in common.
LEMMA CuttingIs ==
  ASSUME Inv, pc = "window"
  PROVE  LET b == sections[1].body
             h == sections[1].heading
         IN  /\ sections # <<>> /\ Head(sections) = sections[1]
             /\ h \in 0 .. Len(text) /\ Within(text, h, b)
             /\ b.lo \in 1 .. Len(text) /\ b.hi \in b.lo .. Len(text)
             /\ LinesOf(b) = b.lo .. b.hi
             /\ at \in b.lo .. b.hi + 1
             /\ cur = Run(cur.lo, at - 1) /\ cur.hi = at - 1
             /\ cur.lo \in b.lo .. at
             /\ at > b.lo => cur.lo < at
             /\ LinesOf(cur) = cur.lo .. at - 1
             /\ at = b.lo => ~Open(windows, h)
             /\ at > b.lo => MayFollow(text, windows, h, cur)
             /\ cur_len = SizeOf(text, cur) + 1
             /\ \A i \in b.lo .. at - 1 : i \in LinesOf(cur) \/ InWindow(windows, i)
             /\ Within(text, h, cur)
             /\ text \in Documents /\ Cut(text, windows) /\ cur \in Runs
             /\ Len(text) \in 0 .. MaxLines /\ MaxLines \in Nat
  <1> DEFINE b == sections[1].body
             h == sections[1].heading
  <1>1. /\ sections # <<>> /\ b.lo <= b.hi /\ at \in b.lo .. b.hi + 1
        /\ cur.hi = at - 1 /\ cur.lo \in b.lo .. at
        /\ at > b.lo => cur.lo < at
        /\ at = b.lo => ~Open(windows, h)
        /\ cur_len = SizeOf(text, cur) + 1
        /\ at > b.lo => MayFollow(text, windows, h, cur)
        /\ \A i \in b.lo .. at - 1 : i \in LinesOf(cur) \/ InWindow(windows, i)
    BY DEF Inv, Cutting
  <1>2. /\ Head(sections) = sections[1] /\ h \in 0 .. Len(text) /\ b \in Runs
        /\ Within(text, h, b) /\ text \in Documents
        /\ Len(text) \in 0 .. MaxLines /\ MaxLines \in Nat
    BY <1>1, FirstIs
  <1>3. cur \in Runs /\ Cut(text, windows)
    BY DEF Inv, Places
  <1>4. cur = Run(cur.lo, at - 1) /\ LinesOf(cur) = cur.lo .. at - 1
    BY <1>1, <1>3 DEF Runs, Run, LinesOf
  <1>5. LinesOf(b) = b.lo .. b.hi /\ b.lo \in Int /\ b.hi \in Int
    BY <1>2 DEF LinesOf, Runs
  <1>6. b.lo \in 1 .. Len(text) /\ b.hi \in b.lo .. Len(text)
    <2>1. b.lo \in LinesOf(b) /\ b.hi \in LinesOf(b)
      BY <1>1, <1>5
    <2>2. b.lo \in 1 .. Len(text) /\ b.hi \in 1 .. Len(text)
      BY <2>1, <1>2 DEF Within, Under
    <2>3. QED
      BY <1>1, <1>2, <2>2
  <1>7. Within(text, h, cur)
    <2>1. \A i \in cur.lo .. at - 1 : i \in b.lo .. b.hi
      BY <1>1, <1>5
    <2>2. QED
      BY <1>2, <1>4, <1>5, <2>1 DEF Within
  <1>8. QED
    BY <1>1, <1>2, <1>3, <1>4, <1>5, <1>6, <1>7

\* Closing the window that is filled.
LEMMA Closing ==
  ASSUME Inv, pc = "window", at > sections[1].body.lo
  PROVE  LET zs == Append(windows, Window(cur))
         IN  /\ Cut(text, zs) /\ Open(zs, sections[1].heading)
             /\ zs[Len(zs)].lines = cur
             /\ \A i : InWindow(windows, i) => InWindow(zs, i)
             /\ \A i \in LinesOf(cur) : InWindow(zs, i)
             /\ \A w \in DOMAIN zs :
                  \/ w \in DOMAIN windows /\ zs[w] = windows[w]
                  \/ zs[w].heading = sections[1].heading
  <1> DEFINE x == Window(cur)
  <1>1. x.heading = sections[1].heading /\ x.lines = cur /\ x \in WindowSet(text)
    BY CuttingIs DEF Window, WindowSet
  <1> HIDE DEF x
  <1>2. /\ Cut(text, windows) /\ Within(text, x.heading, x.lines)
        /\ MayFollow(text, windows, x.heading, x.lines)
    BY <1>1, CuttingIs
  <1>3. QED
    BY <1>1, <1>2, CutMore DEF x

LEMMA EndSectionInv == Inv /\ EndSection => Inv'
  <1> SUFFICES ASSUME Inv, EndSection PROVE Inv'
    OBVIOUS
  <1> DEFINE b == sections[1].body
             h == sections[1].heading
  <1>1. /\ pc = "window" /\ at > Head(sections).body.hi
        /\ windows' = IF IsEmpty(cur) THEN windows
                      ELSE Append(windows, Window(cur))
        /\ sections' = Tail(sections) /\ pc' = "section"
        /\ UNCHANGED <<text, at, heading, buf, cur, cur_len>>
    BY DEF EndSection
  <1>2. /\ sections # <<>> /\ Head(sections) = sections[1]
        /\ b.lo \in 1 .. Len(text) /\ b.hi \in b.lo .. Len(text)
        /\ LinesOf(b) = b.lo .. b.hi /\ at \in b.lo .. b.hi + 1
        /\ cur.hi = at - 1 /\ cur.lo \in b.lo .. at
        /\ at > b.lo => cur.lo < at
        /\ \A i \in b.lo .. at - 1 : i \in LinesOf(cur) \/ InWindow(windows, i)
        /\ Len(text) \in Nat
    BY <1>1, CuttingIs
  <1>3. at = b.hi + 1 /\ at > b.lo /\ ~IsEmpty(cur)
    <2>1. at > b.hi
      BY <1>1, <1>2
    <2>2. at = b.hi + 1 /\ at > b.lo
      BY <1>2, <2>1
    <2>3. cur.lo < at /\ ~ (cur.hi < cur.lo)
      BY <1>2, <2>2
    <2>4. QED
      BY <2>2, <2>3 DEF IsEmpty
  <1> DEFINE zs == Append(windows, Window(cur))
  <1>4. /\ Cut(text, zs) /\ \A i : InWindow(windows, i) => InWindow(zs, i)
        /\ \A i \in LinesOf(cur) : InWindow(zs, i)
        /\ \A w \in DOMAIN zs : \/ w \in DOMAIN windows /\ zs[w] = windows[w]
                                \/ zs[w].heading = h
    BY <1>1, <1>3, Closing
  <1>5. windows' = zs
    BY <1>1, <1>3
  <1> HIDE DEF zs
  <1>6. \A i \in LinesOf(b) : InWindow(zs, i)
    <2>1. b.lo .. at - 1 = b.lo .. b.hi
      BY <1>2, <1>3
    <2>2. QED
      BY <1>2, <1>4, <2>1
  <1>7. at \in 1 .. Len(text) + 1 /\ cur \in Runs /\ cur_len \in Nat
    BY DEF Inv, Places
  <1>8. QED
    BY <1>1, <1>2, <1>4, <1>5, <1>6, <1>7, NextSection

LEMMA AddLineInv == Inv /\ AddLine => Inv'
  <1> SUFFICES ASSUME Inv, AddLine PROVE Inv'
    OBVIOUS
  <1> DEFINE b == sections[1].body
             h == sections[1].heading
             U == Upto(text)
  <1>1. /\ pc = "window" /\ at <= Head(sections).body.hi
        /\ windows' = IF IsFull THEN Append(windows, Window(cur)) ELSE windows
        /\ cur' = Run(Carried.lo, at)
        /\ cur_len' = (IF IsFull THEN Size(Carried) + 1 ELSE cur_len) + text[at] + 1
        /\ at' = at + 1 /\ UNCHANGED <<text, pc, heading, buf, sections>>
    BY DEF AddLine
  <1>2. /\ sections # <<>> /\ Head(sections) = sections[1]
        /\ b.lo \in 1 .. Len(text) /\ b.hi \in b.lo .. Len(text)
        /\ at \in b.lo .. b.hi + 1
        /\ cur = Run(cur.lo, at - 1) /\ cur.hi = at - 1 /\ cur.lo \in b.lo .. at
        /\ at > b.lo => cur.lo < at
        /\ LinesOf(cur) = cur.lo .. at - 1
        /\ cur_len = SizeOf(text, cur) + 1 /\ cur \in Runs
        /\ \A i \in b.lo .. at - 1 : i \in LinesOf(cur) \/ InWindow(windows, i)
        /\ Len(text) \in 0 .. MaxLines /\ MaxLines \in Nat
        /\ text \in Documents /\ Cut(text, windows)
    BY <1>1, CuttingIs
  <1>lines. /\ b.lo \in Int /\ b.hi \in Int /\ cur.lo \in Int /\ at \in Int
            /\ Len(text) \in Nat
            /\ 1 <= b.lo /\ b.hi <= Len(text) /\ b.lo <= cur.lo /\ cur.lo <= at
            /\ b.lo <= at /\ at <= b.hi
    <2>1. /\ b.lo \in Int /\ 1 <= b.lo /\ Len(text) \in Nat
      BY <1>2
    <2>2. /\ b.hi \in Int /\ b.hi <= Len(text)
      BY <1>2, <2>1
    <2>3. /\ at \in Int /\ b.lo <= at /\ at <= b.hi
      BY <1>1, <1>2, <2>1, <2>2
    <2>4. /\ cur.lo \in Int /\ b.lo <= cur.lo /\ cur.lo <= at
      BY <1>2, <2>1, <2>3
    <2>5. QED
      BY <2>1, <2>2, <2>3, <2>4
  <1>3. at \in b.lo .. b.hi /\ at \in 1 .. Len(text) /\ at - 1 \in 0 .. Len(text)
    BY <1>lines
  <1>4. /\ text[at] \in Int /\ text[at] >= -1 /\ U[at - 1] \in Int /\ U[at] \in Int
        /\ U[at] = U[at - 1] + text[at] + 1
    BY <1>2, <1>3, TextIs, UptoIs
  \* The lines carried over, however the step goes.
  <1>5. /\ Carried = Run(Carried.lo, at - 1) /\ Carried.lo \in cur.lo .. at
        /\ IsFull => at > b.lo /\ Size(Carried) <= Overlap
        /\ ~IsFull => Carried = cur
    <2>1. CASE ~IsFull
      <3>1. Carried = cur
        BY <2>1 DEF Carried
      <3>2. QED
        BY <1>2, <1>3, <2>1, <3>1
    <2>2. CASE IsFull
      <3>1. ~ (cur.hi < cur.lo)
        BY <2>2 DEF IsFull, IsEmpty
      <3>2. at > b.lo /\ cur.lo \in 1 .. Len(text) /\ at - 1 \in cur.lo .. Len(text)
        BY <1>2, <1>3, <3>1
      <3>3. PICK lo \in 1 .. Len(text), hi \in 1 .. Len(text) :
              lo = cur.lo /\ hi = at - 1 /\ hi \in lo .. Len(text)
        BY <3>2
      <3>4. cur = Run(lo, hi) /\ hi + 1 = at
        BY <1>2, <1>3, <3>3
      <3>5. /\ OverlapOf(Run(lo, hi)) = Run(OverlapOf(Run(lo, hi)).lo, hi)
            /\ OverlapOf(Run(lo, hi)).lo \in lo .. hi + 1
            /\ Size(OverlapOf(Run(lo, hi))) <= Overlap
        <4>1. hi \in lo .. Len(text) /\ text \in Documents
          BY <1>2, <3>3
        <4>2. QED
          BY <4>1, OverlapIs
      <3>6. Carried = OverlapOf(Run(lo, hi))
        BY <2>2, <3>4 DEF Carried
      <3>7. QED
        BY <2>2, <3>2, <3>3, <3>4, <3>5, <3>6
    <2>3. QED
      BY <2>1, <2>2
  <1>6. PICK lo \in 1 .. Len(text), hi \in 1 .. Len(text), k \in 0 .. Len(text) :
          lo = Carried.lo /\ hi = at /\ k = at - 1
    <2>1. Carried.lo \in 1 .. Len(text)
      <3>1. Carried.lo \in cur.lo .. at
        BY <1>5
      <3>2. QED
        BY <1>lines, <3>1
    <2>2. QED
      BY <1>3, <2>1
  <1>7. /\ lo <= hi /\ k + 1 = hi /\ lo <= k + 1 /\ lo \in cur.lo .. at
        /\ Carried = Run(lo, k) /\ cur' = Run(lo, hi) /\ at' = hi + 1
        /\ lo \in 1 .. Len(text) + 1 /\ hi \in 0 .. Len(text)
    <2>1. Carried = Run(Carried.lo, at - 1) /\ Carried.lo \in cur.lo .. at
      BY <1>5
    <2>2. /\ lo <= hi /\ k + 1 = hi /\ lo <= k + 1 /\ lo \in cur.lo .. at
          /\ lo \in 1 .. Len(text) + 1 /\ hi \in 0 .. Len(text)
      BY <1>lines, <1>6, <2>1
    <2>3. cur' = Run(Carried.lo, at) /\ at' = at + 1
      BY <1>1
    <2>4. QED
      BY <1>6, <2>1, <2>2, <2>3
  <1>8. /\ Size(Run(lo, k)) = U[k] - U[lo - 1] - 1
        /\ SizeOf(text, Run(lo, k)) = U[k] - U[lo - 1] - 1
        /\ SizeOf(text, Run(lo, hi)) = U[hi] - U[lo - 1] - 1
        /\ U[k] \in Int /\ U[hi] \in Int /\ U[lo - 1] \in Int
        /\ U[lo - 1] <= U[hi] /\ U[hi] = U[k] + text[at] + 1
    <2>0. text \in Documents
      BY <1>2
    <2>1. /\ Size(Run(lo, k)) = U[k] - U[lo - 1] - 1
          /\ SizeOf(text, Run(lo, k)) = U[k] - U[lo - 1] - 1
          /\ U[k] \in Int /\ U[lo - 1] \in Int
      BY <2>0, <1>7, SizeIs
    <2>2. /\ SizeOf(text, Run(lo, hi)) = U[hi] - U[lo - 1] - 1
          /\ U[hi] \in Int
          /\ lo <= hi + 1 => U[lo - 1] <= U[hi]
      BY <2>0, <1>7, SizeIs
    <2>3. lo <= hi + 1
      BY <1>6, <1>7
    <2>4. U[hi] = U[k] + text[at] + 1
      BY <1>4, <1>6
    <2>5. QED
      BY <2>1, <2>2, <2>3, <2>4
  <1> HIDE DEF U
  <1>9. cur_len' = SizeOf(text, Run(lo, hi)) + 1 /\ cur_len' \in Nat
    <2>1. PICK x \in Int, y \in Int, z \in Int, c \in Int :
            x = U[lo - 1] /\ y = U[k] /\ z = U[hi] /\ c = text[at]
      BY <1>4, <1>8
    <2>2. z = y + c + 1 /\ x <= z /\ SizeOf(text, Run(lo, hi)) = z - x - 1
          /\ Size(Run(lo, k)) = y - x - 1 /\ SizeOf(text, Run(lo, k)) = y - x - 1
      BY <1>8, <2>1
    <2>3. CASE IsFull
      <3>1. cur_len' = y - x - 1 + 1 + c + 1
        BY <1>1, <1>7, <2>1, <2>2, <2>3
      <3>2. QED
        BY <2>2, <3>1
    <2>4. CASE ~IsFull
      <3>1. Carried = cur
        BY <1>5, <2>4
      <3>2. cur_len' = y - x - 1 + 1 + c + 1
        BY <1>1, <1>2, <1>7, <2>1, <2>2, <2>4, <3>1
      <3>3. QED
        BY <2>2, <3>2
    <2>5. QED
      BY <2>3, <2>4
  <1>10. /\ cur'.lo = lo /\ cur'.hi = hi /\ cur' \in Runs
         /\ LinesOf(cur') = lo .. hi
    BY <1>2, <1>7 DEF Run, Runs, LinesOf
  <1>11. Places'
    <2>1. at' \in 1 .. Len(text) + 1
      BY <1>2, <1>7
    <2>2. QED
      BY <1>1, <1>9, <1>10, <2>1 DEF Inv, Places
  <1>ws. PICK ws : ws = windows'
    OBVIOUS
  \* The window before, closed now or earlier, and what may follow it.
  <1>12. /\ Cut(text, ws) /\ MayFollow(text, ws, h, Run(lo, hi))
         /\ \A i : InWindow(windows, i) => InWindow(ws, i)
         /\ IsFull => \A i \in LinesOf(cur) : InWindow(ws, i)
         /\ \A w \in DOMAIN ws :
              \/ w \in DOMAIN windows /\ ws[w] = windows[w]
              \/ ws[w].heading = h
    <2>0. Run(lo, hi).lo = lo /\ Run(lo, hi).hi = hi
      BY DEF Run
    <2>1. CASE IsFull
      <3> DEFINE zs == Append(windows, Window(cur))
      <3>1. /\ Cut(text, zs) /\ Open(zs, h) /\ zs[Len(zs)].lines = cur
            /\ \A i : InWindow(windows, i) => InWindow(zs, i)
            /\ \A i \in LinesOf(cur) : InWindow(zs, i)
            /\ \A w \in DOMAIN zs :
                 \/ w \in DOMAIN windows /\ zs[w] = windows[w]
                 \/ zs[w].heading = h
        BY <1>1, <1>5, <2>1, Closing
      <3>2. ws = zs
        BY <1>1, <1>ws, <2>1
      <3> HIDE DEF zs
      <3>3. Run(lo, k) = Run(Run(lo, hi).lo, cur.hi)
        BY <1>2, <1>6, <2>0
      <3>4. SizeOf(text, Run(Run(lo, hi).lo, cur.hi)) <= Overlap
        BY <1>5, <1>7, <1>8, <2>1, <3>3
      <3>5. /\ cur.lo <= lo /\ lo <= cur.hi + 1 /\ cur.hi < hi /\ cur.hi = hi - 1
        BY <1>2, <1>6, <1>7
      <3>6. Follows(text, cur, Run(lo, hi))
        BY <2>0, <3>4, <3>5 DEF Follows
      <3>7. MayFollow(text, zs, h, Run(lo, hi))
        BY <2>0, <3>1, <3>5, <3>6 DEF MayFollow
      <3>8. QED
        BY <3>1, <3>2, <3>7
    <2>2. CASE ~IsFull /\ at = b.lo
      <3>1. ~Open(windows, h) /\ ws = windows
        BY <1>1, <1>ws, <2>2, CuttingIs
      <3>2. lo = hi
        BY <1>2, <1>6, <1>7, <2>2
      <3>3. QED
        BY <1>2, <2>0, <2>2, <3>1, <3>2 DEF MayFollow
    <2>3. CASE ~IsFull /\ at # b.lo
      <3>1. at > b.lo /\ ws = windows /\ cur.lo = lo /\ cur.hi = k
        BY <1>ws, <1>1, <1>2, <1>5, <1>6, <2>3
      <3>2. MayFollow(text, windows, h, cur)
        BY <1>1, <3>1, CuttingIs
      <3>3. ~ (SizeOf(text, Run(lo, hi)) > MaxChars)
        <4>1. ~IsEmpty(cur)
          BY <1>2, <3>1 DEF IsEmpty
        <4>2. ~ (cur_len + text[at] + 1 > MaxChars)
          BY <2>3, <4>1 DEF IsFull
        <4>3. cur_len + text[at] + 1 = SizeOf(text, Run(lo, hi)) + 1
          BY <1>1, <1>9, <2>3
        <4>4. SizeOf(text, Run(lo, hi)) \in Int
          BY <1>8
        <4>5. QED
          BY <4>2, <4>3, <4>4, ChunkAssumption
      <3>4. ASSUME Open(windows, h)
            PROVE  Follows(text, windows[Len(windows)].lines, Run(lo, hi))
        <4> DEFINE last == windows[Len(windows)].lines
        <4>1. Follows(text, last, cur)
          BY <3>2, <3>4 DEF MayFollow
        <4>2. last \in Runs
          <5>1. windows \in Seq(WindowSet(text)) /\ windows # <<>>
            BY <1>2, <3>4 DEF Cut, Open
          <5>2. windows[Len(windows)] \in WindowSet(text)
            BY <5>1, LenProperties, EmptySeq, ElementOfSeq
          <5>3. QED
            BY <5>2 DEF WindowSet
        <4> HIDE DEF last
        <4>3. last.hi < hi
          BY <1>7, <3>1, <4>1, <4>2 DEF Follows, Runs
        <4>4. QED
          BY <2>0, <3>1, <4>1, <4>3 DEF Follows, last
      <3>5. QED
        BY <1>2, <2>3, <3>1, <3>3, <3>4 DEF MayFollow
    <2>4. QED
      BY <2>1, <2>2, <2>3
  <1>13. Cutting'
    <2>1. ASSUME NEW i \in b.lo .. hi
          PROVE  i \in lo .. hi \/ InWindow(ws, i)
      <3>1. i = hi \/ i \in b.lo .. at - 1
        BY <1>2, <1>6
      <3>2. CASE i = hi
        BY <1>7, <3>2
      <3>3. CASE i \in b.lo .. at - 1 /\ IsFull
        BY <1>2, <1>12, <3>3
      <3>4. CASE i \in b.lo .. at - 1 /\ ~IsFull
        <4>1. cur.lo = lo
          BY <1>5, <1>6, <3>4
        <4>2. i \in cur.lo .. at - 1 => i \in lo .. hi
          BY <1>2, <1>6, <4>1
        <4>3. QED
          BY <1>2, <1>12, <3>4, <4>2
      <3>5. QED
        BY <3>1, <3>2, <3>3, <3>4
    <2>2. /\ b.lo <= b.hi /\ hi + 1 \in b.lo .. b.hi + 1 /\ lo \in b.lo .. hi + 1
          /\ lo < hi + 1 /\ hi = hi + 1 - 1 /\ hi + 1 # b.lo
      <3>1. /\ b.lo \in Int /\ b.hi \in Int /\ cur.lo \in Int
            /\ b.lo <= b.hi /\ b.lo <= cur.lo /\ b.lo <= hi /\ hi <= b.hi
            /\ cur.lo <= lo /\ lo <= hi
            /\ lo \in Int /\ hi \in Int
        BY <1>lines, <1>6, <1>7
      <3> HIDE DEF b
      <3>2. b.lo <= lo /\ b.lo < hi + 1
        BY <3>1
      <3>3. QED
        BY <3>1, <3>2
    <2>3. /\ pc' = "window" /\ sections' = sections /\ text' = text
          /\ cur' = Run(lo, hi) /\ cur_len' = SizeOf(text, Run(lo, hi)) + 1
          /\ at' = hi + 1
      BY <1>1, <1>7, <1>9
    <2>4. QED
      BY <1>ws, <1>2, <1>10, <1>12, <2>1, <2>2, <2>3 DEF Cutting
  <1>14. InOrder'
    <2>1. ASSUME NEW w \in DOMAIN ws, NEW s \in DOMAIN sections
          PROVE  \/ ws[w].heading < sections[s].heading
                 \/ s = 1 /\ ws[w].heading = sections[s].heading
      <3>1. CASE w \in DOMAIN windows /\ ws[w] = windows[w]
        BY <1>1, <3>1 DEF Inv, InOrder
      <3>2. CASE ws[w].heading = h
        <4>1. Filed(text, sections) /\ DOMAIN sections = 1 .. Len(sections)
              /\ Len(sections) \in Nat \ {0}
          BY <1>2, Divided DEF Inv, Filed
        <4>2. s = 1 \/ 1 < s
          BY <4>1
        <4>3. 1 < s => h < sections[s].heading
          BY <4>1 DEF Filed
        <4>4. QED
          BY <3>2, <4>2, <4>3
      <3>3. QED
        BY <1>12, <3>1, <3>2
    <2>2. QED
      BY <1>ws, <1>1, <2>1 DEF InOrder
  <1>15. Covered'
    BY <1>ws, <1>1, <1>12 DEF Inv, Covered
  <1>16. QED
    BY <1>ws, <1>1, <1>11, <1>12, <1>13, <1>14, <1>15 DEF Inv, Splitting

-----------------------------------------------------------------------------
(* The theorems.                                                           *)

LEMMA NextInv == Inv /\ [Next]_vars => Inv'
  <1> SUFFICES ASSUME Inv, [Next]_vars PROVE Inv'
    OBVIOUS
  <1>1. CASE ReadHeading
    BY <1>1, ReadHeadingInv
  <1>2. CASE ReadText
    BY <1>2, ReadTextInv
  <1>3. CASE EndOfText
    BY <1>3, EndOfTextInv
  <1>4. CASE OpenSection
    BY <1>4, OpenSectionInv
  <1>5. CASE AddLine
    BY <1>5, AddLineInv
  <1>6. CASE EndSection
    BY <1>6, EndSectionInv
  <1>7. CASE UNCHANGED vars
    BY <1>7 DEF vars, Inv, Places, Splitting, InOrder, Cutting, Covered
  <1>8. QED
    BY <1>1, <1>2, <1>3, <1>4, <1>5, <1>6, <1>7 DEF Next

\* The inductive invariant: sections are found and cut in the order of their
\* headings, and a line read is in one of them or in a window.
THEOREM InvHolds == Spec => []Inv
  <1>1. QED
    BY InitInv, NextInv, PTL DEF Spec

\* The document, the intervals and the lists have their types.
THEOREM TypeCorrect == Spec => []TypeOK
  <1>1. Inv => TypeOK
    BY DEF Inv, Places, Filed, Cut, SectionSet, WindowSet, TypeOK
  <1>2. QED
    BY <1>1, InvHolds, PTL

\* No line of text is lost or cited under a heading that is not its own, for
\* every document, window length and overlap.
THEOREM NothingIsLost == Spec => []NothingLost
  <1>1. Inv => NothingLost
    <2> SUFFICES ASSUME Inv PROVE NothingLost
      OBVIOUS
    <2>1. text \in Documents /\ Cut(text, windows) /\ DOMAIN text = 1 .. Len(text)
          /\ Len(text) \in Nat
      BY TextIs DEF Inv, Places
    <2>2. ASSUME NEW w \in DOMAIN windows, NEW i \in LinesOf(windows[w].lines)
          PROVE  text[i] # Heading /\ HeadingOf(i) = windows[w].heading
      <3>1. Under(text, windows[w].heading, i)
        BY <2>1 DEF Cut, Within
      <3>2. PICK h : h = windows[w].heading
        OBVIOUS
      <3>3. QED
        BY <2>1, <3>1, <3>2, HeadingIs DEF Under
    <2>3. ASSUME Finished, NEW i \in DOMAIN text, text[i] > 0
          PROVE  \E w \in DOMAIN windows : i \in LinesOf(windows[w].lines)
      <3>1. pc # "split" /\ DOMAIN sections = {}
        BY <2>3, EmptySeq, LenProperties DEF Finished
      <3>2. InWindow(windows, i)
        BY <2>1, <2>3, <3>1 DEF Inv, Covered, InSection
      <3>3. QED
        BY <3>2 DEF InWindow
    <2>4. QED
      BY <2>2, <2>3 DEF NothingLost
  <1>2. QED
    BY <1>1, InvHolds, PTL

\* Windows follow one another: no gap, something new, a bounded repetition.
THEOREM WindowsDoFollow == Spec => []WindowsFollow
  <1>1. Inv => WindowsFollow
    BY DEF Inv, Cut, WindowsFollow, Continued, Follows, Size, SizeOf
  <1>2. QED
    BY <1>1, InvHolds, PTL

\* A window is longer than max_chars for its last line only, before which it
\* has nothing but what it repeats, within the overlap.
THEOREM WindowsAreBounded == Spec => []SizeBounded
  <1>1. Inv => SizeBounded
    <2> SUFFICES ASSUME Inv, NEW w \in DOMAIN windows,
                        Size(windows[w].lines) > MaxChars,
                        windows[w].lines.lo # windows[w].lines.hi
                 PROVE  /\ w > 1 /\ Continued(w - 1)
                        /\ windows[w - 1].lines.hi = windows[w].lines.hi - 1
                        /\ Size(Run(windows[w].lines.lo, windows[w].lines.hi - 1))
                              <= Overlap
      BY DEF SizeBounded, Run
    <2>1. Cut(text, windows) /\ SizeOf(text, windows[w].lines) > MaxChars
      BY DEF Inv, Size, SizeOf
    <2>2. /\ w > 1 /\ windows[w - 1].heading = windows[w].heading
          /\ windows[w - 1].lines.hi = windows[w].lines.hi - 1
      BY <2>1 DEF Cut
    <2>3. w \in Int /\ w \in 1 .. Len(windows) /\ Len(windows) \in Nat
      BY <2>1, LenProperties DEF Cut
    <2>4. (w - 1) + 1 = w /\ w - 1 \in DOMAIN windows
      BY <2>1, <2>2, <2>3, LenProperties DEF Cut
    <2>5. Follows(text, windows[w - 1].lines, windows[w].lines)
      BY <2>1, <2>2, <2>4 DEF Cut
    <2>6. QED
      BY <2>2, <2>4, <2>5 DEF Continued, Follows, Size, SizeOf
  <1>2. QED
    BY <1>1, InvHolds, PTL
=============================================================================
