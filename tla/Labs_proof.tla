------------------------------ MODULE Labs_proof ------------------------------
(***************************************************************************)
(* The programs of lab_1 to lab_7, each for any values of its constants,    *)
(* with every failure.  One part for each program: its invariant, that it   *)
(* holds at the beginning and through every step, and what follows from it. *)
(* The last part puts them together.                                       *)
(***************************************************************************)
EXTENDS Labs, PollServer_proof, FiniteSetTheorems

-----------------------------------------------------------------------------
(* Filter: the lines chosen from a file, and their order *)

\* One step of Chosen, and g follows it as far as n.
ChosenAt(g, s, W, i) ==
  IF i = 0 THEN <<>>
  ELSE IF s[i] \in W THEN Append(g[i - 1], s[i]) ELSE g[i - 1]
Follows(g, s, W, n) == g = [i \in 0..n |-> ChosenAt(g, s, W, i)]

\* A set of numbers that holds with each number the next, and 0, holds all.
LEMMA NoLeast ==
  ASSUME NEW T \in SUBSET Nat, T # {}
  PROVE  \E n \in T : \A m \in T : n <= m
<1> DEFINE R == {p \in Nat \X Nat : p[1] < p[2]}
<1>1. PICK x \in T : \A y \in T : ~ (<<y, x>> \in R)
  BY NatLessThanWellFounded, WFMin DEF OpToRel
<1>2. ASSUME NEW y \in T PROVE x <= y
  <2>1. x \in Nat /\ y \in Nat /\ ~ (<<y, x>> \in R)
    BY <1>1
  <2>2. y < x => <<y, x>> \in R
    BY <2>1
  <2> QED
    BY <2>1, <2>2
<1> QED
  BY <1>2

\* The function exists for each length.
LEMMA FollowsExists ==
  ASSUME NEW s, NEW W, NEW n \in Nat
  PROVE  \E g : Follows(g, s, W, n)
<1> DEFINE T == {m \in Nat : ~ \E g : Follows(g, s, W, m)}
<1>1. SUFFICES ASSUME T # {} PROVE FALSE
  OBVIOUS
<1>2. PICK m \in T : \A k \in T : m <= k
  <2> HIDE DEF T
  <2>1. T \in SUBSET Nat
    BY DEF T
  <2> QED
    BY <1>1, <2>1, NoLeast
<1>3. CASE m = 0
  <2> DEFINE g == [i \in 0..0 |-> <<>>]
  <2>1. Follows(g, s, W, 0)
    BY DEF Follows, ChosenAt
  <2> QED
    BY <1>2, <1>3, <2>1
<1>4. CASE m # 0
  <2>1. m - 1 \in Nat /\ ~ (m - 1 \in T)
    BY <1>2, <1>4
  <2>2. PICK h : Follows(h, s, W, m - 1)
    BY <2>1
  <2> DEFINE g == [i \in 0..m |-> IF i = m THEN ChosenAt(h, s, W, m) ELSE h[i]]
  <2>3. m \in Nat
    BY <1>2
  <2>4. \A i \in 0..m : g[i] = ChosenAt(g, s, W, i)
    <3>1. TAKE i \in 0..m
    <3>2. \A j \in 0..(m - 1) : h[j] = ChosenAt(h, s, W, j) /\ g[j] = h[j]
      BY <2>2, <2>3 DEF Follows
    <3>3. g[m] = ChosenAt(h, s, W, m)
      BY <2>3
    <3>4. CASE i = 0
      <4>1. 0 \in 0..(m - 1) /\ 0 # m
        BY <1>4, <2>3
      <4>2. h[0] = <<>> /\ g[0] = h[0]
        BY <4>1, <3>2 DEF ChosenAt
      <4> QED
        BY <3>4, <4>2 DEF ChosenAt
    <3>5. CASE i # 0
      <4>1. i - 1 \in 0..(m - 1) /\ g[i - 1] = h[i - 1]
        BY <3>1, <3>2, <3>5, <2>3
      <4>2. ChosenAt(g, s, W, i) = ChosenAt(h, s, W, i)
        BY <4>1, <3>5 DEF ChosenAt
      <4>3. i # m => i \in 0..(m - 1)
        BY <3>1, <2>3
      <4> QED
        BY <4>2, <4>3, <3>2, <3>3
    <3> QED
      BY <3>4, <3>5
  <2>5. Follows(g, s, W, m)
    <3>1. g = [i \in 0..m |-> g[i]]
      OBVIOUS
    <3> HIDE DEF g
    <3> QED
      BY <2>4, <3>1 DEF Follows
  <2> QED
    BY <1>2, <2>5
<1> QED
  BY <1>3, <1>4

\* And it is the one that Chosen takes.
LEMMA ChosenIs ==
  ASSUME NEW s, NEW W, Len(s) \in Nat
  PROVE  \E g : Follows(g, s, W, Len(s)) /\ Chosen(s, W) = g[Len(s)]
<1> DEFINE u == CHOOSE f : f = [i \in 0..Len(s) |->
                  IF i = 0 THEN <<>>
                  ELSE IF s[i] \in W THEN Append(f[i - 1], s[i]) ELSE f[i - 1]]
<1>1. \E f : f = [i \in 0..Len(s) |->
                  IF i = 0 THEN <<>>
                  ELSE IF s[i] \in W THEN Append(f[i - 1], s[i]) ELSE f[i - 1]]
  <2>1. PICK f : Follows(f, s, W, Len(s))
    BY FollowsExists
  <2>2. f = [i \in 0..Len(s) |->
                  IF i = 0 THEN <<>>
                  ELSE IF s[i] \in W THEN Append(f[i - 1], s[i]) ELSE f[i - 1]]
    BY <2>1, Zenon DEF Follows, ChosenAt
  <2> QED
    BY <2>2, Zenon
<1>2. u = [i \in 0..Len(s) |->
                  IF i = 0 THEN <<>>
                  ELSE IF s[i] \in W THEN Append(u[i - 1], s[i]) ELSE u[i - 1]]
  BY <1>1
<1>3. Chosen(s, W) = u[Len(s)]
  BY DEF Chosen
<1> HIDE DEF u
<1> QED
  BY <1>2, <1>3 DEF Follows, ChosenAt
\* Functions that follow sequences agree as far as the sequences do.
LEMMA FollowersAgree ==
  ASSUME NEW s, NEW t, NEW W, NEW n \in Nat, NEW m \in Nat, n <= m,
         NEW g, NEW h, Follows(g, s, W, n), Follows(h, t, W, m),
         \A i \in 1..n : s[i] = t[i]
  PROVE  g[n] = h[n]
<1> DEFINE T == {i \in 0..n : g[i] # h[i]}
<1>1. SUFFICES ASSUME T # {} PROVE FALSE
  BY n \in 0..n
<1>2. PICK i \in T : \A k \in T : i <= k
  <2>1. T \in SUBSET Nat
    OBVIOUS
  <2> HIDE DEF T
  <2> QED
    BY <1>1, <2>1, NoLeast
<1>3. i \in 0..n /\ i \in 0..m
  BY <1>2
<1>4. g[i] = ChosenAt(g, s, W, i) /\ h[i] = ChosenAt(h, t, W, i)
  BY <1>3 DEF Follows
<1>5. i # 0 => i - 1 \in 0..n /\ g[i - 1] = h[i - 1] /\ s[i] = t[i]
  BY <1>2, <1>3
<1> QED
  BY <1>2, <1>4, <1>5 DEF ChosenAt

LEMMA ChosenNone == ASSUME NEW W PROVE Chosen(<<>>, W) = <<>>
<1>1. PICK g : Follows(g, <<>>, W, Len(<<>>)) /\ Chosen(<<>>, W) = g[Len(<<>>)]
  BY ChosenIs, Len(<<>>) = 0
<1>2. g[0] = ChosenAt(g, <<>>, W, 0)
  BY <1>1, Len(<<>>) = 0, 0 \in 0..0 DEF Follows
<1> QED
  BY <1>1, <1>2, Len(<<>>) = 0 DEF ChosenAt

LEMMA ChosenAppend ==
  ASSUME NEW S, NEW s \in Seq(S), NEW e \in S, NEW W
  PROVE  Chosen(Append(s, e), W)
           = IF e \in W THEN Append(Chosen(s, W), e) ELSE Chosen(s, W)
<1> DEFINE t == Append(s, e)
           n == Len(s)
<1>1. n \in Nat /\ Len(t) = n + 1 /\ t[n + 1] = e /\ \A i \in 1..n : s[i] = t[i]
  OBVIOUS
<1> HIDE DEF t, n
<1>2. PICK g : Follows(g, s, W, n) /\ Chosen(s, W) = g[n]
  BY <1>1, ChosenIs DEF n
<1>3. PICK h : Follows(h, t, W, n + 1) /\ Chosen(t, W) = h[n + 1]
  BY <1>1, ChosenIs
<1>4. g[n] = h[n]
  BY <1>1, <1>2, <1>3, FollowersAgree
<1>5. h[n + 1] = ChosenAt(h, t, W, n + 1)
  BY <1>1, <1>3 DEF Follows
<1>6. n + 1 # 0 /\ (n + 1) - 1 = n
  BY <1>1
<1> QED
  BY <1>1, <1>2, <1>3, <1>4, <1>5, <1>6 DEF ChosenAt, t

\* What a filter lets through is a part of what it was given.
LEMMA ChosenType ==
  ASSUME NEW S, NEW s \in Seq(S), NEW W
  PROVE  Chosen(s, W) \in Seq(S) /\ Len(Chosen(s, W)) <= Len(s)
<1> DEFINE n == Len(s)
<1>1. n \in Nat /\ \A i \in 1..n : s[i] \in S
  OBVIOUS
<1> HIDE DEF n
<1>2. PICK g : Follows(g, s, W, n) /\ Chosen(s, W) = g[n]
  BY <1>1, ChosenIs DEF n
<1> DEFINE T == {i \in 0..n : ~ (g[i] \in Seq(S) /\ Len(g[i]) <= i)}
<1>3. ASSUME T # {} PROVE FALSE
  <2>1. PICK i \in T : \A k \in T : i <= k
    <3>1. T \in SUBSET Nat
      BY <1>1
    <3> HIDE DEF T
    <3> QED
      BY <1>3, <3>1, NoLeast
  <2>2. i \in 0..n /\ g[i] = ChosenAt(g, s, W, i)
    BY <1>1, <1>2, <2>1 DEF Follows
  <2>3. CASE i = 0
    BY <2>1, <2>2, <2>3, Len(<<>>) = 0, <<>> \in Seq(S) DEF ChosenAt
  <2>4. CASE i # 0
    <3>1. i - 1 \in 0..n /\ g[i - 1] \in Seq(S) /\ Len(g[i - 1]) <= i - 1
      BY <1>1, <2>1, <2>2, <2>4
    <3>2. s[i] \in S
      BY <1>1, <2>2, <2>4
    <3>3. Append(g[i - 1], s[i]) \in Seq(S) /\ Len(Append(g[i - 1], s[i])) <= i
      BY <1>1, <2>2, <3>1, <3>2
    <3>4. Len(g[i - 1]) \in Nat /\ i \in Nat
      BY <2>2, <3>1, <1>1
    <3>5. g[i] = IF s[i] \in W THEN Append(g[i - 1], s[i]) ELSE g[i - 1]
      BY <2>2, <2>4 DEF ChosenAt
    <3>6. g[i] \in Seq(S) /\ Len(g[i]) <= i
      BY <3>1, <3>3, <3>4, <3>5
    <3> QED
      BY <2>1, <3>6
  <2> QED
    BY <2>3, <2>4
<1>4. n \in 0..n /\ ~ (n \in T)
  BY <1>1, <1>3
<1>5. g[n] \in Seq(S) /\ Len(g[n]) <= n
  BY <1>4
<1> QED
  BY <1>2, <1>5 DEF n

LEMMA AppendConcat ==
  ASSUME NEW S, NEW a \in Seq(S), NEW b \in Seq(S), NEW e \in S
  PROVE  a \o Append(b, e) = Append(a \o b, e)
<1> DEFINE w == <<e>>
<1>1. w \in Seq(S) /\ a \o b \in Seq(S) /\ Append(b, e) = b \o w
  OBVIOUS
<1>2. Append(a \o b, e) = (a \o b) \o w
  BY <1>1, AppendIsConcat
<1> HIDE DEF w
<1> QED
  BY <1>1, <1>2, ConcatAssociative

\* Filtering what is put together is putting together what is filtered.
LEMMA ChosenConcat ==
  ASSUME NEW S, NEW s \in Seq(S), NEW t \in Seq(S), NEW W
  PROVE  Chosen(s \o t, W) = Chosen(s, W) \o Chosen(t, W)
<1> DEFINE P(i) == SubSeq(t, 1, i)
           T == {i \in 0..Len(t) : Chosen(s \o P(i), W) # Chosen(s, W) \o Chosen(P(i), W)}
<1>1. ASSUME T # {} PROVE FALSE
  <2>1. PICK i \in T : \A k \in T : i <= k
    <3>1. T \in SUBSET Nat
      OBVIOUS
    <3> HIDE DEF T
    <3> QED
      BY <1>1, <3>1, NoLeast
  <2>2. i \in 0..Len(t) /\ Chosen(s \o P(i), W) # Chosen(s, W) \o Chosen(P(i), W)
    BY <2>1
  <2>3. CASE i = 0
    <3>1. P(0) = <<>> /\ s \o <<>> = s
      OBVIOUS
    <3>2. Chosen(s, W) \o <<>> = Chosen(s, W)
      BY ChosenType
    <3> QED
      BY <2>2, <2>3, <3>1, <3>2, ChosenNone
  <2>4. CASE i # 0
    <3>1. /\ i - 1 \in 0..Len(t)
          /\ Chosen(s \o P(i - 1), W) = Chosen(s, W) \o Chosen(P(i - 1), W)
      BY <2>1, <2>2, <2>4
    <3>2. t[i] \in S /\ P(i - 1) \in Seq(S) /\ P(i) = Append(P(i - 1), t[i])
      BY <2>2, <2>4
    <3>3. s \o P(i - 1) \in Seq(S) /\ s \o P(i) = Append(s \o P(i - 1), t[i])
      BY <3>2
    <3> DEFINE u == P(i - 1)
               v == s \o P(i - 1)
               a == Chosen(s, W)
               b == Chosen(u, W)
               e == t[i]
    <3> HIDE DEF P, u, v, a, b, e
    <3>4. u \in Seq(S) /\ v \in Seq(S) /\ e \in S /\ s \in Seq(S)
      BY <3>2, <3>3 DEF u, v, e
    <3>5. a \in Seq(S) /\ b \in Seq(S)
      BY <3>4, ChosenType DEF a, b
    <3>6. Chosen(Append(u, e), W) = IF e \in W THEN Append(Chosen(u, W), e) ELSE Chosen(u, W)
      BY <3>4, ChosenAppend
    <3>7. Chosen(Append(v, e), W) = IF e \in W THEN Append(Chosen(v, W), e) ELSE Chosen(v, W)
      BY <3>4, ChosenAppend
    <3>8. a \o Append(b, e) = Append(a \o b, e)
      BY <3>4, <3>5, AppendConcat
    <3>9. P(i) = Append(u, e) /\ s \o P(i) = Append(v, e) /\ Chosen(v, W) = a \o b
      BY <3>1, <3>2, <3>3 DEF u, v, a, b, e
    <3> QED
      BY <2>2, <3>6, <3>7, <3>8, <3>9 DEF a, b
  <2> QED
    BY <2>3, <2>4
<1>2. Len(t) \in 0..Len(t) /\ P(Len(t)) = t
  OBVIOUS
<1>3. T = {}
  BY <1>1
<1> HIDE DEF P
<1>4. Chosen(s \o P(Len(t)), W) = Chosen(s, W) \o Chosen(P(Len(t)), W)
  BY <1>2, <1>3
<1> QED
  BY <1>2, <1>4

\* The first line of q has been taken out.
LEMMA ChosenTail ==
  ASSUME NEW S, NEW q \in Seq(S), q # <<>>, NEW W
  PROVE  Chosen(q, W) = (IF Head(q) \in W THEN <<Head(q)>> ELSE <<>>) \o Chosen(Tail(q), W)
<1> DEFINE h == <<Head(q)>>
           r == Tail(q)
           x == Head(q)
           none == <<>>
<1>1. h \in Seq(S) /\ r \in Seq(S) /\ x \in S /\ none \in Seq(S)
  OBVIOUS
<1>2. q = h \o r /\ Append(none, x) = h
  OBVIOUS
<1> HIDE DEF h, r, x, none
<1>3. Chosen(h \o r, W) = Chosen(h, W) \o Chosen(r, W)
  BY <1>1, ChosenConcat
<1>4. Chosen(Append(none, x), W) = IF x \in W THEN Append(Chosen(none, W), x) ELSE Chosen(none, W)
  BY <1>1, ChosenAppend
<1>5. Chosen(none, W) = none
  BY ChosenNone DEF none
<1>6. Chosen(q, W) = (IF x \in W THEN h ELSE none) \o Chosen(r, W)
  BY <1>2, <1>3, <1>4, <1>5
<1> QED
  BY <1>6 DEF h, r, x, none

-----------------------------------------------------------------------------
(* cat_grep: cat, grep and the two files *)

Line2 == {"include", "other"}
Choice(s) == Chosen(s, {"include"})
Cut == fiu3 \in {"copy", "gone"}
Written == IF Cut THEN prog ELSE <<>>

CTyped == /\ CatGrepTypeOK
          /\ {t_f1, f1_f2, prog, old, found} \subseteq Seq(Line2)

\* Where the processes are, as far as one tells of another; and how an open()
\* that failed keeps everybody from the file.
COrder == /\ shell = "fork3" => fiu3 = "none" /\ failed = "none"
          /\ shell \in {"fork3", "fork2"} => fiu2 = "none"
          /\ shell \in {"fork3", "fork2", "fork1"} => fiu1 = "none" /\ failed \in {"none", "open"}
          /\ shell = "fork2" => fiu3 # "none"
          /\ shell = "fork1" => fiu2 # "none"
          /\ fiu3 = "none" => fiu2 = "none"
          /\ fiu2 = "none" => fiu1 = "none"
          /\ shell \in {"wait2", "unlinked"} => fiu1 = "gone"
          /\ shell = "unlinked" => fiu2 = "gone"
          /\ failed # "open" => /\ fiu1 \in {"none", "open"} => fiu2 \in {"none", "open"}
                                /\ fiu2 \in {"none", "open", "opened"} => fiu3 \in {"none", "open"}
                                /\ fiu2 \in {"grep", "gone"} => fiu3 \in {"opened", "copy", "gone"}
                                /\ fiu3 = "gone" /\ failed # "exec" => fiu2 = "gone"
          /\ failed = "open" => /\ prog = old /\ fiu2 # "grep" /\ fiu3 \in {"open", "gone"}
                                /\ fiu3 = "open" => \/ fiu2 = "gone"
                                                    \/ fiu2 = "open" /\ fiu1 = "gone"

\* prog.c is as it was, or has no line that has not been read.
OnTheWay == Len(f1_f2) + Len(found) + Len(Choice(t_f1))
CRoom == /\ ~Cut => prog = old
         /\ OnTheWay <= offset
         /\ (fiu3 # "copy" /\ prog = old) \/ Len(prog) + OnTheWay <= offset

Sound == failed \in {"none", "fork"}
CKept == Sound =>
           Written \o f1_f2 \o found \o Choice(t_f1) = Choice(SubSeq(old, 1, offset))

CatInv == CTyped /\ COrder /\ CRoom /\ CKept

LEMMA CatBegins ==
  ASSUME NEW r \in BOOLEAN, CatGrepStart(r)
  PROVE  CatInv
<1>1. {"include", "other"} = Line2 /\ <<>> \in Seq(Line2) /\ Len(<<>>) = 0
  BY DEF Line2
<1>2. prog \in Seq(Line2)
  BY CatGrepAssumption, <1>1 DEF CatGrepStart
<1>3. CTyped
  BY <1>1, <1>2 DEF CTyped, CatGrepTypeOK, CatGrepStart
<1>4. COrder
  BY DEF COrder, CatGrepStart
<1>5. Written = <<>> /\ t_f1 = <<>> /\ f1_f2 = <<>> /\ found = <<>> /\ offset = 0 /\ old = prog
  BY DEF CatGrepStart, Written, Cut
<1>6. Choice(<<>>) = <<>>
  BY ChosenNone DEF Choice
<1>7. CRoom
  BY <1>1, <1>5, <1>6 DEF CRoom, OnTheWay, CatGrepStart
<1>8. SubSeq(prog, 1, 0) = <<>> /\ <<>> \o <<>> = <<>>
  BY <1>2
<1>9. CKept
  BY <1>5, <1>6, <1>8 DEF CKept, Sound
<1> QED
  BY <1>3, <1>4, <1>7, <1>9 DEF CatInv

\* Nothing is read, passed on or written.
LEMMA CatStays ==
  ASSUME CatInv, UNCHANGED <<t_f1, f1_f2, prog, old, offset, found>>,
         CatGrepTypeOK', COrder', Cut' <=> Cut, fiu3' = "copy" => fiu3 = "copy",
         Sound' => Sound
  PROVE  CatInv'
<1>1. Written' = Written /\ Choice(t_f1)' = Choice(t_f1)
  BY DEF Written, Cut, Choice
<1>2. CTyped' /\ CRoom' /\ CKept'
  BY <1>1 DEF CatInv, CTyped, CRoom, CKept, Sound, Choice, OnTheWay
<1> QED
  BY <1>2 DEF CatInv

LEMMA CatControl ==
  ASSUME CatInv, ShellForks \/ ShellWaits \/ OpenT_F1 \/ OpenF1_F2
  PROVE  CatInv'
<1>1. UNCHANGED <<t_f1, f1_f2, prog, old, offset, found>> /\ failed' \in {failed, "fork"}
  BY DEF ShellForks, ShellWaits, OpenT_F1, OpenF1_F2
<1>2. /\ CatGrepTypeOK' /\ COrder' /\ (Cut' <=> Cut)
      /\ fiu3' = "copy" => fiu3 = "copy"
      /\ Sound' => Sound
  <2>1. CASE ShellForks
    <3>1. \A s \in {"fork3", "fork2", "fork1"} : s # "wait2" /\ s # "unlinked"
      OBVIOUS
    <3>2. failed \in {"none", "fork", "open", "exec"}
      BY DEF CatInv, CTyped, CatGrepTypeOK
    <3>3. CASE shell' = "failed"
      BY <2>1, <3>3 DEF CatInv, CTyped, CatGrepTypeOK, COrder, Cut, Sound, ShellForks
    <3>4. CASE shell = "fork3" /\ shell' = "fork2"
      BY <2>1, <3>4 DEF CatInv, CTyped, CatGrepTypeOK, COrder, Cut, Sound, ShellForks
    <3>5. CASE shell = "fork2" /\ shell' = "fork1"
      BY <2>1, <3>5 DEF CatInv, CTyped, CatGrepTypeOK, COrder, Cut, Sound, ShellForks
    <3>6. CASE shell = "fork1" /\ shell' = "wait1"
      BY <2>1, <3>6 DEF CatInv, CTyped, CatGrepTypeOK, COrder, Cut, Sound, ShellForks
    <3> QED
      BY <2>1, <3>3, <3>4, <3>5, <3>6 DEF ShellForks
  <2>2. CASE ShellWaits
    BY <2>2 DEF CatInv, CTyped, CatGrepTypeOK, COrder, Cut, Sound, ShellWaits
  <2>3. CASE OpenT_F1
    BY <2>3 DEF CatInv, CTyped, CatGrepTypeOK, COrder, Cut, Sound, OpenT_F1
  <2>4. CASE OpenF1_F2
    BY <2>4 DEF CatInv, CTyped, CatGrepTypeOK, COrder, Cut, Sound, OpenF1_F2
  <2> QED
    BY <2>1, <2>2, <2>3, <2>4
<1> QED
  BY <1>1, <1>2, CatStays

LEMMA CatExecFails ==
  ASSUME CatInv, ExecFails
  PROVE  CatInv'
<1>1. /\ UNCHANGED <<t_f1, f1_f2, prog, old, offset, found>>
      /\ CatGrepTypeOK' /\ COrder' /\ failed' = "exec"
  BY DEF CatInv, CTyped, CatGrepTypeOK, COrder, ExecFails
<1>2. CTyped' /\ CKept'
  BY <1>1 DEF CatInv, CTyped, CKept, Sound
<1>3. Choice(t_f1)' = Choice(t_f1) /\ OnTheWay' = OnTheWay
  BY <1>1 DEF Choice, OnTheWay
<1>4. CRoom'
  BY <1>1, <1>3 DEF CatInv, CRoom, Cut, ExecFails
<1> QED
  BY <1>1, <1>2, <1>4 DEF CatInv
LEMMA CatOpenFails ==
  ASSUME CatInv, OpenFails
  PROVE  CatInv'
<1>1. /\ UNCHANGED <<shell, t_f1, f1_f2, prog, old, offset, found>>
      /\ failed = "none" /\ failed' = "open"
      /\ ~Cut /\ prog = old
  BY DEF CatInv, COrder, CRoom, Cut, OpenFails
<1>2. CatGrepTypeOK'
  BY <1>1 DEF CatInv, CTyped, CatGrepTypeOK, OpenFails
<1>3. COrder'
  BY <1>1 DEF CatInv, CTyped, CatGrepTypeOK, COrder, OpenFails
<1>4. CTyped' /\ CKept'
  BY <1>1, <1>2 DEF CatInv, CTyped, CKept, Sound
<1>5. Choice(t_f1)' = Choice(t_f1) /\ OnTheWay' = OnTheWay
  BY <1>1 DEF Choice, OnTheWay
<1>6. CRoom'
  BY <1>1, <1>5 DEF CatInv, CRoom, Cut, OpenFails
<1> QED
  BY <1>3, <1>4, <1>6 DEF CatInv

\* Sequences of lines put together.
LEMMA LinesJoined ==
  ASSUME NEW a \in Seq(Line2), NEW b \in Seq(Line2)
  PROVE  /\ a \o b \in Seq(Line2) /\ Len(a \o b) = Len(a) + Len(b)
         /\ Len(a) \in Nat /\ Len(b) \in Nat
         /\ a \o <<>> = a /\ <<>> \o a = a
  OBVIOUS

LEMMA LinesTied ==
  ASSUME NEW a \in Seq(Line2), NEW b \in Seq(Line2), NEW c \in Seq(Line2)
  PROVE  (a \o b) \o c = a \o (b \o c)
BY ConcatAssociative

LEMMA ChoiceType ==
  ASSUME NEW s \in Seq(Line2)
  PROVE  Choice(s) \in Seq(Line2) /\ Len(Choice(s)) \in Nat /\ Len(Choice(s)) <= Len(s)
<1>1. Chosen(s, {"include"}) \in Seq(Line2) /\ Len(Chosen(s, {"include"})) <= Len(s)
  BY ChosenType
<1> QED
  BY <1>1 DEF Choice

LEMMA ChoiceAppend ==
  ASSUME NEW s \in Seq(Line2), NEW x \in Line2
  PROVE  Choice(Append(s, x)) = Choice(s) \o Choice(<<x>>)
<1> DEFINE w == <<x>>
<1>1. w \in Seq(Line2) /\ Append(s, x) = s \o w
  OBVIOUS
<1> HIDE DEF w
<1>2. Chosen(s \o w, {"include"}) = Chosen(s, {"include"}) \o Chosen(w, {"include"})
  BY <1>1, ChosenConcat
<1> QED
  BY <1>1, <1>2 DEF Choice, w

LEMMA CatCat ==
  ASSUME CatInv, CatReads
  PROVE  CatInv'
<1> USE DEF CatReads
<1>1. UNCHANGED <<shell, fiu2, fiu3, f1_f2, prog, old, found, failed, Cut, Written>>
  BY DEF Cut, Written
<1>2. {t_f1, f1_f2, prog, old, found, Written} \subseteq Seq(Line2)
  BY DEF CatInv, CTyped, Written
<1>3. offset \in 0..Len(old) /\ Len(prog) \in Nat /\ Len(old) \in Nat
  BY <1>2 DEF CatInv, CTyped, CatGrepTypeOK
<1>4. COrder'
  BY <1>1 DEF CatInv, COrder
<1>5. CASE UNCHANGED <<t_f1, offset>>
  <2>1. Choice(t_f1)' = Choice(t_f1) /\ OnTheWay' = OnTheWay
    BY <1>1, <1>5 DEF Choice, OnTheWay
  <2>2. CatGrepTypeOK'
    BY <1>1, <1>5 DEF CatInv, CTyped, CatGrepTypeOK
  <2> QED
    BY <1>1, <1>4, <1>5, <2>1, <2>2 DEF CatInv, CTyped, CRoom, CKept, Sound, Choice
<1>6. CASE ~UNCHANGED <<t_f1, offset>>
  <2>1. /\ offset < Len(prog) /\ t_f1' = Append(t_f1, prog[offset + 1])
        /\ offset' = offset + 1 /\ fiu1' = fiu1
    BY <1>3, <1>6
  <2> DEFINE x == prog[offset + 1]
             n == offset
  <2>2. x \in Line2
    BY <1>2, <1>3, <2>1
  <2>3. Choice(t_f1) \in Seq(Line2) /\ Len(Choice(t_f1)) \in Nat
    BY <1>2, ChoiceType
  <2>4. OnTheWay \in Nat
    BY <1>2, <2>3 DEF OnTheWay
  \* What is behind the cut has been read already.
  <2>5. prog = old
    BY <1>3, <2>1, <2>4 DEF CatInv, CRoom
  <2>6. offset' \in 0..Len(old)' /\ t_f1' \in Seq(Line2)
    BY <1>1, <1>2, <1>3, <2>1, <2>2, <2>5
  <2>7. CTyped'
    BY <1>1, <2>1, <2>6 DEF CatInv, CTyped, CatGrepTypeOK
  <2>8. Choice(t_f1') = Choice(t_f1) \o Choice(<<x>>)
    BY <1>2, <2>1, <2>2, ChoiceAppend
  <2>9. /\ <<x>> \in Seq(Line2) /\ Len(<<x>>) = 1
    BY <2>2
  <2>10. Choice(<<x>>) \in Seq(Line2) /\ Len(Choice(<<x>>)) \in Nat /\ Len(Choice(<<x>>)) <= 1
    BY <2>9, ChoiceType
  <2>11. Len(Choice(t_f1')) <= Len(Choice(t_f1)) + 1 /\ Len(Choice(t_f1')) \in Nat
    BY <2>3, <2>8, <2>10, LinesJoined
  <2>12. OnTheWay' <= OnTheWay + 1 /\ OnTheWay' \in Nat
    BY <1>1, <1>2, <2>11 DEF OnTheWay, Choice
  <2>13. CRoom'
    BY <1>1, <1>3, <2>1, <2>4, <2>5, <2>12 DEF CatInv, CRoom
  <2>14. ASSUME Sound
         PROVE  (Written \o f1_f2 \o found) \o Choice(t_f1') = Choice(SubSeq(old, 1, n + 1))
    <3> DEFINE h == Written \o f1_f2 \o found
               c == Choice(t_f1)
               d == Choice(<<x>>)
               o == SubSeq(old, 1, n)
    <3>1. h \o c = Choice(o)
      BY <2>14 DEF CatInv, CKept, Sound
    <3>2. h \in Seq(Line2)
      BY <1>2, LinesJoined
    <3>3. o \in Seq(Line2) /\ SubSeq(old, 1, n + 1) = Append(o, x)
      BY <1>2, <1>3, <2>1, <2>5
    <3>4. Choice(Append(o, x)) = Choice(o) \o d
      BY <3>3, <2>2, ChoiceAppend
    <3> HIDE DEF h, c, d, o, x
    <3>5. c \in Seq(Line2) /\ d \in Seq(Line2)
      BY <2>3, <2>10 DEF c, d, x
    <3>6. (h \o c) \o d = h \o (c \o d)
      BY <3>2, <3>5, LinesTied
    <3>7. Choice(t_f1') = c \o d
      BY <2>8 DEF c, d, x
    <3> QED
      BY <3>1, <3>3, <3>4, <3>6, <3>7 DEF h
  <2>15. CKept'
    BY <1>1, <2>1, <2>14 DEF CKept, Sound, Choice
  <2> QED
    BY <1>4, <2>7, <2>13, <2>15 DEF CatInv
<1> QED
  BY <1>5, <1>6
LEMMA CatGreps ==
  ASSUME CatInv, GrepReads
  PROVE  CatInv'
<1> USE DEF GrepReads
<1>1. UNCHANGED <<shell, fiu1, fiu2, fiu3, f1_f2, prog, old, offset, failed, Cut, Written>>
  BY DEF Cut, Written
<1>2. {t_f1, f1_f2, prog, old, found, Written} \subseteq Seq(Line2)
  BY DEF CatInv, CTyped, Written
<1> DEFINE x == Head(t_f1)
           t == Tail(t_f1)
           w == IF x = "include" THEN <<x>> ELSE <<>>
<1>3. x \in Line2 /\ t \in Seq(Line2) /\ w \in Seq(Line2) /\ t_f1' = t
  BY <1>2
<1>4. found' = found \o w
  BY <1>2, <1>3, AppendIsConcat DEF IsInclude
<1>5. Choice(t_f1) = w \o Choice(t)
  <2>1. Chosen(t_f1, {"include"}) = (IF x \in {"include"} THEN <<x>> ELSE <<>>) \o Chosen(t, {"include"})
    BY <1>2, ChosenTail
  <2> QED
    BY <2>1 DEF Choice
<1> DEFINE c == Choice(t)
           h == Written \o f1_f2
<1>6. c \in Seq(Line2) /\ Len(c) \in Nat /\ Choice(t_f1') = c
  BY <1>3, ChoiceType
<1>7. h \in Seq(Line2)
  BY <1>2, LinesJoined
<1> HIDE DEF x, t, w, c, h
<1>8. Choice(t_f1) = w \o c
  BY <1>5 DEF c
<1>9. found' \in Seq(Line2) /\ Len(found') = Len(found) + Len(w) /\ Len(found) \in Nat /\ Len(w) \in Nat
  BY <1>2, <1>3, <1>4, LinesJoined
<1>10. Len(Choice(t_f1)) = Len(w) + Len(c)
  BY <1>3, <1>6, <1>8, LinesJoined
<1>11. OnTheWay' = OnTheWay
  <2>1. Len(f1_f2) \in Nat
    BY <1>2
  <2>2. OnTheWay' = Len(f1_f2) + Len(found') + Len(c)
    BY <1>1, <1>6 DEF OnTheWay, Choice
  <2>3. OnTheWay = Len(f1_f2) + Len(found) + (Len(w) + Len(c))
    BY <1>10 DEF OnTheWay
  <2>4. OnTheWay' = Len(f1_f2) + (Len(found) + Len(w)) + Len(c)
    BY <1>9, <2>2
  <2> QED
    BY <2>1, <2>3, <2>4, <1>6, <1>9
<1>12. CTyped' /\ COrder' /\ CRoom'
  <2>1. COrder'
    BY <1>1 DEF CatInv, COrder
  <2>2. CTyped'
    BY <1>1, <1>2, <1>3, <1>9 DEF CatInv, CTyped, CatGrepTypeOK
  <2> QED
    BY <1>1, <1>11, <2>1, <2>2 DEF CatInv, CRoom
<1>13. (h \o found') \o c = (h \o found) \o Choice(t_f1)
  <2>1. h \o found' = (h \o found) \o w
    <3>1. found \in Seq(Line2)
      BY <1>2
    <3>2. w \in Seq(Line2)
      BY <1>3
    <3>3. (h \o found) \o w = h \o (found \o w)
      BY <1>7, <3>1, <3>2, LinesTied
    <3> QED
      BY <1>4, <3>3
  <2> DEFINE g == h \o found
  <2>2. g \in Seq(Line2)
    BY <1>2, <1>7, LinesJoined
  <2> HIDE DEF g
  <2>3. (g \o w) \o c = g \o (w \o c)
    BY <1>3, <1>6, <2>2, LinesTied
  <2> QED
    BY <1>8, <2>1, <2>3 DEF g
<1>14. CKept'
  <2>1. Choice(t_f1)' = c /\ Written' = Written
    BY <1>1, <1>6 DEF Choice
  <2>2. Sound => (h \o found) \o Choice(t_f1) = Choice(SubSeq(old, 1, offset))
    BY DEF CatInv, CKept, Sound, h
  <2> QED
    BY <1>1, <1>13, <2>1, <2>2 DEF CKept, Sound, h, Choice
<1> QED
  BY <1>12, <1>14 DEF CatInv

LEMMA CatGrepWrites ==
  ASSUME CatInv, GrepWrites
  PROVE  CatInv'
<1> USE DEF GrepWrites
<1>1. /\ UNCHANGED <<shell, fiu1, fiu3, t_f1, prog, old, offset, failed>> /\ found' = <<>>
      /\ Cut' = Cut /\ Written' = Written /\ Choice(t_f1)' = Choice(t_f1)
  BY DEF Cut, Written, Choice
<1>2. {t_f1, f1_f2, prog, old, found, Written} \subseteq Seq(Line2) /\ <<>> \in Seq(Line2)
  BY DEF CatInv, CTyped, Written
<1>3. Choice(t_f1) \in Seq(Line2) /\ Len(Choice(t_f1)) \in Nat
  BY <1>2, ChoiceType
<1>4. COrder' /\ CatGrepTypeOK'
  BY <1>1 DEF CatInv, COrder, CTyped, CatGrepTypeOK
<1>5. /\ f1_f2' \in Seq(Line2) /\ Len(f1_f2') + Len(found') <= Len(f1_f2) + Len(found)
      /\ Len(f1_f2') \in Nat /\ Len(f1_f2) \in Nat /\ Len(found) \in Nat
  BY <1>2
<1>6. CTyped'
  BY <1>1, <1>2, <1>4, <1>5 DEF CatInv, CTyped
<1>7. OnTheWay' <= OnTheWay /\ OnTheWay \in Nat /\ OnTheWay' \in Nat
  <2>1. Len(found') = 0
    BY <1>1
  <2> QED
    BY <1>1, <1>3, <1>5, <2>1 DEF OnTheWay
<1>8. CRoom'
  <2>1. offset \in Nat /\ Len(prog) \in Nat
    BY <1>2 DEF CatInv, CTyped, CatGrepTypeOK
  <2> QED
    BY <1>1, <1>7, <2>1 DEF CatInv, CRoom
\* Nobody is left to be written to only when something failed.
<1>9. Sound => f1_f2' = f1_f2 \o found
  BY <1>1 DEF CatInv, COrder, Sound
<1>10. ASSUME Sound
       PROVE  (Written \o f1_f2') \o found' = (Written \o f1_f2) \o found
  <2>1. (Written \o f1_f2) \o found = Written \o (f1_f2 \o found)
    <3>1. Written \in Seq(Line2) /\ f1_f2 \in Seq(Line2) /\ found \in Seq(Line2)
      BY <1>2
    <3> QED
      BY <3>1, LinesTied
  <2> DEFINE g == Written \o f1_f2'
  <2>2. g \in Seq(Line2)
    BY <1>2, <1>5, LinesJoined
  <2> HIDE DEF g
  <2>3. g \o <<>> = g
    BY <2>2, LinesJoined, <1>2
  <2>4. g = Written \o (f1_f2 \o found)
    BY <1>9, <1>10 DEF g
  <2>5. (Written \o f1_f2') \o found' = g \o <<>>
    BY <1>1 DEF g
  <2> QED
    BY <2>1, <2>3, <2>4, <2>5
<1>11. CKept'
  <2>1. Choice(SubSeq(old, 1, offset))' = Choice(SubSeq(old, 1, offset))
    BY <1>1 DEF Choice
  <2> QED
    BY <1>1, <1>10, <2>1 DEF CatInv, CKept, Sound
<1> QED
  BY <1>4, <1>6, <1>8, <1>11 DEF CatInv
LEMMA CatTruncates ==
  ASSUME CatInv, Truncate
  PROVE  CatInv'
<1> USE DEF Truncate
<1>1. /\ UNCHANGED <<shell, fiu1, fiu2, t_f1, f1_f2, old, offset, found, failed>>
      /\ fiu3 = "opened" /\ fiu3' = "copy" /\ prog' = <<>>
      /\ Written = <<>> /\ Written' = <<>> /\ Choice(t_f1)' = Choice(t_f1)
      /\ OnTheWay' = OnTheWay
  BY DEF Written, Cut, Choice, OnTheWay
<1>2. CTyped' /\ COrder'
  <2>1. <<>> \in Seq(Line2)
    OBVIOUS
  <2> QED
    BY <1>1, <2>1 DEF CatInv, CTyped, CatGrepTypeOK, COrder
<1>3. CRoom'
  <2>1. {t_f1, f1_f2, found} \subseteq Seq(Line2)
    BY DEF CatInv, CTyped
  <2>2. OnTheWay \in Nat
    BY <2>1, ChoiceType DEF OnTheWay
  <2>3. Len(prog') = 0 /\ Cut'
    BY <1>1 DEF Cut
  <2> QED
    BY <1>1, <2>2, <2>3 DEF CatInv, CRoom
<1>4. CKept'
  <2>1. Choice(SubSeq(old, 1, offset))' = Choice(SubSeq(old, 1, offset))
    BY <1>1 DEF Choice
  <2> QED
    BY <1>1, <2>1 DEF CatInv, CKept, Sound
<1> QED
  BY <1>2, <1>3, <1>4 DEF CatInv

LEMMA CatCopies ==
  ASSUME CatInv, Copies
  PROVE  CatInv'
<1> USE DEF Copies
<1>1. /\ UNCHANGED <<shell, fiu1, fiu2, t_f1, old, offset, found, failed>>
      /\ Choice(t_f1)' = Choice(t_f1) /\ fiu3 = "copy" /\ fiu3' \in {"copy", "gone"}
      /\ Written = prog /\ Written' = prog' /\ Cut /\ Cut'
  BY DEF Written, Cut, Choice
<1>2. {t_f1, f1_f2, prog, old, found} \subseteq Seq(Line2) /\ <<>> \in Seq(Line2)
  BY DEF CatInv, CTyped
<1>3. prog \in Seq(Line2) /\ f1_f2 \in Seq(Line2) /\ found \in Seq(Line2)
  BY <1>2
<1>4. /\ prog' \in Seq(Line2) /\ f1_f2' \in Seq(Line2)
      /\ prog' \o f1_f2' = prog \o f1_f2
      /\ Len(prog') + Len(f1_f2') = Len(prog) + Len(f1_f2)
      /\ {Len(prog'), Len(f1_f2'), Len(prog), Len(f1_f2)} \subseteq Nat
  <2>1. CASE UNCHANGED <<prog, f1_f2>>
    BY <1>3, <2>1
  <2>2. CASE prog' = prog \o f1_f2 /\ f1_f2' = <<>>
    <3> DEFINE g == prog \o f1_f2
    <3>1. g \in Seq(Line2) /\ Len(g) = Len(prog) + Len(f1_f2) /\ g \o <<>> = g /\ Len(<<>>) = 0
      BY <1>3, LinesJoined
    <3> HIDE DEF g
    <3>2. prog' = g /\ f1_f2' = <<>>
      BY <2>2 DEF g
    <3>3. Len(prog) \in Nat /\ Len(f1_f2) \in Nat /\ Len(g) \in Nat
      BY <1>3, <3>1
    <3> QED
      BY <1>2, <3>1, <3>2, <3>3 DEF g
  <2> QED
    BY <2>1, <2>2
<1>5. CTyped' /\ COrder'
  BY <1>1, <1>2, <1>4 DEF CatInv, CTyped, CatGrepTypeOK, COrder
<1>6. CRoom'
  <2>1. Len(found) \in Nat /\ Len(Choice(t_f1)) \in Nat /\ offset \in Nat
    BY <1>2, ChoiceType DEF CatInv, CTyped, CatGrepTypeOK
  <2>2. /\ Len(prog) + OnTheWay <= offset
        /\ OnTheWay = Len(f1_f2) + Len(found) + Len(Choice(t_f1))
        /\ OnTheWay' = Len(f1_f2') + Len(found) + Len(Choice(t_f1))
    BY <1>1 DEF CatInv, CRoom, OnTheWay
  <2>3. Len(prog') + OnTheWay' <= offset /\ OnTheWay' <= offset
    BY <1>4, <2>1, <2>2
  <2> QED
    BY <1>1, <2>3 DEF CRoom
<1>7. CKept'
  <2>1. Choice(SubSeq(old, 1, offset))' = Choice(SubSeq(old, 1, offset))
    BY <1>1 DEF Choice
  <2> QED
    BY <1>1, <1>4, <2>1 DEF CatInv, CKept, Sound
<1> QED
  BY <1>5, <1>6, <1>7 DEF CatInv

LEMMA CatKeeps == ASSUME CatInv, [CatGrepNext]_cvars PROVE CatInv'
<1>1. CASE UNCHANGED cvars
  <2>1. UNCHANGED <<shell, fiu1, fiu2, fiu3, t_f1, f1_f2, prog, old, offset, found, failed>>
    BY <1>1 DEF cvars
  <2>2. CatGrepTypeOK' /\ COrder' /\ (Cut' <=> Cut) /\ (Sound' <=> Sound)
    BY <2>1 DEF CatInv, CTyped, CatGrepTypeOK, COrder, Cut, Sound
  <2> QED
    BY <2>1, <2>2, CatStays
<1> QED
  BY <1>1, CatControl, CatOpenFails, CatExecFails, CatCat, CatGreps, CatGrepWrites, CatTruncates,
     CatCopies DEF CatGrepNext

\* What CatGrep.tla says of its states.
LEMMA CatRight == ASSUME CatInv PROVE CatGrepTypeOK /\ WrittenIsGrep /\ UnlinkedLate
<1>1. CatGrepTypeOK
  BY DEF CatInv, CTyped
<1>2. UnlinkedLate
  BY DEF CatInv, COrder, UnlinkedLate, CTyped, CatGrepTypeOK
<1>3. WrittenIsGrep
  <2>1. fiu3 = "copy" \/ fiu3 = "gone" => Written = prog
    BY DEF Written, Cut
  <2>2. failed = "open" => prog = old
    BY DEF CatInv, COrder
  <2> QED
    BY <2>1, <2>2 DEF CatInv, CKept, Sound, WrittenIsGrep, Choice
<1> QED
  BY <1>1, <1>2, <1>3

-----------------------------------------------------------------------------
(* three_sons: the login names between relatives *)

Login2 == {"tty", "pts"}
Login3 == {"tty", "pts", "old"}
Ttys(s) == Chosen(s, {"tty"})

SData ==  /\ report \in Seq(Login2) /\ users \in Seq(Login3)
          /\ {tube, printed} \subseteq Seq(Login3)
          /\ who \in {"print", "done"} => users \in Seq(Login2)

\* Nobody reads users.txt before who is done with it, and the father leaves
\* before F2 only when there is no F1 to signal it.
SOrder == /\ father = "forkF2" => f2 = "none"
          /\ father \in {"forkF2", "forkF1"} => f1 = "none"
          /\ f1 \in {"none", "fork"} => who = "none"
          /\ who \in {"none", "open", "print"} =>
               ~usr1 /\ f2 \in {"none", "install", "suspend"}
          /\ f2 \in {"none", "install", "suspend"} => copied = 0
          /\ f2 = "gone" => copied = 0 \/ copied = Len(users)
          /\ father = "wait" => f2 = "gone" /\ tube = <<>>
          /\ father = "gone" => f1 = "none" \/ (f2 = "gone" /\ tube = <<>>)

SSent == printed \o tube = Ttys(SubSeq(users, 1, copied))

SonsInv == SonsTypeOK /\ SData /\ SOrder /\ SSent

LEMMA SonsBegin ==
  ASSUME NEW r \in BOOLEAN, SonsStart(r)
  PROVE  SonsInv
<1>1. <<>> \in Seq(Login3) /\ <<"old">> \in Seq(Login3) /\ <<>> \in Seq(Login2)
  BY DEF Login2, Login3
<1>2. report \in Seq(Login2) /\ users \in Seq(Login3) /\ Len(users) \in Nat
  <2>1. Reports \subseteq Seq(Login2)
    BY SonsAssumption DEF Login2
  <2>2. report \in Seq(Login2) /\ users \in Seq(Login3)
    BY <1>1, <2>1 DEF SonsStart
  <2> QED
    BY <2>2
<1>3. SOrder
  BY DEF SOrder, SonsStart
<1>4. SonsTypeOK
  <2>1. copied \in 0..Len(users)
    BY <1>2 DEF SonsStart
  <2>2. father \in {"forkF2", "gone"}
    BY DEF SonsStart
  <2> QED
    BY <2>1, <2>2 DEF SonsTypeOK, SonsStart
<1>9. SData
  BY <1>1, <1>2 DEF SData, SonsStart
<1>5. SubSeq(users, 1, 0) = <<>> /\ <<>> \o <<>> = <<>>
  BY <1>2
<1>6. Ttys(<<>>) = <<>>
  BY ChosenNone DEF Ttys
<1>7. printed = <<>> /\ tube = <<>> /\ copied = 0
  BY DEF SonsStart
<1>8. SSent
  BY <1>5, <1>6, <1>7 DEF SSent
<1> QED
  BY <1>3, <1>4, <1>8, <1>9 DEF SonsInv

\* users.txt is read by nobody yet, or is not touched.
LEMMA SonsStay ==
  ASSUME SonsInv, UNCHANGED <<copied, tube, printed>>,
         SonsTypeOK', SData', SOrder', copied = 0 \/ UNCHANGED users
  PROVE  SonsInv'
<1>1. ASSUME copied = 0 PROVE SubSeq(users, 1, copied)' = SubSeq(users, 1, copied)
  <2>1. SubSeq(users, 1, 0) = <<>> /\ SubSeq(users', 1, 0) = <<>>
    BY DEF SonsInv, SData
  <2> QED
    BY <1>1, <2>1
<1> QED
  BY <1>1 DEF SonsInv, SSent, Ttys

LEMMA SonsControl ==
  ASSUME SonsInv,
         \/ FatherForks \/ FatherWaits \/ F1Forks \/ F1Signals
         \/ F2Installs \/ F2Wakes \/ UNCHANGED svars
  PROVE  SonsInv'
<1> USE DEF SonsInv, SonsTypeOK, SData, SOrder
<1>1. UNCHANGED <<report, users, copied, tube, printed>>
  BY DEF FatherForks, FatherWaits, F1Forks, F1Signals, F2Installs, F2Wakes, svars
<1>2. CASE FatherForks
  <2>1. SonsTypeOK' /\ SData' /\ SOrder'
    BY <1>1, <1>2 DEF FatherForks
  <2> QED
    BY <1>1, <2>1, SonsStay
<1>3. CASE FatherWaits \/ F1Forks \/ F1Signals
  <2>1. CASE FatherWaits
    BY <1>1, <2>1, SonsStay DEF FatherWaits
  <2>2. CASE F1Forks
    <3>1. SData' /\ SOrder'
      BY <1>1, <2>2 DEF F1Forks
    <3>2. SonsTypeOK'
      BY <1>1, <2>2 DEF F1Forks
    <3> QED
      BY <1>1, <3>1, <3>2, SonsStay
  <2>3. CASE F1Signals
    <3>1. SData' /\ SOrder'
      BY <1>1, <2>3 DEF F1Signals
    <3>2. SonsTypeOK'
      BY <1>1, <2>3 DEF F1Signals
    <3> QED
      BY <1>1, <3>1, <3>2, SonsStay
  <2> QED
    BY <1>3, <2>1, <2>2, <2>3
<1>4. CASE F2Installs \/ F2Wakes \/ UNCHANGED svars
  <2>1. SData' /\ SonsTypeOK'
    BY <1>1, <1>4 DEF F2Installs, F2Wakes, svars
  <2>2. SOrder'
    <3>1. CASE F2Wakes
      <4>1. who \in {"done", "failed"}
        BY <3>1 DEF F2Wakes
      <4> QED
        BY <1>1, <3>1, <4>1 DEF F2Wakes
    <3>2. CASE F2Installs
      BY <1>1, <3>2 DEF F2Installs
    <3>3. CASE UNCHANGED svars
      BY <1>1, <3>3 DEF svars
    <3> QED
      BY <1>4, <3>1, <3>2, <3>3
  <2> QED
    BY <1>1, <2>1, <2>2, SonsStay
<1> QED
  BY <1>2, <1>3, <1>4

LEMMA SonsWrite ==
  ASSUME SonsInv, WhoOpens \/ WhoPrints
  PROVE  SonsInv'
<1> USE DEF SonsInv, SonsTypeOK, SData, SOrder
<1>1. UNCHANGED <<father, f1, f2, usr1, forkFailed, copied, tube, printed>> /\ copied = 0
  BY DEF WhoOpens, WhoPrints
<1>2. <<>> \in Seq(Login2) /\ <<>> \in Seq(Login3) /\ Login2 \subseteq Login3
  BY DEF Login2, Login3
<1>3. CASE WhoOpens
  <2>1. SOrder'
    BY <1>1, <1>3 DEF WhoOpens
  <2>2. SData'
    BY <1>1, <1>2, <1>3 DEF WhoOpens
  <2>3. SonsTypeOK'
    <3>1. Len(users') \in Nat
      BY <2>2
    <3> QED
      BY <1>1, <1>3, <3>1 DEF WhoOpens
  <2> QED
    BY <1>1, <2>1, <2>2, <2>3, SonsStay
<1>4. CASE WhoPrints
  <2>1. who = "print" /\ users \in Seq(Login2)
    BY <1>4 DEF WhoPrints
  <2>2. users' \in Seq(Login2) /\ report' \in Seq(Login2) /\ Len(users') \in Nat
    <3>1. report # <<>> => Head(report) \in Login2 /\ Tail(report) \in Seq(Login2)
      OBVIOUS
    <3>2. CASE report = <<>>
      BY <1>4, <2>1, <3>2 DEF WhoPrints
    <3>3. CASE report # <<>>
      <4>1. users' = Append(users, Head(report)) /\ report' = Tail(report)
        BY <1>4, <3>3 DEF WhoPrints
      <4> QED
        BY <2>1, <3>1, <3>3, <4>1
    <3> QED
      BY <3>2, <3>3
  <2>3. users' \in Seq(Login3)
    <3>1. users' \in Seq(Login2) /\ Login2 \subseteq Login3
      BY <1>2, <2>2
    <3> QED
      BY <3>1, SeqMonotonic
  <2>4. SonsTypeOK' /\ SData' /\ SOrder'
    BY <1>1, <1>4, <2>2, <2>3 DEF WhoPrints
  <2> QED
    BY <1>1, <2>4, SonsStay
<1> QED
  BY <1>3, <1>4

LEMMA SonsRead ==
  ASSUME SonsInv, FatherReads
  PROVE  SonsInv'
<1> USE DEF SonsInv, SonsTypeOK, SData, SOrder
<1>1. UNCHANGED <<f1, f2, who, usr1, forkFailed, report, users, copied>>
  BY DEF FatherReads
<1>2. tube \in Seq(Login3) /\ printed \in Seq(Login3) /\ <<>> \in Seq(Login3)
  OBVIOUS
<1>3. CASE tube # <<>>
  <2> DEFINE g == printed \o tube
  <2>1. g \in Seq(Login3) /\ g \o <<>> = g
    BY <1>2
  <2> HIDE DEF g
  <2>2. printed' = g /\ tube' = <<>> /\ father' = father /\ father = "read"
    BY <1>3 DEF FatherReads, g
  <2>3. SonsTypeOK' /\ SData' /\ SOrder'
    BY <1>1, <1>2, <2>1, <2>2
  <2>4. printed' \o tube' = printed \o tube
    BY <2>1, <2>2 DEF g
  <2> QED
    BY <1>1, <2>3, <2>4 DEF SSent, Ttys
<1>4. CASE tube = <<>>
  <2>1. f2 = "gone" /\ father' = "wait" /\ UNCHANGED <<printed, tube>>
    BY <1>4 DEF FatherReads
  <2>2. SonsTypeOK' /\ SData' /\ SOrder'
    BY <1>1, <1>4, <2>1
  <2> QED
    BY <1>1, <2>1, <2>2, SonsStay
<1> QED
  BY <1>3, <1>4

LEMMA SonsCopy ==
  ASSUME SonsInv, F2Reads
  PROVE  SonsInv'
<1> USE DEF SonsInv, SonsTypeOK, SData, SOrder
<1>1. UNCHANGED <<father, f1, who, usr1, forkFailed, report, users, printed>> /\ f2 = "read"
  BY DEF F2Reads
<1>2. tube \in Seq(Login3) /\ printed \in Seq(Login3) /\ users \in Seq(Login3)
  OBVIOUS
<1>3. CASE copied = Len(users)
  <2>1. f2' = "gone" /\ UNCHANGED <<copied, tube>>
    BY <1>3 DEF F2Reads
  <2>2. SonsTypeOK' /\ SData' /\ SOrder'
    BY <1>1, <1>3, <2>1
  <2> QED
    BY <1>1, <2>1, <2>2, SonsStay
<1>4. CASE copied # Len(users)
  <2> DEFINE x == users[copied + 1]
             n == copied
  <2>1. n \in Nat /\ n < Len(users) /\ Len(users) \in Nat /\ x \in Login3
    BY <1>2, <1>4
  <2>2. copied' = n + 1 /\ f2' = f2 /\ tube' = IF x = "tty" THEN Append(tube, x) ELSE tube
    BY <1>4 DEF F2Reads, IsTty
  <2>3. tube' \in Seq(Login3)
    BY <1>2, <2>1, <2>2
  <2>4. SonsTypeOK' /\ SData' /\ SOrder'
    BY <1>1, <2>1, <2>2, <2>3
  <2> DEFINE o == SubSeq(users, 1, n)
  <2>5. o \in Seq(Login3) /\ SubSeq(users, 1, n + 1) = Append(o, x)
    BY <1>2, <2>1
  <2>6. printed \o tube = Ttys(o)
    BY DEF SSent
  <2> HIDE DEF o, x, n
  <2>7. Ttys(Append(o, x)) = IF x = "tty" THEN Append(Ttys(o), x) ELSE Ttys(o)
    <3>1. Chosen(Append(o, x), {"tty"}) = IF x \in {"tty"} THEN Append(Chosen(o, {"tty"}), x)
                                          ELSE Chosen(o, {"tty"})
      BY <2>1, <2>5, ChosenAppend
    <3> QED
      BY <3>1 DEF Ttys
  <2>8. printed \o Append(tube, x) = Append(printed \o tube, x)
    BY <1>2, <2>1, AppendConcat
  <2>9. printed \o tube' = Ttys(Append(o, x))
    BY <2>2, <2>6, <2>7, <2>8
  <2>10. SSent'
    BY <1>1, <2>2, <2>5, <2>9 DEF SSent, Ttys
  <2> QED
    BY <2>4, <2>10
<1> QED
  BY <1>3, <1>4

LEMMA SonsKeep == ASSUME SonsInv, [SonStep]_svars PROVE SonsInv'
BY SonsControl, SonsWrite, SonsRead, SonsCopy DEF SonStep

\* What ThreeSons.tla says of its states.
LEMMA SonsRight == ASSUME SonsInv PROVE SonsTypeOK /\ PrintsLogins
<1> USE DEF SonsInv, SonsTypeOK, SData, SOrder
<1>1. f2 = "read" => who \in {"done", "failed"}
  OBVIOUS
<1>2. ASSUME father = "gone", who = "done", copied > 0
      PROVE  printed = Chosen(users, {"tty"}) /\ "old" \notin {users[i] : i \in 1..Len(users)}
  <2>1. f2 = "gone" /\ tube = <<>> /\ copied = Len(users)
    BY <1>2
  <2>2. SubSeq(users, 1, Len(users)) = users /\ printed \o <<>> = printed
    OBVIOUS
  <2>3. printed = Chosen(users, {"tty"})
    BY <2>1, <2>2 DEF SSent, Ttys
  <2>4. \A i \in 1..Len(users) : users[i] # "old"
    <3>1. users \in Seq(Login2)
      BY <1>2
    <3>2. \A i \in 1..Len(users) : users[i] \in Login2
      BY <3>1
    <3> QED
      BY <3>2 DEF Login2
  <2> QED
    BY <2>3, <2>4
<1> QED
  BY <1>1, <1>2 DEF PrintsLogins

-----------------------------------------------------------------------------
(* gambling: mother and kid over a file *)

\* What a file may contain.
May(c) == c \in {"none", "", Message} \/ (leftover /\ c = "old")

\* Which program is where, and what a file may contain.
GOrder == /\ game \in {"sigs", "normal", "dir"}
          /\ mother = "write" => pen # 0 /\ game # "sigs"
          /\ mother = "remove" => game = "normal"
          /\ kid = "list" => game = "dir"
          /\ kid \in {"open", "read"} => game # "sigs"
          /\ kid = "read" => book # 0
          /\ signal \in {"none", Message}
          /\ leftover \in BOOLEAN
          /\ \A i \in 1..2 : May(inode[i])

\* "normal" without an old file: the child opens what has been written.
GFresh == game = "normal" /\ ~leftover =>
            /\ name \in {0, 2} /\ book \in {0, 2} /\ mother # "wait"
            /\ mother \in {"start", "told"} => name = 0
            /\ mother \in {"write", "remove"} => pen = 2 /\ inode[2] = ""
            /\ name = 2 => inode[2] \in {"", Message}
            /\ kid \in {"open", "read"} => mother = "gone" /\ inode[2] = Message

\* A file that was there at the first list is in every later one.
GListed == game = "dir" /\ leftover =>
             /\ name # 0 /\ kid \in {"none", "list", "look"}
             /\ kid = "look" => listed
             /\ shown = "none"

GamblingInv == GamblingTypeOK /\ GOrder /\ GListed /\ GFresh /\ ShownIsTrue

LEMMA ContentHas == /\ {"none", "", Message} \subseteq Content
                    /\ Message \notin {"none", "", "old"}
  BY DEF Message, Content

LEMMA GamblingTypes ==
  ASSUME GamblingTypeOK
  PROVE  /\ name \in 0..2 /\ pen \in 0..2 /\ book \in 0..2
         /\ inode \in [1..2 -> Content]
  BY DEF GamblingTypeOK

LEMMA GamblingBegins ==
  ASSUME NEW r \in BOOLEAN, GamblingStart(r)
  PROVE  GamblingInv
<1>1. leftover \in BOOLEAN
  BY DEF GamblingStart
<1>4. GamblingTypeOK
  <2>1. mother \in {"start", "gone"} /\ kid \in {"none", "gone"} /\ name \in 0..2
    BY DEF GamblingStart
  <2>2. inode \in [1..2 -> Content]
    BY DEF GamblingStart, Content
  <2>3. signal = "none" /\ shown = "none" /\ pen = 0 /\ book = 0
    BY DEF GamblingStart
  <2>4. listed \in BOOLEAN
    BY DEF GamblingStart
  <2>5. signal \in Content /\ shown \in Content
    BY <2>3, ContentHas, Zenon
  <2>7. {name, pen, book} \subseteq 0..2
    BY <2>1, <2>3
  <2>6. /\ mother \in {"start", "told", "write", "remove", "wait", "gone"}
        /\ kid \in {"none", "list", "look", "open", "read", "gone"}
    BY <2>1
  <2> QED
    BY <2>2, <2>4, <2>5, <2>6, <2>7, Zenon DEF GamblingTypeOK
<1>2. GOrder
  <2>1. \A i \in 1..2 : May(inode[i])
    BY <1>1 DEF May, GamblingStart
  <2> QED
    BY <1>1, <2>1 DEF GOrder, GamblingStart
<1>3. GListed /\ GFresh /\ ShownIsTrue
  BY <1>1 DEF GListed, GFresh, ShownIsTrue, GamblingStart
<1> QED
  BY <1>2, <1>3, <1>4 DEF GamblingInv

LEMMA MotherKeeps ==
  ASSUME GamblingInv, MotherStep
  PROVE  GamblingInv'
<1>1. CASE Begin
  <2>1. GamblingTypeOK'
    BY <1>1, ContentHas DEF Begin, GamblingInv, GamblingTypeOK, GOrder
  <2>2. GOrder'
    BY <1>1 DEF Begin, GamblingInv, GOrder, May, GamblingTypeOK, Message
  <2>3. GListed'
    BY <1>1 DEF Begin, GamblingInv, GListed, GOrder
  <2>5. GFresh'
    BY <1>1 DEF Begin, GamblingInv, GFresh, GOrder, May, GamblingTypeOK, Message
  <2>4. ShownIsTrue'
    BY <1>1, ContentHas DEF Begin, GamblingInv, ShownIsTrue, GOrder, GListed, Message
  <2> QED
    BY <2>1, <2>2, <2>3, <2>4, <2>5 DEF GamblingInv
<1>2. CASE SendSignal
  <2>1. GamblingTypeOK'
    BY <1>2, ContentHas DEF SendSignal, GamblingInv, GamblingTypeOK, GOrder
  <2>2. GOrder'
    BY <1>2 DEF SendSignal, GamblingInv, GOrder, May, GamblingTypeOK, Message
  <2>3. GListed'
    BY <1>2 DEF SendSignal, GamblingInv, GListed, GOrder
  <2>5. GFresh'
    BY <1>2 DEF SendSignal, GamblingInv, GFresh, GOrder, May, GamblingTypeOK, Message
  <2>4. ShownIsTrue'
    BY <1>2, ContentHas DEF SendSignal, GamblingInv, ShownIsTrue, GOrder, GListed, Message
  <2> QED
    BY <2>1, <2>2, <2>3, <2>4, <2>5 DEF GamblingInv
<1>3. CASE OpenToWrite
  <2>1. GamblingTypeOK'
    <3>1. CASE UNCHANGED <<name, inode, pen>>
      BY <1>3, <3>1 DEF OpenToWrite, GamblingInv, GamblingTypeOK
    <3>2. CASE mother' = "write"
      <4>1. /\ pen' = (IF name = 0 THEN 2 ELSE name) /\ name' = pen'
            /\ inode' = [inode EXCEPT ![pen'] = ""]
            /\ UNCHANGED <<kid, signal, book, listed, shown>>
        BY <1>3, <3>2, Zenon DEF OpenToWrite
      <4>4. name \in 0..2 /\ book \in 0..2 /\ inode \in [1..2 -> Content] /\ "" \in Content
        BY GamblingTypes, ContentHas, Zenon DEF GamblingInv
      <4>2. inode' \in [1..2 -> Content] /\ {name', pen', book'} \subseteq 0..2
        <5>1. /\ pen' = (IF name = 0 THEN 2 ELSE name) /\ name' = pen' /\ book' = book
              /\ inode' = [inode EXCEPT ![pen'] = ""]
          BY <4>1, Zenon
        <5>5. /\ name \in 0..2
              /\ pen' = (IF name = 0 THEN 2 ELSE name)
          BY <4>1, <4>4, Zenon
        <5>2. pen' \in 1..2
          BY <5>5
        <5>6. pen' \in 0..2
          BY <5>2
        <5>3. name' \in 0..2 /\ pen' \in 0..2 /\ book' \in 0..2
          BY <4>4, <5>1, <5>6, Zenon
        <5>4. inode' \in [1..2 -> Content]
          BY <4>4, <5>1, <5>2, Zenon
        <5> QED
          BY <5>3, <5>4, Zenon
      <4>3. mother' \in {"start", "told", "write", "remove", "wait", "gone"}
        BY <3>2
      <4> QED
        BY <4>1, <4>2, <4>3 DEF GamblingInv, GamblingTypeOK
    <3> QED
      BY <1>3, <3>1, <3>2 DEF OpenToWrite
  <2>2. GOrder'
    <3>1. CASE UNCHANGED <<name, inode, pen>> /\ mother' = "gone"
      <4>1. UNCHANGED <<game, kid, signal, inode, pen, book, leftover, Message>>
        BY <1>3, <3>1, Zenon DEF OpenToWrite, Message
      <4> QED
        BY <3>1, <4>1 DEF GamblingInv, GOrder, May
    <3>2. CASE mother' = "write"
      <4>1. /\ pen' = (IF name = 0 THEN 2 ELSE name) /\ inode' = [inode EXCEPT ![pen'] = ""]
            /\ game \in {"normal", "dir"}
            /\ UNCHANGED <<game, kid, signal, book, leftover, Message>>
        BY <1>3, <3>2, Zenon DEF OpenToWrite, Message
      <4>2. pen' \in 1..2 /\ pen' # 0 /\ inode \in [1..2 -> Content]
        <5>1. name \in 0..2 /\ inode \in [1..2 -> Content]
          BY GamblingTypes, Zenon DEF GamblingInv
        <5>2. pen' = IF name = 0 THEN 2 ELSE name
          BY <4>1, Zenon
        <5>3. pen' \in 1..2 /\ pen' # 0
          BY <5>1, <5>2
        <5> QED
          BY <5>1, <5>3, Zenon
      <4>3. \A i \in 1..2 : inode'[i] = "" \/ inode'[i] = inode[i]
        BY <4>1, <4>2
      <4>4. \A i \in 1..2 : May(inode[i])'
        BY <4>1, <4>3, Zenon DEF GamblingInv, GOrder, May
      <4>5. game # "sigs" /\ mother' # "remove"
        BY <3>2, <4>1
      <4> QED
        BY <3>2, <4>1, <4>2, <4>4, <4>5 DEF GamblingInv, GOrder
    <3> QED
      BY <1>3, <3>1, <3>2 DEF OpenToWrite
  <2>3. GListed'
    BY <1>3 DEF OpenToWrite, GamblingInv, GListed, GOrder
  <2>5. GFresh'
    <3>1. CASE UNCHANGED <<name, inode, pen>> /\ mother' = "gone"
      BY <1>3, <3>1 DEF OpenToWrite, GamblingInv, GFresh, Message
    <3>2. CASE mother' = "write"
      <4>1. /\ pen' = (IF name = 0 THEN 2 ELSE name) /\ name' = pen'
            /\ inode' = [inode EXCEPT ![pen'] = ""]
            /\ UNCHANGED <<game, kid, book, leftover, Message>>
        BY <1>3, <3>2, Zenon DEF OpenToWrite, Message
      <4>2. inode \in [1..2 -> Content]
        BY GamblingTypes, Zenon DEF GamblingInv
      <4>3. game = "normal" /\ ~leftover => name = 0 /\ book \in {0, 2} /\ kid \notin {"open", "read"}
        BY <1>3 DEF OpenToWrite, GamblingInv, GFresh
      <4>4. name = 0 => pen' = 2 /\ name' = 2 /\ inode'[2] = ""
        <5>3. 2 \in 1..2
          OBVIOUS
        <5>4. name = 0 => pen' = 2 /\ name' = 2
          BY <4>1, Zenon
        <5>1. 2 \in 1..2 /\ (name = 0 => pen' = 2 /\ name' = 2)
          BY <5>3, <5>4
        <5>2. pen' = 2 => inode'[2] = ""
          BY <4>1, <4>2, <5>1, Zenon
        <5> QED
          BY <5>1, <5>2
      <4> QED
        BY <3>2, <4>1, <4>3, <4>4 DEF GFresh
    <3> QED
      BY <1>3, <3>1, <3>2 DEF OpenToWrite
  <2>4. ShownIsTrue'
    BY <1>3, ContentHas DEF OpenToWrite, GamblingInv, ShownIsTrue, GOrder, GListed, Message
  <2> QED
    BY <2>1, <2>2, <2>3, <2>4, <2>5 DEF GamblingInv
<1>4. CASE Write
  <2>1. GamblingTypeOK'
    BY <1>4, ContentHas DEF Write, GamblingInv, GamblingTypeOK, GOrder
  <2>2. GOrder'
    <3>1. /\ UNCHANGED <<game, kid, signal, pen, book, leftover, Message>>
          /\ inode' = inode \/ inode' = [inode EXCEPT ![pen] = Message]
          /\ mother' # "write" /\ (mother' = "remove" => game = "normal")
      BY <1>4 DEF Write, Message
    <3>2. inode \in [1..2 -> Content]
      BY GamblingTypes, Zenon DEF GamblingInv
    <3>3. \A i \in 1..2 : inode'[i] = Message \/ inode'[i] = inode[i]
      BY <3>1, <3>2, Zenon
    <3>4. \A i \in 1..2 : May(inode[i])'
      BY <3>1, <3>3, Zenon DEF GamblingInv, GOrder, May
    <3> QED
      BY <3>1, <3>4 DEF GamblingInv, GOrder
  <2>3. GListed'
    BY <1>4 DEF Write, GamblingInv, GListed, GOrder
  <2>5. GFresh'
    <3>1. CASE game = "normal" /\ ~leftover
      <4>1. /\ UNCHANGED <<game, kid, name, pen, book, leftover, Message>>
            /\ mother = "write"
            /\ \/ mother' = "remove" /\ inode' = inode
               \/ mother' = "gone" /\ inode' = [inode EXCEPT ![pen] = Message]
        BY <1>4, <3>1 DEF Write, Message
      <4>2. /\ name \in {0, 2} /\ book \in {0, 2} /\ pen = 2 /\ inode[2] = ""
            /\ kid \notin {"open", "read"}
        BY <3>1, <4>1 DEF GamblingInv, GFresh
      <4>3. inode \in [1..2 -> Content] /\ 2 \in 1..2
        BY GamblingTypes DEF GamblingInv
      <4>4. inode' = [inode EXCEPT ![pen] = Message] => inode'[2] = Message
        BY <4>2, <4>3, Zenon
      <4> QED
        BY <4>1, <4>2, <4>4 DEF GFresh
    <3>2. CASE ~(game = "normal" /\ ~leftover)
      BY <1>4, <3>2 DEF Write, GFresh
    <3> QED
      BY <3>1, <3>2
  <2>4. ShownIsTrue'
    BY <1>4, ContentHas DEF Write, GamblingInv, ShownIsTrue, GOrder, GListed, Message
  <2> QED
    BY <2>1, <2>2, <2>3, <2>4, <2>5 DEF GamblingInv
<1>5. CASE RemoveMessage
  <2>1. GamblingTypeOK'
    BY <1>5 DEF RemoveMessage, GamblingInv, GamblingTypeOK
  <2>2. GOrder'
    BY <1>5 DEF RemoveMessage, GamblingInv, GOrder, May, GamblingTypeOK, Message
  <2>3. GListed'
    BY <1>5 DEF RemoveMessage, GamblingInv, GListed, GOrder
  <2>5. GFresh'
    BY <1>5 DEF RemoveMessage, GamblingInv, GFresh, GOrder, May, GamblingTypeOK, Message
  <2>4. ShownIsTrue'
    BY <1>5, ContentHas DEF RemoveMessage, GamblingInv, ShownIsTrue, GOrder, GListed, Message
  <2> QED
    BY <2>1, <2>2, <2>3, <2>4, <2>5 DEF GamblingInv
<1>6. CASE WaitForKid
  <2>1. GamblingTypeOK'
    BY <1>6, ContentHas DEF WaitForKid, GamblingInv, GamblingTypeOK, GOrder
  <2>2. GOrder'
    BY <1>6 DEF WaitForKid, GamblingInv, GOrder, May, GamblingTypeOK, Message
  <2>3. GListed'
    BY <1>6 DEF WaitForKid, GamblingInv, GListed, GOrder
  <2>5. GFresh'
    BY <1>6 DEF WaitForKid, GamblingInv, GFresh, GOrder, May, GamblingTypeOK, Message
  <2>4. ShownIsTrue'
    BY <1>6, ContentHas DEF WaitForKid, GamblingInv, ShownIsTrue, GOrder, GListed, Message
  <2> QED
    BY <2>1, <2>2, <2>3, <2>4, <2>5 DEF GamblingInv
<1> QED
  BY <1>1, <1>2, <1>3, <1>4, <1>5, <1>6 DEF MotherStep

LEMMA KidKeeps ==
  ASSUME GamblingInv, KidStep
  PROVE  GamblingInv'
<1>1. CASE GetSignal
  <2>1. GamblingTypeOK'
    BY <1>1, ContentHas DEF GetSignal, GamblingInv, GamblingTypeOK, GOrder
  <2>2. GOrder'
    BY <1>1 DEF GetSignal, GamblingInv, GOrder, May, GamblingTypeOK, Message
  <2>3. GListed'
    BY <1>1 DEF GetSignal, GamblingInv, GListed, GOrder
  <2>5. GFresh'
    BY <1>1 DEF GetSignal, GamblingInv, GFresh, GOrder, May, GamblingTypeOK, Message
  <2>4. ShownIsTrue'
    BY <1>1, ContentHas DEF GetSignal, GamblingInv, ShownIsTrue, GOrder, GListed, Message
  <2> QED
    BY <2>1, <2>2, <2>3, <2>4, <2>5 DEF GamblingInv
<1>2. CASE SeeFile
  <2>1. GamblingTypeOK'
    BY <1>2, ContentHas DEF SeeFile, GamblingInv, GamblingTypeOK, GOrder
  <2>2. GOrder'
    BY <1>2 DEF SeeFile, GamblingInv, GOrder, May, GamblingTypeOK, Message
  <2>3. GListed'
    BY <1>2 DEF SeeFile, GamblingInv, GListed, GOrder
  <2>5. GFresh'
    BY <1>2 DEF SeeFile, GamblingInv, GFresh, GOrder, May, GamblingTypeOK, Message
  <2>4. ShownIsTrue'
    BY <1>2, ContentHas DEF SeeFile, GamblingInv, ShownIsTrue, GOrder, GListed, Message
  <2> QED
    BY <2>1, <2>2, <2>3, <2>4, <2>5 DEF GamblingInv
<1>3. CASE FirstList
  <2>1. GamblingTypeOK'
    BY <1>3, ContentHas DEF FirstList, GamblingInv, GamblingTypeOK, GOrder
  <2>2. GOrder'
    BY <1>3 DEF FirstList, GamblingInv, GOrder, May, GamblingTypeOK, Message
  <2>3. GListed'
    BY <1>3 DEF FirstList, GamblingInv, GListed, GOrder
  <2>5. GFresh'
    BY <1>3 DEF FirstList, GamblingInv, GFresh, GOrder, May, GamblingTypeOK, Message
  <2>4. ShownIsTrue'
    BY <1>3, ContentHas DEF FirstList, GamblingInv, ShownIsTrue, GOrder, GListed, Message
  <2> QED
    BY <2>1, <2>2, <2>3, <2>4, <2>5 DEF GamblingInv
<1>4. CASE ListAgain
  <2>1. GamblingTypeOK'
    BY <1>4, ContentHas DEF ListAgain, GamblingInv, GamblingTypeOK, GOrder
  <2>2. GOrder'
    BY <1>4 DEF ListAgain, GamblingInv, GOrder, May, GamblingTypeOK, Message
  <2>3. GListed'
    BY <1>4 DEF ListAgain, GamblingInv, GListed, GOrder
  <2>5. GFresh'
    BY <1>4 DEF ListAgain, GamblingInv, GFresh, GOrder, May, GamblingTypeOK, Message
  <2>4. ShownIsTrue'
    BY <1>4, ContentHas DEF ListAgain, GamblingInv, ShownIsTrue, GOrder, GListed, Message
  <2> QED
    BY <2>1, <2>2, <2>3, <2>4, <2>5 DEF GamblingInv
<1>5. CASE OpenToRead
  <2>1. GamblingTypeOK'
    BY <1>5, ContentHas DEF OpenToRead, GamblingInv, GamblingTypeOK, GOrder
  <2>2. GOrder'
    BY <1>5 DEF OpenToRead, GamblingInv, GOrder, May, GamblingTypeOK, Message
  <2>3. GListed'
    BY <1>5 DEF OpenToRead, GamblingInv, GListed, GOrder
  <2>5. GFresh'
    BY <1>5 DEF OpenToRead, GamblingInv, GFresh, GOrder, May, GamblingTypeOK, Message
  <2>4. ShownIsTrue'
    BY <1>5, ContentHas DEF OpenToRead, GamblingInv, ShownIsTrue, GOrder, GListed, Message
  <2> QED
    BY <2>1, <2>2, <2>3, <2>4, <2>5 DEF GamblingInv
<1>6. CASE Read
  <2>1. GamblingTypeOK'
    <3>1. /\ book \in 0..2 /\ book # 0 /\ inode \in [1..2 -> Content] /\ kid = "read"
          /\ shown' = inode[book] /\ name' = 0 /\ kid' = "gone"
      BY <1>6, GamblingTypes, Zenon DEF Read, GamblingInv, GOrder
    <3>2. shown' \in Content /\ name' = 0 /\ kid' = "gone"
      BY <3>1
    <3> QED
      BY <1>6, <3>2 DEF Read, GamblingInv, GamblingTypeOK
  <2>2. GOrder'
    BY <1>6 DEF Read, GamblingInv, GOrder, May, GamblingTypeOK, Message
  <2>3. GListed'
    BY <1>6 DEF Read, GamblingInv, GListed, GOrder
  <2>5. GFresh'
    BY <1>6 DEF Read, GamblingInv, GFresh, GOrder, May, GamblingTypeOK, Message
  <2>4. ShownIsTrue'
    <3>1. /\ book \in 0..2 /\ book # 0 /\ shown' = inode[book] /\ kid = "read"
          /\ UNCHANGED <<game, leftover, Message>>
      BY <1>6, GamblingTypes, Zenon DEF Read, GamblingInv, GOrder, May, Message
    <3>5. book \in 1..2
      BY <3>1
    <3>2. leftover => game = "normal"
      BY <3>1 DEF GamblingInv, GListed, GOrder
    <3>3. game # "sigs"
      BY <3>1 DEF GamblingInv, GOrder
    <3>4. inode[book] \in {"none", "", Message} \/ (leftover /\ inode[book] = "old")
      BY <3>5, Zenon DEF GamblingInv, GOrder, May
    <3>6. game = "normal" /\ ~leftover => inode[book] = Message
      BY <3>1, <3>5 DEF GamblingInv, GFresh
    <3>7. game \in {"normal", "dir"}
      BY <3>3 DEF GamblingInv, GOrder
    <3> QED
      BY <3>1, <3>2, <3>4, <3>6, <3>7 DEF ShownIsTrue
  <2> QED
    BY <2>1, <2>2, <2>3, <2>4, <2>5 DEF GamblingInv
<1> QED
  BY <1>1, <1>2, <1>3, <1>4, <1>5, <1>6 DEF KidStep

LEMMA GamblingKeeps == ASSUME GamblingInv, [GamblingNext]_gvars PROVE GamblingInv'
<1>1. CASE UNCHANGED gvars
  <2>1. GamblingTypeOK'
    BY <1>1 DEF gvars, GamblingInv, GamblingTypeOK
  <2>2. GOrder'
    BY <1>1 DEF gvars, GamblingInv, GOrder, May, Message
  <2>3. GListed'
    BY <1>1 DEF gvars, GamblingInv, GListed
  <2>5. GFresh'
    BY <1>1 DEF gvars, GamblingInv, GFresh, GOrder, May, GamblingTypeOK, Message
  <2>4. ShownIsTrue'
    BY <1>1 DEF gvars, GamblingInv, ShownIsTrue, Message
  <2> QED
    BY <2>1, <2>2, <2>3, <2>4, <2>5 DEF GamblingInv
<1> QED
  BY <1>1, MotherKeeps, KidKeeps DEF GamblingNext

-----------------------------------------------------------------------------
(* dialogue: parent, child and a socketpair *)

\* f adds up the answers that what is on its way will have.
Tally(f, lines) == /\ f \in [Nat -> Nat]
                   /\ \A i \in 1..Len(lines) : f[i] = f[i - 1] + Deserved(lines[i])
                   /\ \A i, j \in 0..Len(lines) : i <= j => f[i] <= f[j]

Half == IF child = "payload" THEN 1 ELSE 0
Awaited == IF parent = "wait" THEN 1 ELSE 0

\* While both processes run, what was answered and what will be is what the
\* parent waits for and what it is behind.
Balance == parent \in {"prompt", "wait"} /\ ChildRuns =>
             \E f : /\ Tally(f, request)
                    /\ Len(answers) + Half + f[Len(request)] = behind + Awaited + f[0]

DialogueInv == DialogueTypeOK /\ Balance

LEMMA TallyGrows ==
  ASSUME NEW S, NEW lines \in Seq(S), NEW k, NEW f, Tally(f, lines)
  PROVE  \E g : /\ Tally(g, Append(lines, k)) /\ g[0] = f[0]
                /\ g[Len(lines) + 1] = f[Len(lines)] + Deserved(k)
<1> DEFINE n == Len(lines)
<1>1. n \in Nat /\ Len(Append(lines, k)) = n + 1
  OBVIOUS
<1>10. f \in [Nat -> Nat] /\ \A i \in 1..n : f[i] = f[i - 1] + Deserved(lines[i])
  BY DEF Tally
<1>11. f \in [Nat -> Nat]
  BY <1>10
<1>2. Deserved(k) \in Nat
  BY DEF Deserved
<1>6. \A i \in 1..n : Append(lines, k)[i] = lines[i]
  OBVIOUS
<1>7. Append(lines, k)[n + 1] = k
  OBVIOUS
<1> DEFINE m == n + 1
           d == f[n] + Deserved(k)
           g == [f EXCEPT ![m] = d]
<1>8. m \in Nat /\ d \in Nat /\ m # 0 /\ m - 1 = n
  <2>1. f[n] \in Nat
    BY <1>1, <1>10
  <2> QED
    BY <1>1, <1>2, <2>1
<1> HIDE DEF n, m, d
<1>3. g \in [Nat -> Nat] /\ g[0] = f[0] /\ g[m] = d
  BY <1>8, <1>11
<1>9. ASSUME NEW i \in Nat, i # m PROVE g[i] = f[i]
  BY <1>9, <1>11
<1> HIDE DEF g
<1>4. ASSUME NEW i \in 1..m PROVE g[i] = g[i - 1] + Deserved(Append(lines, k)[i])
  <2>1. CASE i = m
    <3>1. g[n] = f[n]
      BY <1>1, <1>8, <1>9
    <3> QED
      BY <1>3, <1>7, <1>8, <2>1, <3>1 DEF d, m
  <2>2. CASE i \in 1..n
    <3>1. i \in Nat /\ i # m /\ i - 1 \in Nat /\ i - 1 # m
      BY <1>1, <1>8, <2>2
    <3>2. g[i] = f[i] /\ g[i - 1] = f[i - 1]
      BY <1>9, <3>1
    <3> QED
      BY <1>6, <1>10, <2>2, <3>2
  <2>3. i = m \/ i \in 1..n
    BY <1>1, <1>8
  <2> QED
    BY <2>1, <2>2, <2>3
<1>12. ASSUME NEW i \in 0..m, NEW j \in 0..m, i <= j PROVE g[i] <= g[j]
  <2>1. f[n] \in Nat /\ f[n] <= f[n] + Deserved(k)
    <3>1. n \in Nat
      BY <1>1 DEF n
    <3>2. f[n] \in Nat
      BY <1>11, <3>1
    <3> QED
      BY <1>2, <3>2
  <2>2. CASE j = m /\ i = m
    <3>1. g[m] \in Nat
      BY <1>3, <1>8
    <3> QED
      BY <2>2, <3>1
  <2>3. CASE j = m /\ i # m
    <3>1. i \in 0..n /\ n \in 0..n /\ i <= n /\ i \in Nat
      BY <1>1, <1>8, <2>3
    <3>2. f[i] <= f[n] /\ f[i] \in Nat
      BY <1>1, <1>11, <3>1 DEF Tally, n
    <3>3. g[i] = f[i] /\ g[j] = f[n] + Deserved(k)
      BY <1>3, <1>9, <2>3, <3>1 DEF d
    <3> QED
      BY <1>2, <2>1, <3>2, <3>3
  <2>4. CASE j # m
    <3>1. i \in 0..n /\ j \in 0..n /\ i \in Nat /\ j \in Nat /\ i # m
      BY <1>1, <1>8, <1>12, <2>4
    <3>2. g[i] = f[i] /\ g[j] = f[j]
      BY <1>9, <2>4, <3>1
    <3> QED
      BY <1>12, <3>1, <3>2 DEF Tally, n
  <2> QED
    BY <2>2, <2>3, <2>4
<1>5. Tally(g, Append(lines, k))
  <2>1. Len(Append(lines, k)) = m
    BY <1>1 DEF m
  <2> QED
    BY <1>3, <1>4, <1>12, <2>1 DEF Tally
<1> QED
  BY <1>3, <1>5 DEF n, m, d

LEMMA TallyMoves ==
  ASSUME NEW S, NEW lines \in Seq(S), lines # <<>>, NEW f, Tally(f, lines)
  PROVE  \E g : /\ Tally(g, Tail(lines)) /\ g[0] = f[0] + Deserved(Head(lines))
                /\ g[Len(lines) - 1] = f[Len(lines)]
<1> DEFINE n == Len(lines)
           g == [i \in Nat |-> f[i + 1]]
<1>1. n \in Nat \ {0} /\ Len(Tail(lines)) = n - 1 /\ f \in [Nat -> Nat]
  BY DEF Tally
<1>2. g \in [Nat -> Nat] /\ g[n - 1] = f[n]
  <2>1. n - 1 \in Nat /\ (n - 1) + 1 = n
    BY <1>1
  <2> HIDE DEF n
  <2> QED
    BY <1>1, <2>1
<1>3. g[0] = f[0] + Deserved(Head(lines))
  BY <1>1 DEF Tally
<1>4. ASSUME NEW i \in 1..(n - 1) PROVE g[i] = g[i - 1] + Deserved(Tail(lines)[i])
  <2>1. Tail(lines)[i] = lines[i + 1] /\ g[i] = f[i + 1] /\ g[i - 1] = f[i]
    BY <1>1
  <2>2. i + 1 \in 1..n /\ (i + 1) - 1 = i
    BY <1>1
  <2> QED
    BY <2>1, <2>2 DEF Tally
<1>6. ASSUME NEW i \in 0..(n - 1), NEW j \in 0..(n - 1), i <= j PROVE g[i] <= g[j]
  <2>1. g[i] = f[i + 1] /\ g[j] = f[j + 1]
    BY <1>1
  <2>2. i + 1 \in 0..n /\ j + 1 \in 0..n /\ i + 1 <= j + 1
    BY <1>1, <1>6
  <2> QED
    BY <2>1, <2>2 DEF Tally
<1>5. Tally(g, Tail(lines))
  BY <1>1, <1>2, <1>4, <1>6 DEF Tally
<1> HIDE DEF g
<1> QED
  BY <1>2, <1>3, <1>5

LEMMA DialogueBegins ==
  ASSUME NEW r \in BOOLEAN, DialogueStart(r)
  PROVE  DialogueInv
<1>1. DialogueTypeOK
  <2>1. parent \in ParentState /\ child \in ChildState
    BY DEF DialogueStart, ParentState, ChildState
  <2>2. request \in Seq(Typed) /\ answers \in Seq(Said)
    BY DEF DialogueStart
  <2>3. behind \in 0..MaxBehind
    BY DialogueAssumption DEF DialogueStart
  <2> QED
    BY <2>1, <2>2, <2>3 DEF DialogueTypeOK
<1>2. Balance
  <2> DEFINE f == [i \in Nat |-> 0]
  <2>1. request = <<>> /\ answers = <<>> /\ behind = 0 /\ Half = 0 /\ Awaited = 0
    BY DEF DialogueStart, Half, Awaited
  <2>2. Tally(f, request) /\ f[0] = 0 /\ f[Len(request)] = 0
    BY <2>1 DEF Tally
  <2>3. Len(answers) + Half + f[Len(request)] = behind + Awaited + f[0]
    BY <2>1, <2>2
  <2> HIDE DEF f
  <2> QED
    BY <2>2, <2>3 DEF Balance
<1> QED
  BY <1>1, <1>2 DEF DialogueInv

LEMMA ParentKeeps ==
  ASSUME DialogueInv,
         ParentSends \/ ParentAtEof \/ ParentKilled \/ ParentReads \/ ParentNoReply
  PROVE  DialogueInv'
<1> USE DialogueAssumption
<1>0. /\ request \in Seq(Typed) /\ answers \in Seq(Said) /\ behind \in 0..MaxBehind
      /\ child \in ChildState /\ parent \in ParentState
  BY DEF DialogueInv, DialogueTypeOK
<1>1. CASE ParentSends /\ ChildRuns
  <2>1. PICK k \in Typed :
          /\ IF Parted THEN k \notin FirstParts ELSE k # "end"
          /\ Deserved(k) = 2 => behind < MaxBehind
          /\ request' = Append(request, k)
          /\ behind' = behind + Deserved(k) - 1
    BY <1>1 DEF ParentSends
  <2>2. /\ parent = "prompt" /\ parent' = "wait" /\ UNCHANGED <<child, answers>>
    BY <1>1 DEF ParentSends
  <2>5. Awaited = 0 /\ Awaited' = 1 /\ Half' = Half /\ Half \in Nat
    BY <2>2 DEF Awaited, Half
  <2>6. PICK f : Tally(f, request) /\ Len(answers) + Half + f[Len(request)] = behind + f[0]
    BY <1>0, <1>1, <2>2, <2>5 DEF DialogueInv, Balance
  <2>12. request' \in Seq(Typed)
    BY <1>0, <2>1
  <2>13. ASSUME k = "end" PROVE behind >= 1
    <3> DEFINE n == Len(request)
    <3>1. request # <<>> /\ request[n] \in FirstParts
      BY <2>1, <2>13 DEF Parted
    <3>2. n \in Nat \ {0} /\ 0 \in 0..n /\ n \in 1..n /\ n - 1 \in 0..n /\ 0 <= n - 1
      BY <1>0, <3>1
    <3>3. Deserved(request[n]) \in {1, 2}
      BY <3>1 DEF Deserved, FirstParts
    <3> DEFINE d == Deserved(request[n])
    <3>4. f[0] <= f[n - 1] /\ f[n] = f[n - 1] + d
      <4> HIDE DEF d
      <4>1. f[n] = f[n - 1] + Deserved(request[n])
        BY <2>6, <3>2 DEF Tally
      <4>2. f[0] <= f[n - 1]
        BY <2>6, <3>2 DEF Tally
      <4> QED
        BY <4>1, <4>2 DEF d
    <3>5. f[0] \in Nat /\ f[n - 1] \in Nat /\ f[n] \in Nat /\ Len(answers) \in Nat
      <4>1. n \in Nat /\ n - 1 \in Nat /\ f \in [Nat -> Nat]
        <5>1. f \in [Nat -> Nat]
          BY <2>6 DEF Tally
        <5> QED
          BY <3>2, <5>1
      <4>2. Len(answers) \in Nat
        BY <1>0
      <4> HIDE DEF n
      <4> QED
        BY <4>1, <4>2
    <3>6. Len(answers) + Half + f[n] = behind + f[0]
      BY <2>6
    <3>7. d \in {1, 2}
      BY <3>3
    <3> HIDE DEF n, d
    <3> QED
      BY <1>0, <2>5, <3>4, <3>5, <3>6, <3>7
  <2>3. behind' \in 0..MaxBehind
    <3>1. Deserved(k) \in {0, 1, 2} /\ (Deserved(k) = 0 => k = "end")
      BY DEF Deserved
    <3> QED
      BY <1>0, <2>1, <2>13, <3>1
  <2>4. DialogueTypeOK'
    BY <1>0, <2>2, <2>3, <2>12 DEF DialogueTypeOK, ParentState
  <2>7. PICK g : /\ Tally(g, request') /\ g[0] = f[0]
                 /\ g[Len(request) + 1] = f[Len(request)] + Deserved(k)
    BY <1>0, <2>1, <2>6, TallyGrows
  <2>8. Len(request') = Len(request) + 1 /\ behind' + 1 = behind + Deserved(k)
    <3>1. Deserved(k) \in {0, 1, 2}
      BY DEF Deserved
    <3> QED
      BY <1>0, <2>1, <3>1
  <2>9. /\ Len(request) \in Nat /\ Len(answers) \in Nat /\ f \in [Nat -> Nat]
        /\ Deserved(k) \in Nat /\ behind \in Nat /\ behind' \in Nat
    <3>1. behind \in Nat /\ behind' \in Nat /\ Deserved(k) \in Nat
      BY <1>0, <2>3 DEF Deserved
    <3>2. Len(request) \in Nat /\ Len(answers) \in Nat
      BY <1>0
    <3> QED
      BY <2>6, <3>1, <3>2 DEF Tally
  <2>10. Len(answers) + Half + g[Len(request')] = behind' + Awaited' + g[0]
    <3> DEFINE a == Len(answers)  b == f[Len(request)]  c == f[0]  d == Deserved(k)
               h == Half  w == behind  w1 == behind'
    <3>1. /\ a \in Nat /\ b \in Nat /\ c \in Nat /\ d \in Nat /\ h \in Nat
          /\ w \in Nat /\ w1 \in Nat
      BY <2>5, <2>9
    <3>2. a + h + b = w + c /\ w1 + 1 = w + d
      BY <2>6, <2>8
    <3>3. a + h + (b + d) = w1 + 1 + c
      <4> HIDE DEF a, b, c, d, h, w, w1
      <4> QED
        BY <3>1, <3>2
    <3>4. g[Len(request')] = b + d /\ g[0] = c
      BY <2>7, <2>8
    <3> QED
      BY <2>5, <3>3, <3>4
  <2>11. Balance'
    BY <2>2, <2>5, <2>7, <2>10 DEF Balance
  <2> QED
    BY <2>4, <2>11 DEF DialogueInv
<1>2. CASE ParentSends /\ ~ChildRuns
  <2>1. parent' = "piped" /\ UNCHANGED <<child, answers, request, behind>>
    BY <1>2 DEF ParentSends
  <2> QED
    BY <1>0, <2>1 DEF DialogueInv, DialogueTypeOK, Balance, ParentState
<1>3. CASE ParentAtEof
  BY <1>0, <1>3 DEF DialogueInv, DialogueTypeOK, Balance, ParentState, ParentAtEof
<1>4. CASE ParentKilled
  BY <1>0, <1>4 DEF DialogueInv, DialogueTypeOK, Balance, ParentState, ParentKilled
<1>5. CASE ParentReads
  <2>1. /\ parent = "wait" /\ answers # <<>> /\ answers' = Tail(answers)
        /\ parent' = (IF Head(answers) = "quited" THEN "left" ELSE "prompt")
        /\ UNCHANGED <<child, request, behind>>
    BY <1>5 DEF ParentReads
  <2>2. answers' \in Seq(Said) /\ Len(answers') + 1 = Len(answers) /\ Len(answers') \in Nat
    BY <1>0, <2>1
  <2>3. DialogueTypeOK'
    BY <1>0, <2>1, <2>2 DEF DialogueTypeOK, ParentState
  <2>4. ASSUME parent' = "prompt", ChildRuns PROVE Balance'
    <3>1. Awaited = 1 /\ Awaited' = 0 /\ Half' = Half /\ Half \in Nat
      BY <2>1, <2>4 DEF Awaited, Half
    <3>2. PICK f : Tally(f, request)
                   /\ Len(answers) + Half + f[Len(request)] = behind + 1 + f[0]
      BY <2>1, <2>4, <3>1 DEF DialogueInv, Balance
    <3>3. f[Len(request)] \in Nat /\ f[0] \in Nat /\ behind \in Nat
      BY <1>0, <3>2 DEF Tally
    <3>4. Len(answers') + Half' + f[Len(request)] = behind + Awaited' + f[0]
      <4> DEFINE a == Len(answers)  a1 == Len(answers')  b == f[Len(request)]  c == f[0]
                 h == Half  w == behind
      <4>1. /\ a \in Nat /\ a1 \in Nat /\ b \in Nat /\ c \in Nat /\ h \in Nat
            /\ w \in Nat /\ a1 + 1 = a /\ a + h + b = w + 1 + c
        BY <2>2, <3>1, <3>2, <3>3
      <4>2. a1 + h + b = w + 0 + c
        <5> HIDE DEF a, a1, b, c, h, w
        <5> QED
          BY <4>1
      <4> QED
        BY <3>1, <4>2
    <3> QED
      BY <2>1, <3>2, <3>4 DEF Balance
  <2>5. Balance'
    BY <2>1, <2>4 DEF Balance, ChildRuns
  <2> QED
    BY <2>3, <2>5 DEF DialogueInv
<1>6. CASE ParentNoReply
  BY <1>0, <1>6 DEF DialogueInv, DialogueTypeOK, Balance, ParentState, ParentNoReply, ChildRuns
<1> QED
  BY <1>1, <1>2, <1>3, <1>4, <1>5, <1>6

LEMMA GetsTyped ==
  ASSUME request \in Seq(Typed), NEW k, Gets(k)
  PROVE  request' \in Seq(Typed)
<1>1. CASE request # <<>> /\ request' = Tail(request)
  BY <1>1
<1>2. CASE Len(request) >= 2 /\ request' \in {Tail(request), Tail(Tail(request))}
  <2>1. request # <<>> /\ Tail(request) \in Seq(Typed) /\ Tail(request) # <<>>
    <3>1. request # <<>>
      BY <1>2
    <3>2. Tail(request) \in Seq(Typed) /\ Len(Tail(request)) = Len(request) - 1
      BY <3>1
    <3> QED
      BY <1>2, <3>1, <3>2
  <2>2. Tail(Tail(request)) \in Seq(Typed)
    <3> DEFINE q == Tail(request)
    <3>1. q \in Seq(Typed) /\ q # <<>>
      BY <2>1
    <3> HIDE DEF q
    <3>2. Tail(q) \in Seq(Typed)
      BY <3>1
    <3> QED
      BY <3>2 DEF q
  <2> QED
    BY <1>2, <2>1, <2>2
<1> QED
  BY <1>1, <1>2 DEF Gets

\* fgets takes from what is on its way what k deserves.
LEMMA GetsTally ==
  ASSUME request \in Seq(Typed), NEW k \in WholeLines, Gets(k), NEW f, Tally(f, request)
  PROVE  /\ request' \in Seq(Typed)
         /\ \E g : /\ Tally(g, request') /\ g[0] = f[0] + Deserved(k)
                   /\ g[Len(request')] = f[Len(request)]
<1>1. CASE request # <<>> /\ Head(request) = k /\ request' = Tail(request)
  <2>1. request' \in Seq(Typed) /\ Len(request') = Len(request) - 1
    BY <1>1
  <2> QED
    BY <1>1, <2>1, TallyMoves
<1>2. CASE /\ k \in DOMAIN Longer /\ Len(request) >= 2 /\ Head(request) = Longer[k]
           /\ request' = IF request[2] = "end" THEN Tail(Tail(request)) ELSE Tail(request)
  <2>1. request # <<>> /\ Tail(request) \in Seq(Typed) /\ Len(Tail(request)) = Len(request) - 1
    BY <1>2
  <2>2. Deserved(Head(request)) = Deserved(k)
    BY <1>2 DEF Longer, Deserved
  <2>3. PICK g : /\ Tally(g, Tail(request)) /\ g[0] = f[0] + Deserved(k)
                 /\ g[Len(request) - 1] = f[Len(request)]
    BY <2>1, <2>2, TallyMoves
  <2>4. CASE request[2] # "end"
    BY <1>2, <2>1, <2>3, <2>4
  <2>5. CASE request[2] = "end"
    <3> DEFINE q == Tail(request)
    <3>1. q # <<>> /\ Head(q) = "end" /\ Len(q) = Len(request) - 1 /\ Len(request) \in Nat
      <4>1. Len(request) \in Nat /\ Len(q) = Len(request) - 1
        BY <2>1
      <4>2. q[1] = request[2]
        BY <1>2
      <4>3. q \in Seq(Typed) /\ Len(request) >= 2 /\ request[2] = "end"
        BY <1>2, <2>1, <2>5
      <4> HIDE DEF q
      <4> QED
        BY <4>1, <4>2, <4>3
    <3>2. request' = Tail(q) /\ Tail(q) \in Seq(Typed) /\ Len(Tail(q)) = Len(q) - 1
      <4> HIDE DEF q
      <4>1. q \in Seq(Typed)
        BY <2>1 DEF q
      <4>2. request' = Tail(q)
        BY <1>2, <2>5 DEF q
      <4> QED
        BY <3>1, <4>1, <4>2
    <3>3. PICK h : /\ Tally(h, Tail(q)) /\ h[0] = g[0] + Deserved("end")
                   /\ h[Len(q) - 1] = g[Len(q)]
      <4>1. q \in Seq(Typed) /\ Tally(g, q)
        BY <2>1, <2>3
      <4> HIDE DEF q
      <4>2. \E h : /\ Tally(h, Tail(q)) /\ h[0] = g[0] + Deserved(Head(q))
                   /\ h[Len(q) - 1] = g[Len(q)]
        BY <3>1, <4>1, TallyMoves
      <4> QED
        BY <3>1, <4>2
    <3>4. h[0] = g[0]
      <4>1. g[0] \in Nat /\ Deserved("end") = 0
        BY <2>3 DEF Tally, Deserved
      <4> QED
        BY <3>3, <4>1
    <3> HIDE DEF q
    <3> QED
      BY <2>3, <3>1, <3>2, <3>3, <3>4
  <2> QED
    BY <2>4, <2>5
<1> QED
  BY <1>1, <1>2 DEF Gets

\* A line is read and answered once, and once more later if it is unknown.
LEMMA ReplyKeeps ==
  ASSUME DialogueInv, NEW k \in WholeLines, NEW s \in Said, NEW state \in ChildState,
         Reply(k, s, state),
         state \in {"read", "payload"} => (state = "payload" <=> k = "unknown")
  PROVE  DialogueInv'
<1>0. /\ request \in Seq(Typed) /\ answers \in Seq(Said) /\ behind \in 0..MaxBehind
      /\ behind \in Nat /\ child \in ChildState /\ parent \in ParentState
  BY DialogueAssumption DEF DialogueInv, DialogueTypeOK
<1>1. /\ child = "read" /\ Gets(k)
      /\ answers' = (IF ParentRuns THEN Append(answers, s) ELSE answers)
      /\ child' = (IF ParentRuns THEN state ELSE "deserted")
      /\ UNCHANGED <<parent, behind>>
  BY DEF Reply, Gets, Says, Goes
<1>2. DialogueTypeOK'
  <2>1. request' \in Seq(Typed) /\ answers' \in Seq(Said)
    <3>1. request' \in Seq(Typed)
      BY <1>0, <1>1, GetsTyped
    <3> QED
      BY <1>0, <1>1, <3>1
  <2>2. child' \in ChildState
    BY <1>1 DEF ChildState
  <2> QED
    BY <1>0, <1>1, <2>1, <2>2 DEF DialogueTypeOK
<1>3. ASSUME parent \in {"prompt", "wait"}, child' \in {"read", "payload"} PROVE Balance'
  <2>1. ParentRuns /\ child' = state /\ answers' = Append(answers, s)
    BY <1>1, <1>3 DEF ParentRuns
  <2>2. Half = 0 /\ Half' + 1 = Deserved(k) /\ Awaited' = Awaited /\ Awaited \in Nat
        /\ Half' \in Nat
    BY <1>1, <1>3, <2>1 DEF Half, Deserved, Awaited, WholeLines
  <2>3. PICK f : Tally(f, request)
                 /\ Len(answers) + Half + f[Len(request)] = behind + Awaited + f[0]
    BY <1>1, <1>3 DEF DialogueInv, Balance, ChildRuns
  <2>4. PICK g : /\ Tally(g, request') /\ g[0] = f[0] + Deserved(k)
                 /\ g[Len(request')] = f[Len(request)]
    BY <1>0, <1>1, <2>3, GetsTally
  <2>5. Len(answers') = Len(answers) + 1 /\ Len(answers) \in Nat
    BY <1>0, <1>1, <2>1
  <2>6. f[0] \in Nat /\ f[Len(request)] \in Nat
    BY <1>0, <2>3 DEF Tally
  <2>7. Len(answers') + Half' + g[Len(request')] = behind + Awaited' + g[0]
    <3> DEFINE a == Len(answers)  b == f[Len(request)]  c == f[0]  d == Deserved(k)
               h1 == Half'  w == behind  p == Awaited
    <3>1. /\ a \in Nat /\ b \in Nat /\ c \in Nat /\ d \in Nat /\ h1 \in Nat
          /\ w \in Nat /\ p \in Nat /\ h1 + 1 = d
      BY <1>0, <2>2, <2>5, <2>6 DEF Deserved
    <3>2. a + 0 + b = w + p + c
      BY <2>2, <2>3
    <3>3. (a + 1) + h1 + b = w + p + (c + d)
      <4> HIDE DEF a, b, c, d, h1, w, p
      <4> QED
        BY <3>1, <3>2
    <3> QED
      BY <2>2, <2>4, <2>5, <3>3
  <2> QED
    BY <1>1, <2>4, <2>7 DEF Balance
<1>4. Balance'
  BY <1>1, <1>3 DEF Balance, ChildRuns
<1> QED
  BY <1>2, <1>4 DEF DialogueInv

LEMMA ChildKeeps == ASSUME DialogueInv, ChildStep PROVE DialogueInv'
<1>0. /\ request \in Seq(Typed) /\ answers \in Seq(Said) /\ behind \in 0..MaxBehind
      /\ behind \in Nat /\ child \in ChildState /\ parent \in ParentState
  BY DialogueAssumption DEF DialogueInv, DialogueTypeOK
<1>1. {"read", "payload", "quit", "failed"} \subseteq ChildState
      /\ {"text", "", "ERR", "quited"} \subseteq Said
      /\ {"login", "cd", "ls", "quit", "unknown"} \subseteq WholeLines
  BY DEF ChildState, Said, WholeLines
<1>2. CASE ChildLogin
  BY <1>1, <1>2, ReplyKeeps DEF ChildLogin
<1>3. CASE ChildCd
  BY <1>1, <1>3, ReplyKeeps DEF ChildCd
<1>4. CASE ChildLs
  BY <1>1, <1>4, ReplyKeeps DEF ChildLs
<1>5. CASE ChildQuit
  BY <1>1, <1>5, ReplyKeeps DEF ChildQuit
<1>6. CASE ChildUnknown
  BY <1>1, <1>6, ReplyKeeps DEF ChildUnknown
<1>7. CASE ChildPayload
  <2>1. /\ child = "payload" /\ UNCHANGED <<request, parent, behind>>
        /\ answers' = (IF ParentRuns THEN Append(answers, "") ELSE answers)
        /\ child' = (IF ParentRuns THEN "read" ELSE "deserted")
    BY <1>7 DEF ChildPayload, Says, Goes
  <2>2. DialogueTypeOK'
    <3>1. answers' \in Seq(Said)
      <4>1. "" \in Said
        BY DEF Said
      <4> QED
        BY <1>0, <2>1, <4>1, AppendProperties, Zenon
    <3> QED
      BY <1>0, <2>1, <3>1 DEF DialogueTypeOK, ChildState
  <2>3. ASSUME parent \in {"prompt", "wait"} PROVE Balance'
    <3>1. answers' = Append(answers, "") /\ child' = "read"
      BY <2>1, <2>3 DEF ParentRuns
    <3>2. Half = 1 /\ Half' = 0 /\ Awaited' = Awaited /\ Awaited \in Nat
      BY <2>1, <3>1 DEF Half, Awaited
    <3>3. PICK f : Tally(f, request)
                   /\ Len(answers) + 1 + f[Len(request)] = behind + Awaited + f[0]
      BY <2>1, <2>3, <3>2 DEF DialogueInv, Balance, ChildRuns
    <3>4. Len(answers') = Len(answers) + 1 /\ Len(answers) \in Nat
      <4>1. answers \in Seq(Said) /\ answers' = Append(answers, "") /\ "" \in Said
        BY <1>0, <1>1, <3>1
      <4>2. Len(answers') = Len(answers) + 1
        BY <4>1, AppendProperties, Zenon
      <4>3. Len(answers) \in Nat
        <5>1. answers \in Seq(Said)
          BY <1>0
        <5> QED
          BY <5>1
      <4> QED
        BY <4>2, <4>3
    <3>5. f[0] \in Nat /\ f[Len(request)] \in Nat
      BY <1>0, <3>3 DEF Tally
    <3>6. Len(answers') + Half' + f[Len(request)] = behind + Awaited' + f[0]
      BY <1>0, <3>2, <3>3, <3>4, <3>5
    <3> QED
      BY <2>1, <3>3, <3>6 DEF Balance
  <2>4. Balance'
    BY <2>1, <2>3 DEF Balance
  <2> QED
    BY <2>2, <2>4 DEF DialogueInv
<1>8. CASE ChildDeserted
  BY <1>0, <1>8 DEF ChildDeserted, DialogueInv, DialogueTypeOK, Balance, ChildState, ChildRuns
<1>9. CASE ChildOverrun
  <2>1. /\ child' = "smashed" /\ UNCHANGED <<parent, answers, behind>>
        /\ request' \in Seq(Typed)
    BY <1>0, <1>9, GetsTyped DEF ChildOverrun
  <2> QED
    BY <1>0, <2>1 DEF DialogueInv, DialogueTypeOK, Balance, ChildState, ChildRuns
<1> QED
  BY <1>2, <1>3, <1>4, <1>5, <1>6, <1>7, <1>8, <1>9 DEF ChildStep

LEMMA DialogueKeeps == ASSUME DialogueInv, [DialogueNext]_dvars PROVE DialogueInv'
<1>1. CASE UNCHANGED dvars
  BY <1>1 DEF dvars, DialogueInv, DialogueTypeOK, Balance, Half, Awaited, ChildRuns
<1> QED
  BY <1>1, ParentKeeps, ChildKeeps DEF DialogueNext, ParentStep

LEMMA DialogueRight == ASSUME DialogueInv PROVE DialogueTypeOK /\ LagCounted
<1>1. ASSUME parent = "prompt", child = "read", request = <<>> PROVE Len(answers) = behind
  <2>1. PICK f : Tally(f, request)
                 /\ Len(answers) + Half + f[Len(request)] = behind + Awaited + f[0]
    BY <1>1 DEF DialogueInv, Balance, ChildRuns
  <2>2. Half = 0 /\ Awaited = 0 /\ Len(request) = 0
    BY <1>1 DEF Half, Awaited
  <2>3. f[0] \in Nat /\ Len(answers) \in Nat /\ behind \in Nat
    BY <2>1, DialogueAssumption DEF Tally, DialogueInv, DialogueTypeOK
  <2> QED
    BY <2>1, <2>2, <2>3
<1> QED
  BY <1>1 DEF DialogueInv, LagCounted

-----------------------------------------------------------------------------
(* numbers: the visitors and their ids *)

Lined(v) == \E i \in 1..Len(line) : line[i] = v

\* Where a visitor is: "past" once the server is done with it.
Place(v) == IF visitor[v].pc = "new" THEN "new"
            ELSE IF Lined(v) THEN "line"
            ELSE IF Serving(v) THEN desk.pc ELSE "past"

Past == {v \in Visitor : Place(v) = "past"}

\* Nobody is twice in the line, or in the line and at the desk.
Seats == /\ \A i, j \in 1..Len(line) : line[i] = line[j] => i = j
         /\ \A i \in 1..Len(line) : visitor[line[i]].pc # "new"
         /\ \/ desk.pc \in {"accept", "dead"} /\ desk.with = {}
            \/ /\ desk.pc \in {"read", "answer", "answer2"}
               /\ \E v \in Visitor : /\ desk.with = {v}
                                     /\ visitor[v].pc # "new" /\ ~Lined(v)

Plus(n) == (n + 1) % Uint

\* A visitor r, the replies q on their way to it, and the number n it sent.
Owns(r, q, n) ==
  /\ n = r.sent
  /\ r.pc \in {"new", "connected"} => r.sent = NoNumber
  /\ r.pc \in {"wait", "wait2", "done"} => r.sent \in Number
  /\ r.pc \in {"wait2", "done"} => r.next = Plus(r.sent)
  /\ r.pc \in {"new", "connected", "done", "failed"} => q = <<>>

Unanswered(r, q) == q = <<>> /\ r.pc \in {"connected", "wait", "failed"}

HalfAnswered(r, q) == \/ r.pc = "wait" /\ q = <<Plus(r.sent)>>
                      \/ r.pc = "wait2" /\ q = <<>>
                      \/ r.pc = "failed"

Answered(r, q) == \/ r.pc = "wait" /\ Len(q) = 2 /\ q[1] = Plus(r.sent)
                  \/ r.pc = "wait2" /\ Len(q) = 1
                  \/ r.pc \in {"done", "failed"}

\* As far as the server has come with a visitor, so far has its answer come.
Fits(p, r, q, value) ==
  /\ p \in {"line", "read"} => Unanswered(r, q)
  /\ p = "answer" => Unanswered(r, q) /\ r.pc # "connected" /\ value = r.sent
  /\ p = "answer2" => HalfAnswered(r, q)
  /\ p = "past" => Answered(r, q)

VisitorOk(v) == /\ Owns(visitor[v], replies[v], number[v])
                /\ Fits(Place(v), visitor[v], replies[v], desk.value)

\* The id a visitor has or that is on its way to it.
GivenId(r, q) == IF r.pc = "done" THEN r.id ELSE q[Len(q)]
HasId(v) == Place(v) = "past" /\ visitor[v].pc # "failed"

IdOf(k) == IF k = Uint THEN 0 ELSE k

\* f says as which one each visitor was given its id, k of them so far.
Ranking(k, f) ==
  /\ k <= Cardinality(Past) /\ id = IdOf(k)
  /\ \A v \in Visitor : HasId(v) =>
       f[v] \in 1..k /\ GivenId(visitor[v], replies[v]) = IdOf(f[v])
  /\ \A v, w \in Visitor : HasId(v) /\ HasId(w) /\ f[v] = f[w] => v = w

Ranks == Cardinality(Visitor) <= Uint =>
           \E k \in Nat, f \in [Visitor -> Nat] : Ranking(k, f)

NumbersInv == /\ NumbersTypeOK /\ Seats /\ (\A v \in Visitor : VisitorOk(v))
              /\ Ranks

LEMMA IdCounts ==
  ASSUME NEW k \in Nat, k < Uint
  PROVE  IdOf(k) \in Number /\ (IdOf(k) + 1) % Uint = IdOf(k + 1) /\ IdOf(k + 1) \in Number
<1>1. Uint \in Nat /\ Uint > 1
  BY NumbersAssumption
<1>2. IdOf(k) = k
  BY <1>1 DEF IdOf
<1>3. ASSUME k + 1 = Uint PROVE (k + 1) % Uint = 0
  BY <1>1, <1>3
<1>4. ASSUME k + 1 < Uint PROVE (k + 1) % Uint = k + 1
  BY <1>1, <1>4
<1>5. (k + 1) % Uint = IdOf(k + 1)
  BY <1>1, <1>3, <1>4 DEF IdOf
<1> QED
  BY <1>1, <1>2, <1>5 DEF IdOf, Number

LEMMA PlusType == ASSUME NEW n \in Number PROVE Plus(n) \in Number
  BY NumbersAssumption DEF Plus, Number

LEMMA IdsDiffer ==
  ASSUME NEW k \in 0..Uint, NEW a \in 1..k, NEW b \in 1..k, IdOf(a) = IdOf(b)
  PROVE  a = b
  BY NumbersAssumption DEF IdOf

LEMMA NumbersTypes ==
  ASSUME NumbersTypeOK
  PROVE  /\ visitor \in [Visitor -> VisitorState]
         /\ line \in Seq(Visitor)
         /\ number \in [Visitor -> Number \cup {NoNumber}]
         /\ replies \in [Visitor -> Seq(Number)]
         /\ desk.with \subseteq Visitor
         /\ desk.value \in Number \cup {NoNumber}
         /\ id \in Number
         /\ \A v \in Visitor : visitor[v] \in VisitorState /\ replies[v] \in Seq(Number)
  BY DEF NumbersTypeOK

LEMMA VisitorTypes ==
  ASSUME NEW r \in VisitorState
  PROVE  /\ r.pc \in {"new", "connected", "wait", "wait2", "done", "failed"}
         /\ r.sent \in Number \cup {NoNumber}
         /\ \A p \in {"new", "connected", "wait", "wait2", "done", "failed"} :
              /\ [r EXCEPT !.pc = p] \in VisitorState
              /\ \A n \in Number : /\ [r EXCEPT !.pc = p, !.sent = n] \in VisitorState
                                   /\ [r EXCEPT !.pc = p, !.next = n] \in VisitorState
                                   /\ [r EXCEPT !.pc = p, !.id = n] \in VisitorState
  BY DEF VisitorState

LEMMA PlaceStays ==
  ASSUME NEW v \in Visitor,
         (visitor[v].pc = "new")' <=> visitor[v].pc = "new",
         Lined(v)' <=> Lined(v), Serving(v)' <=> Serving(v),
         Serving(v) => (desk.pc)' = desk.pc
  PROVE  Place(v)' = Place(v)
  BY DEF Place

LEMMA VisitorStays ==
  ASSUME NEW v \in Visitor, VisitorOk(v), visitor'[v] = visitor[v],
         replies'[v] = replies[v], number'[v] = number[v], Place(v)' = Place(v),
         Place(v) = "answer" => (desk.value)' = desk.value
  PROVE  VisitorOk(v)'
  BY DEF VisitorOk, Fits

LEMMA RanksStay ==
  ASSUME Ranks, id' = id,
         \A v \in Visitor : Place(v) = "past" => Place(v)' = "past",
         \A v \in Visitor : HasId(v)' =>
           HasId(v) /\ GivenId(visitor[v], replies[v])' = GivenId(visitor[v], replies[v])
  PROVE  Ranks'
<1> SUFFICES ASSUME Cardinality(Visitor) <= Uint
             PROVE  \E k \in Nat, f \in [Visitor -> Nat] : Ranking(k, f)'
  BY DEF Ranks
<1>1. PICK k \in Nat, f \in [Visitor -> Nat] : Ranking(k, f)
  BY DEF Ranks
<1>2. IsFiniteSet(Past') /\ Past \subseteq Past'
  BY NumbersAssumption, FS_Subset DEF Past
<1>3. IsFiniteSet(Past) /\ Cardinality(Past) <= Cardinality(Past')
  BY <1>2, FS_Subset
<1>4. Cardinality(Past) \in Nat /\ Cardinality(Past') \in Nat
  BY <1>2, <1>3, FS_CardinalityType
<1>5. k <= Cardinality(Past')
  BY <1>1, <1>3, <1>4 DEF Ranking
<1>6. Ranking(k, f)'
  BY <1>1, <1>5 DEF Ranking
<1> QED
  BY <1>6

LEMMA NumbersBegin ==
  ASSUME NEW r \in BOOLEAN, NumbersStart(r)
  PROVE  NumbersInv
<1> USE NumbersAssumption
<1>1. /\ line = <<>> /\ id = 0 /\ desk.with = {} /\ desk.pc \in {"accept", "dead"}
      /\ desk.value = NoNumber
      /\ \A v \in Visitor : /\ visitor[v].pc = "new" /\ visitor[v].sent = NoNumber
                            /\ replies[v] = <<>> /\ number[v] = NoNumber
  BY DEF NumbersStart, Nobody
<1>2. NumbersTypeOK
  <2>1. visitor \in [Visitor -> VisitorState]
    BY DEF NumbersStart, VisitorState
  <2>2. desk \in [pc : {"accept", "read", "answer", "answer2", "dead"},
                  with : SUBSET Visitor, value : Number \cup {NoNumber}]
    BY DEF NumbersStart, Nobody
  <2>3. id \in Number
    BY <1>1 DEF Number
  <2> QED
    BY <2>1, <2>2, <2>3 DEF NumbersStart, NumbersTypeOK
<1>3. Seats
  BY <1>1 DEF Seats
<1>4. ASSUME NEW v \in Visitor PROVE VisitorOk(v) /\ Place(v) = "new"
  BY <1>1 DEF VisitorOk, Owns, Fits, Place
<1>5. Ranks
  <2> DEFINE f == [v \in Visitor |-> 0]
  <2>1. IsFiniteSet(Past)
    BY FS_Subset DEF Past
  <2>2. Cardinality(Past) \in Nat
    BY <2>1, FS_CardinalityType
  <2>3. IdOf(0) = 0
    BY DEF IdOf
  <2>4. Ranking(0, f)
    BY <1>1, <1>4, <2>2, <2>3 DEF Ranking, HasId
  <2>5. f \in [Visitor -> Nat]
    OBVIOUS
  <2> HIDE DEF f
  <2> QED
    BY <2>4, <2>5 DEF Ranks
<1> QED
  BY <1>2, <1>3, <1>4, <1>5 DEF NumbersInv

LEMMA VisitKeeps ==
  ASSUME NumbersInv, NEW u \in Visitor, Visit(u)
  PROVE  NumbersInv'
<1> DEFINE r == visitor[u]
           n == Len(line)
<1>0. /\ visitor \in [Visitor -> VisitorState] /\ line \in Seq(Visitor)
      /\ r \in VisitorState /\ n \in Nat
  BY NumbersTypes DEF NumbersInv
<1>1. /\ visitor[u].pc = "new" /\ visitor' = [visitor EXCEPT ![u] = [r EXCEPT !.pc = "connected"]]
      /\ line' = Append(line, u) /\ UNCHANGED <<number, replies, desk, id>>
  BY DEF Visit
<1>2. /\ visitor'[u] = [r EXCEPT !.pc = "connected"]
      /\ \A v \in Visitor : v # u => visitor'[v] = visitor[v]
  BY <1>0, <1>1
<1>3. visitor'[u].pc = "connected" /\ visitor'[u].sent = r.sent
  BY <1>0, <1>2 DEF VisitorState
<1>4. /\ Len(line') = n + 1 /\ line'[n + 1] = u
      /\ \A i \in 1..n : line'[i] = line[i]
  BY <1>0, <1>1
<1>5. \A v : Lined(v)' <=> Lined(v) \/ v = u
  <2> HIDE DEF n
  <2>1. \A i \in 1..(n + 1) : i = n + 1 \/ i \in 1..n
    BY <1>0
  <2>2. n + 1 \in 1..(n + 1) /\ 1..n \subseteq 1..(n + 1)
    BY <1>0
  <2> QED
    BY <1>4, <2>1, <2>2 DEF Lined, n
<1>6. ~Lined(u) /\ ~Serving(u)
  BY <1>1 DEF Lined, Serving, NumbersInv, Seats
<1>7. NumbersTypeOK'
  <2>1. visitor' \in [Visitor -> VisitorState]
    BY <1>0, <1>1, VisitorTypes
  <2>2. line' \in Seq(Visitor)
    BY <1>0, <1>1
  <2> QED
    BY <1>1, <2>1, <2>2 DEF NumbersInv, NumbersTypeOK
<1>8. ASSUME NEW v \in Visitor, v # u PROVE Place(v)' = Place(v)
  <2>1. (Lined(v)' <=> Lined(v)) /\ (Serving(v)' <=> Serving(v)) /\ (desk.pc)' = desk.pc
    BY <1>1, <1>5, <1>8 DEF Serving
  <2> QED
    BY <1>2, <1>8, <2>1 DEF Place
<1>9. Place(u) = "new" /\ Place(u)' = "line"
  BY <1>1, <1>3, <1>5 DEF Place
<1>10. Seats'
  <2>1. \A i, j \in 1..Len(line') : line'[i] = line'[j] => i = j
    <3>1. \A i \in 1..n : line[i] # u
      BY <1>6 DEF Lined
    <3>2. \A i, j \in 1..n : line[i] = line[j] => i = j
      BY DEF NumbersInv, Seats
    <3>3. \A i \in 1..(n + 1) : i = n + 1 \/ i \in 1..n
      BY <1>0
    <3> HIDE DEF n
    <3> QED
      BY <1>4, <3>1, <3>2, <3>3
  <2>2. \A i \in 1..Len(line') : visitor'[line'[i]].pc # "new"
    <3> SUFFICES ASSUME NEW i \in 1..Len(line') PROVE visitor'[line'[i]].pc # "new"
      OBVIOUS
    <3>1. CASE i = n + 1
      BY <1>3, <1>4, <3>1
    <3>2. CASE i \in 1..n
      <4>1. line'[i] = line[i] /\ line[i] \in Visitor /\ line[i] # u
        BY <1>0, <1>4, <1>6, <3>2 DEF Lined
      <4>2. visitor[line[i]].pc # "new"
        BY <3>2 DEF NumbersInv, Seats
      <4> QED
        BY <1>2, <4>1, <4>2
    <3> QED
      BY <1>0, <1>4, <3>1, <3>2
  <2>3. ASSUME NEW v \in Visitor, desk.with = {v}, visitor[v].pc # "new" /\ ~Lined(v)
        PROVE  (visitor[v].pc # "new" /\ ~Lined(v))'
    <3>1. v # u
      BY <1>1, <2>3
    <3> QED
      BY <1>2, <1>5, <2>3, <3>1
  <2>4. (\/ desk.pc \in {"accept", "dead"} /\ desk.with = {}
         \/ /\ desk.pc \in {"read", "answer", "answer2"}
            /\ \E v \in Visitor : desk.with = {v} /\ visitor[v].pc # "new" /\ ~Lined(v))'
    BY <1>1, <2>3 DEF NumbersInv, Seats
  <2> QED
    BY <2>1, <2>2, <2>4 DEF Seats
<1>11. ASSUME NEW v \in Visitor PROVE VisitorOk(v)'
  <2>1. CASE v = u
    <3>1. Owns(r, replies[u], number[u])
      BY DEF NumbersInv, VisitorOk
    <3>2. replies[u] = <<>> /\ number[u] = r.sent /\ r.sent = NoNumber
      BY <1>1, <3>1 DEF Owns
    <3> QED
      BY <1>1, <1>3, <1>9, <2>1, <3>2 DEF VisitorOk, Owns, Fits, Unanswered
  <2>2. CASE v # u
    BY <1>1, <1>2, <1>8, <2>2, VisitorStays DEF NumbersInv
  <2> QED
    BY <2>1, <2>2
<1>12. Ranks'
  <2>1. \A v \in Visitor : HasId(v)' => v # u /\ HasId(v)
    BY <1>2, <1>8, <1>9 DEF HasId
  <2>2. \A v \in Visitor : HasId(v)' =>
          GivenId(visitor[v], replies[v])' = GivenId(visitor[v], replies[v])
    BY <1>1, <1>2, <2>1
  <2>3. \A v \in Visitor : Place(v) = "past" => Place(v)' = "past"
    BY <1>8, <1>9
  <2> QED
    BY <1>1, <2>1, <2>2, <2>3, RanksStay DEF NumbersInv
<1> QED
  BY <1>7, <1>10, <1>11, <1>12 DEF NumbersInv

\* A visitor that acts itself stays in its place.
LEMMA PlacesStay ==
  ASSUME NumbersInv, NEW u \in Visitor, NEW r, r.pc # "new", visitor[u].pc # "new",
         visitor' = [visitor EXCEPT ![u] = r], UNCHANGED <<line, desk>>
  PROVE  /\ \A v \in Visitor : Place(v)' = Place(v)
         /\ Seats'
         /\ visitor'[u] = r /\ \A v \in Visitor : v # u => visitor'[v] = visitor[v]
<1>0. visitor \in [Visitor -> VisitorState] /\ line \in Seq(Visitor)
  BY NumbersTypes DEF NumbersInv
<1>1. visitor'[u] = r /\ \A v \in Visitor : v # u => visitor'[v] = visitor[v]
  BY <1>0
<1>2. \A v \in Visitor : (visitor'[v].pc = "new") <=> (visitor[v].pc = "new")
  BY <1>1
<1>3. \A v : (Lined(v)' <=> Lined(v)) /\ (Serving(v)' <=> Serving(v))
  BY DEF Lined, Serving
<1>4. \A v \in Visitor : Place(v)' = Place(v)
  BY <1>2, <1>3 DEF Place
<1>5. \A i \in 1..Len(line') : visitor'[line'[i]].pc # "new"
  <2>1. \A i \in 1..Len(line) : line[i] \in Visitor
    BY <1>0
  <2> QED
    BY <1>2, <2>1 DEF NumbersInv, Seats
<1>6. Seats'
  BY <1>2, <1>3, <1>5 DEF NumbersInv, Seats
<1> QED
  BY <1>1, <1>4, <1>6

LEMMA SendKeeps ==
  ASSUME NumbersInv, NEW u \in Visitor, SendNumber(u)
  PROVE  NumbersInv'
<1> DEFINE r == visitor[u]
<1>0. /\ visitor \in [Visitor -> VisitorState] /\ r \in VisitorState
      /\ number \in [Visitor -> Number \cup {NoNumber}]
  BY NumbersTypes DEF NumbersInv
<1>1. PICK n \in Number :
        /\ visitor' = [visitor EXCEPT ![u] = [r EXCEPT !.pc = "wait", !.sent = n]]
        /\ number' = [number EXCEPT ![u] = n]
  BY DEF SendNumber
<1>2. visitor[u].pc = "connected" /\ UNCHANGED <<line, replies, desk, id>>
  BY DEF SendNumber
<1> DEFINE t == [r EXCEPT !.pc = "wait", !.sent = n]
<1>3. t \in VisitorState /\ t.pc = "wait" /\ t.sent = n
  <2>1. t.pc = "wait" /\ t.sent = n
    BY <1>0 DEF VisitorState
  <2> HIDE DEF r
  <2>2. t \in VisitorState
    BY <1>0, VisitorTypes
  <2> QED
    BY <2>1, <2>2
<1> HIDE DEF t
<1>4. /\ \A v \in Visitor : Place(v)' = Place(v)
      /\ Seats'
      /\ visitor'[u] = t /\ \A v \in Visitor : v # u => visitor'[v] = visitor[v]
  BY <1>1, <1>2, <1>3, PlacesStay DEF t
<1>5. number'[u] = n /\ \A v \in Visitor : v # u => number'[v] = number[v]
  BY <1>0, <1>1
<1>6. NumbersTypeOK'
  <2>1. visitor' \in [Visitor -> VisitorState]
    BY <1>0, <1>1, <1>3 DEF t
  <2>2. number' \in [Visitor -> Number \cup {NoNumber}]
    BY <1>0, <1>1
  <2> QED
    BY <1>2, <2>1, <2>2 DEF NumbersInv, NumbersTypeOK
<1>7. VisitorOk(u) /\ replies[u] = <<>>
  BY <1>2 DEF NumbersInv, VisitorOk, Owns
<1>8. Place(u) \in {"new", "line", "read"}
  <2>1. Place(u) \in {"new", "line", "past", "read", "answer", "answer2"}
    BY DEF NumbersInv, Seats, Place, Serving
  <2>2. Place(u) # "answer" /\ Place(u) # "answer2" /\ Place(u) # "past"
    BY <1>2, <1>7 DEF VisitorOk, Fits, HalfAnswered, Answered
  <2> QED
    BY <2>1, <2>2
<1>9. ASSUME NEW v \in Visitor PROVE VisitorOk(v)'
  <2>1. CASE v = u
    <3>1. Owns(t, replies[u], n) /\ Unanswered(t, replies[u])
      BY <1>3, <1>7 DEF Owns, Unanswered
    <3>2. Place(u)' \in {"new", "line", "read"} /\ replies'[u] = replies[u]
      BY <1>2, <1>4, <1>8
    <3> QED
      BY <1>4, <1>5, <2>1, <3>1, <3>2 DEF VisitorOk, Fits
  <2>2. CASE v # u
    BY <1>2, <1>4, <1>5, <2>2, VisitorStays DEF NumbersInv
  <2> QED
    BY <2>1, <2>2
<1>10. Ranks'
  <2>1. \A v \in Visitor : HasId(v)' => v # u /\ HasId(v)
    BY <1>4, <1>8 DEF HasId
  <2>2. \A v \in Visitor : HasId(v)' =>
          GivenId(visitor[v], replies[v])' = GivenId(visitor[v], replies[v])
    BY <1>2, <1>4, <2>1
  <2>3. \A v \in Visitor : Place(v) = "past" => Place(v)' = "past"
    BY <1>4
  <2> QED
    BY <1>2, <2>1, <2>2, <2>3, RanksStay DEF NumbersInv
<1> QED
  BY <1>4, <1>6, <1>9, <1>10 DEF NumbersInv

LEMMA FailKeeps ==
  ASSUME NumbersInv, NEW u \in Visitor, Fails(u)
  PROVE  NumbersInv'
<1> DEFINE r == visitor[u]
           t == [r EXCEPT !.pc = "failed"]
<1>0. /\ visitor \in [Visitor -> VisitorState] /\ r \in VisitorState
      /\ replies \in [Visitor -> Seq(Number)]
  BY NumbersTypes DEF NumbersInv
<1>1. /\ visitor[u].pc # "new" /\ visitor' = [visitor EXCEPT ![u] = t]
      /\ replies' = [replies EXCEPT ![u] = <<>>]
      /\ UNCHANGED <<line, number, desk, id>>
  BY DEF Fails
<1>3. t \in VisitorState /\ t.pc = "failed" /\ t.sent = r.sent
  <2>1. t.pc = "failed" /\ t.sent = r.sent
    BY <1>0 DEF VisitorState
  <2> HIDE DEF r
  <2>2. t \in VisitorState
    BY <1>0, VisitorTypes
  <2> QED
    BY <2>1, <2>2
<1> HIDE DEF t
<1>4. /\ \A v \in Visitor : Place(v)' = Place(v)
      /\ Seats'
      /\ visitor'[u] = t /\ \A v \in Visitor : v # u => visitor'[v] = visitor[v]
  BY <1>1, <1>3, PlacesStay
<1>5. replies'[u] = <<>> /\ \A v \in Visitor : v # u => replies'[v] = replies[v]
  BY <1>0, <1>1
<1>6. NumbersTypeOK'
  <2>1. visitor' \in [Visitor -> VisitorState]
    BY <1>0, <1>1, <1>3
  <2>2. replies' \in [Visitor -> Seq(Number)]
    BY <1>0, <1>1
  <2> QED
    BY <1>1, <2>1, <2>2 DEF NumbersInv, NumbersTypeOK
<1>9. ASSUME NEW v \in Visitor PROVE VisitorOk(v)'
  <2>1. CASE v = u
    <3>1. VisitorOk(u) /\ number' = number /\ (desk.value)' = desk.value
          /\ (Place(u) = "answer" => desk.value = r.sent) /\ number[u] = r.sent
      BY <1>1 DEF NumbersInv, VisitorOk, Fits, Owns
    <3>2. Owns(t, <<>>, number[u])
      BY <1>3, <3>1 DEF Owns
    <3>3. Fits(Place(u), t, <<>>, desk.value)
      BY <1>3, <3>1 DEF Fits, Unanswered, HalfAnswered, Answered
    <3> QED
      BY <1>4, <1>5, <2>1, <3>1, <3>2, <3>3 DEF VisitorOk
  <2>2. CASE v # u
    BY <1>1, <1>4, <1>5, <2>2, VisitorStays DEF NumbersInv
  <2> QED
    BY <2>1, <2>2
<1>10. Ranks'
  <2>1. \A v \in Visitor : HasId(v)' => v # u /\ HasId(v)
    BY <1>3, <1>4 DEF HasId
  <2>2. \A v \in Visitor : HasId(v)' =>
          GivenId(visitor[v], replies[v])' = GivenId(visitor[v], replies[v])
    BY <1>4, <1>5, <2>1
  <2>3. \A v \in Visitor : Place(v) = "past" => Place(v)' = "past"
    BY <1>4
  <2> QED
    BY <1>1, <2>1, <2>2, <2>3, RanksStay DEF NumbersInv
<1> QED
  BY <1>4, <1>6, <1>9, <1>10 DEF NumbersInv

LEMMA TailsAre ==
  ASSUME NEW S, NEW q \in Seq(S)
  PROVE  /\ Len(q) = 1 => Tail(q) = <<>> /\ q[Len(q)] = Head(q)
         /\ Len(q) = 2 => Len(Tail(q)) = 1 /\ Tail(q)[1] = q[2]
<1>1. ASSUME Len(q) = 1 PROVE Tail(q) = <<>> /\ q[Len(q)] = Head(q)
  <2>1. Tail(q) \in Seq(S) /\ Len(Tail(q)) = 0
    BY <1>1
  <2>2. Tail(q) = <<>>
    BY <2>1, EmptySeq
  <2> QED
    BY <1>1, <2>2
<1>2. ASSUME Len(q) = 2 PROVE Len(Tail(q)) = 1 /\ Tail(q)[1] = q[2]
  <2>1. q # <<>>
    BY <1>2
  <2>2. Len(Tail(q)) = 1 /\ 1 \in 1..Len(Tail(q))
    <3> DEFINE k == Len(Tail(q))
    <3>1. k = Len(q) - 1
      BY <2>1, HeadTailProperties
    <3> HIDE DEF k
    <3>2. k = 1
      BY <1>2, <3>1
    <3>3. 1 \in 1..k
      BY <3>2
    <3> QED
      BY <3>2, <3>3, Zenon DEF k
  <2> QED
    BY <2>1, <2>2, HeadTailProperties
<1> QED
  BY <1>1, <1>2

Takes(r, q, t) == \/ r.pc = "wait" /\ t = [r EXCEPT !.pc = "wait2", !.next = Head(q)]
                  \/ r.pc = "wait2" /\ t = [r EXCEPT !.pc = "done", !.id = Head(q)]

\* What a visitor takes from the replies is what it has then.
LEMMA GetFits ==
  ASSUME NEW p \in {"line", "read", "answer", "answer2", "past"}, NEW value,
         NEW r \in VisitorState, NEW q \in Seq(Number), NEW n, NEW t \in VisitorState,
         q # <<>>, Owns(r, q, n), Fits(p, r, q, value), Takes(r, q, t)
  PROVE  /\ Owns(t, Tail(q), n) /\ Fits(p, t, Tail(q), value)
         /\ p = "past" => GivenId(t, Tail(q)) = GivenId(r, q)
<1>1. p \in {"answer2", "past"}
  BY DEF Fits, Unanswered, Takes
<1>2. CASE r.pc = "wait" /\ t = [r EXCEPT !.pc = "wait2", !.next = Head(q)]
  <2>1. t.pc = "wait2" /\ t.sent = r.sent /\ t.next = Head(q) /\ r.sent \in Number
    BY <1>2 DEF VisitorState, Owns
  <2>2. Head(q) = Plus(r.sent) /\ (p = "answer2" => Len(q) = 1) /\ (p = "past" => Len(q) = 2)
    BY <1>1, <1>2 DEF Fits, HalfAnswered, Answered
  <2>3. Len(q) = 1 => Tail(q) = <<>>
    BY TailsAre
  <2>4. Len(q) = 2 => Len(Tail(q)) = 1 /\ Tail(q)[1] = q[2]
    BY TailsAre
  <2>5. Owns(t, Tail(q), n)
    BY <2>1, <2>2 DEF Owns
  <2>6. Fits(p, t, Tail(q), value)
    BY <1>1, <2>1, <2>2, <2>3, <2>4 DEF Fits, HalfAnswered, Answered
  <2>7. p = "past" => GivenId(t, Tail(q)) = GivenId(r, q)
    BY <1>2, <2>1, <2>2, <2>4 DEF GivenId
  <2> QED
    BY <2>5, <2>6, <2>7
<1>3. CASE r.pc = "wait2" /\ t = [r EXCEPT !.pc = "done", !.id = Head(q)]
  <2>1. t.pc = "done" /\ t.sent = r.sent /\ t.next = r.next /\ t.id = Head(q)
    BY <1>3 DEF VisitorState
  <2>2. p = "past" /\ Len(q) = 1
    BY <1>1, <1>3 DEF Fits, HalfAnswered, Answered
  <2>3. Tail(q) = <<>> /\ q[Len(q)] = Head(q)
    BY <2>2, TailsAre
  <2>4. Owns(t, Tail(q), n) /\ Fits(p, t, Tail(q), value)
    BY <1>3, <2>1, <2>2, <2>3 DEF Owns, Fits, Answered
  <2>5. GivenId(t, Tail(q)) = GivenId(r, q)
    BY <1>3, <2>1, <2>3 DEF GivenId
  <2> QED
    BY <2>4, <2>5
<1> QED
  BY <1>2, <1>3 DEF Takes

LEMMA GetKeeps ==
  ASSUME NumbersInv, NEW u \in Visitor, GetNumber(u)
  PROVE  NumbersInv'
<1> DEFINE r == visitor[u]
           q == replies[u]
<1>0. /\ visitor \in [Visitor -> VisitorState] /\ r \in VisitorState
      /\ replies \in [Visitor -> Seq(Number)] /\ q \in Seq(Number)
  BY NumbersTypes DEF NumbersInv
<1>1. PICK t : /\ visitor' = [visitor EXCEPT ![u] = t]
               /\ \/ r.pc = "wait" /\ t = [r EXCEPT !.pc = "wait2", !.next = Head(q)]
                  \/ r.pc = "wait2" /\ t = [r EXCEPT !.pc = "done", !.id = Head(q)]
  BY DEF GetNumber
<1>2. /\ q # <<>> /\ replies' = [replies EXCEPT ![u] = Tail(q)]
      /\ UNCHANGED <<line, number, desk, id>>
  BY DEF GetNumber
<1>3. t \in VisitorState
  <2>1. Head(q) \in Number
    BY <1>0, <1>2
  <2> DEFINE h == Head(q)
  <2>2. /\ r \in VisitorState /\ h \in Number
        /\ \/ t = [r EXCEPT !.pc = "wait2", !.next = h]
           \/ t = [r EXCEPT !.pc = "done", !.id = h]
    BY <1>0, <1>1, <2>1
  <2> HIDE DEF r, q, h
  <2>3. CASE t = [r EXCEPT !.pc = "wait2", !.next = h]
    BY <2>2, <2>3, VisitorTypes, Zenon
  <2>4. CASE t = [r EXCEPT !.pc = "done", !.id = h]
    BY <2>2, <2>4, VisitorTypes, Zenon
  <2> QED
    BY <2>2, <2>3, <2>4
<1>4. r.pc # "new" /\ t.pc # "new" /\ t.pc # "failed" /\ r.pc # "failed"
  BY <1>0, <1>1 DEF VisitorState
<1>5. /\ \A v \in Visitor : Place(v)' = Place(v)
      /\ Seats'
      /\ visitor'[u] = t /\ \A v \in Visitor : v # u => visitor'[v] = visitor[v]
  BY <1>1, <1>2, <1>4, PlacesStay
<1>6. replies'[u] = Tail(q) /\ \A v \in Visitor : v # u => replies'[v] = replies[v]
  BY <1>0, <1>2
<1>7. NumbersTypeOK'
  <2>1. visitor' \in [Visitor -> VisitorState]
    BY <1>0, <1>1, <1>3
  <2>2. Tail(q) \in Seq(Number)
    BY <1>0, <1>2
  <2>3. replies' \in [Visitor -> Seq(Number)]
    BY <1>0, <1>2, <2>2
  <2> QED
    BY <1>2, <2>1, <2>3 DEF NumbersInv, NumbersTypeOK
<1>8. Place(u) \in {"line", "read", "answer", "answer2", "past"}
  BY <1>4 DEF NumbersInv, Seats, Place, Serving
<1>9. /\ Owns(t, Tail(q), number[u]) /\ Fits(Place(u), t, Tail(q), desk.value)
      /\ Place(u) = "past" => GivenId(t, Tail(q)) = GivenId(r, q)
  <2>1. Owns(r, q, number[u]) /\ Fits(Place(u), r, q, desk.value)
    BY DEF NumbersInv, VisitorOk
  <2> DEFINE p == Place(u)
             n == number[u]
             value == desk.value
  <2>2. /\ r \in VisitorState /\ q \in Seq(Number) /\ q # <<>> /\ t \in VisitorState
        /\ Owns(r, q, n) /\ Fits(p, r, q, value)
        /\ p \in {"line", "read", "answer", "answer2", "past"}
    BY <1>0, <1>2, <1>3, <1>8, <2>1
  <2> HIDE DEF r, q, p, n, value
  <2>3. /\ Owns(t, Tail(q), n) /\ Fits(p, t, Tail(q), value)
        /\ p = "past" => GivenId(t, Tail(q)) = GivenId(r, q)
    <3>1. Takes(r, q, t)
      BY <1>1 DEF Takes
    <3> QED
      BY <2>2, <3>1, GetFits
  <2> QED
    BY <2>3 DEF p, n, value
<1>10. ASSUME NEW v \in Visitor PROVE VisitorOk(v)'
  <2>1. CASE v = u
    <3>1. number' = number /\ (desk.value)' = desk.value
      BY <1>2
    <3> QED
      BY <1>5, <1>6, <1>9, <2>1, <3>1 DEF VisitorOk
  <2>2. CASE v # u
    BY <1>2, <1>5, <1>6, <2>2, VisitorStays DEF NumbersInv
  <2> QED
    BY <2>1, <2>2
<1>11. Ranks'
  <2>1. ASSUME NEW v \in Visitor, HasId(v)'
        PROVE  HasId(v) /\ GivenId(visitor[v], replies[v])' = GivenId(visitor[v], replies[v])
    <3>1. Place(v) = "past"
      BY <1>5, <2>1 DEF HasId
    <3>2. CASE v = u
      BY <1>4, <1>5, <1>6, <1>9, <3>1, <3>2 DEF HasId
    <3>3. CASE v # u
      BY <1>5, <1>6, <2>1, <3>3 DEF HasId
    <3> QED
      BY <3>2, <3>3
  <2>3. \A v \in Visitor : Place(v) = "past" => Place(v)' = "past"
    BY <1>5
  <2> QED
    BY <1>2, <2>1, <2>3, RanksStay DEF NumbersInv
<1> QED
  BY <1>5, <1>7, <1>10, <1>11 DEF NumbersInv

LEMMA TakeKeeps == ASSUME NumbersInv, TakeVisitor PROVE NumbersInv'
<1> DEFINE n == Len(line)
<1>a. line \in Seq(Visitor) /\ line # <<>>
  BY NumbersTypes DEF NumbersInv, TakeVisitor
<1>b. PICK u \in Visitor : u = Head(line)
  BY <1>a
<1>0. /\ line \in Seq(Visitor) /\ n \in Nat /\ line # <<>> /\ u \in Visitor /\ u = line[1]
      /\ 1 \in 1..n
  BY <1>a, <1>b
<1>1. /\ desk.pc = "accept" /\ desk' = [pc |-> "read", with |-> {u}, value |-> NoNumber]
      /\ line' = Tail(line) /\ UNCHANGED <<visitor, number, replies, id>>
  BY <1>b DEF TakeVisitor
<1>2. /\ (desk.pc)' = "read" /\ (desk.with)' = {u} /\ desk.with = {}
  BY <1>1 DEF NumbersInv, Seats
<1>3. /\ line' \in Seq(Visitor) /\ Len(line') = n - 1
      /\ \A i \in 1..(n - 1) : line'[i] = line[i + 1]
  <2>1. Len(line') = n - 1 /\ line' \in Seq(Visitor)
    BY <1>0, <1>1, HeadTailProperties
  <2> QED
    BY <1>0, <1>1, <2>1, HeadTailProperties
<1>4. \A v : Lined(v)' <=> Lined(v) /\ v # u
  <2>1. ASSUME NEW v, Lined(v)' PROVE Lined(v) /\ v # u
    <3>1. PICK i \in 1..(n - 1) : line'[i] = v
      BY <1>3, <2>1 DEF Lined
    <3>2. line[i + 1] = v /\ i + 1 \in 1..n /\ i + 1 # 1
      BY <1>0, <1>3, <3>1
    <3> QED
      BY <1>0, <3>2 DEF Lined, NumbersInv, Seats
  <2>2. ASSUME NEW v, Lined(v), v # u PROVE Lined(v)'
    <3>1. PICK i \in 1..n : line[i] = v
      BY <2>2 DEF Lined
    <3>2. i # 1
      BY <1>0, <2>2, <3>1
    <3>3. i - 1 \in 1..(n - 1) /\ (i - 1) + 1 = i
      BY <1>0, <3>2
    <3>4. line'[i - 1] = v
      BY <1>3, <3>1, <3>3
    <3> QED
      BY <1>3, <3>3, <3>4 DEF Lined
  <2> QED
    BY <2>1, <2>2
<1>5. Lined(u) /\ visitor[u].pc # "new"
  BY <1>0 DEF Lined, NumbersInv, Seats
<1>6. Place(u) = "line" /\ Place(u)' = "read"
  BY <1>1, <1>2, <1>4, <1>5 DEF Place, Serving
<1>7. ASSUME NEW v \in Visitor, v # u PROVE Place(v)' = Place(v)
  <2>1. ~Serving(v) /\ ~Serving(v)' /\ (Lined(v)' <=> Lined(v)) /\ visitor' = visitor
    BY <1>1, <1>2, <1>4, <1>7 DEF Serving
  <2> QED
    BY <2>1 DEF Place
<1>8. NumbersTypeOK'
  <2>1. desk' \in [pc : {"accept", "read", "answer", "answer2", "dead"},
                   with : SUBSET Visitor, value : Number \cup {NoNumber}]
    <3> QED
      BY <1>0, <1>1
  <2> QED
    BY <1>1, <1>3, <2>1 DEF NumbersInv, NumbersTypeOK
<1>9. Seats'
  <2>1. ASSUME NEW i \in 1..Len(line'), NEW j \in 1..Len(line'), line'[i] = line'[j]
        PROVE  i = j
    <3>1. i + 1 \in 1..n /\ j + 1 \in 1..n /\ line[i + 1] = line[j + 1]
      BY <1>0, <1>3, <2>1
    <3>2. i + 1 = j + 1
      BY <3>1 DEF NumbersInv, Seats
    <3> QED
      BY <1>0, <1>3, <3>2
  <2>2. ASSUME NEW i \in 1..Len(line') PROVE visitor'[line'[i]].pc # "new"
    <3>1. i + 1 \in 1..n /\ line'[i] = line[i + 1]
      BY <1>0, <1>3
    <3> QED
      BY <1>1, <3>1 DEF NumbersInv, Seats
  <2>3. (desk.with = {u} /\ visitor[u].pc # "new" /\ ~Lined(u))'
    BY <1>1, <1>2, <1>4, <1>5
  <2>4. desk'.with = {u} /\ visitor'[u].pc # "new" /\ ~Lined(u)' /\ desk'.pc = "read"
    BY <1>2, <2>3
  <2> QED
    BY <1>0, <2>1, <2>2, <2>4 DEF Seats
<1>10. ASSUME NEW v \in Visitor PROVE VisitorOk(v)'
  <2>1. CASE v = u
    <3>1. Owns(visitor[u], replies[u], number[u]) /\ Unanswered(visitor[u], replies[u])
      BY <1>0, <1>6 DEF NumbersInv, VisitorOk, Fits
    <3>2. visitor' = visitor /\ replies' = replies /\ number' = number
      BY <1>1
    <3> QED
      BY <1>6, <2>1, <3>1, <3>2 DEF VisitorOk, Fits
  <2>2. CASE v # u
    <3>1. Place(v) # "answer"
      BY <1>1 DEF Place
    <3> QED
      BY <1>1, <1>7, <2>2, <3>1, VisitorStays DEF NumbersInv
  <2> QED
    BY <2>1, <2>2
<1>11. Ranks'
  <2>1. \A v \in Visitor : HasId(v)' => v # u /\ HasId(v)
    BY <1>1, <1>6, <1>7 DEF HasId
  <2>2. \A v \in Visitor : HasId(v)' =>
          GivenId(visitor[v], replies[v])' = GivenId(visitor[v], replies[v])
    BY <1>1
  <2>3. \A v \in Visitor : Place(v) = "past" => Place(v)' = "past"
    BY <1>6, <1>7
  <2> QED
    BY <1>1, <2>1, <2>2, <2>3, RanksStay DEF NumbersInv
<1> QED
  BY <1>8, <1>9, <1>10, <1>11 DEF NumbersInv

\* The visitor at the desk, and what becomes of the others when the desk moves on.
LEMMA AtDesk ==
  ASSUME NumbersInv, NEW u \in Visitor, Serving(u), UNCHANGED <<visitor, line>>,
         NEW next, desk' = next, next.pc \in {"accept", "dead", "answer", "answer2"},
         next.with = IF next.pc \in {"accept", "dead"} THEN {} ELSE {u}
  PROVE  /\ Place(u) = desk.pc /\ desk.pc \in {"read", "answer", "answer2"}
         /\ Place(u)' = IF next.pc \in {"accept", "dead"} THEN "past" ELSE next.pc
         /\ \A v \in Visitor : v # u =>
              Place(v)' = Place(v) /\ Place(v) \in {"new", "line", "past"}
         /\ Seats'
<1>1. desk.with = {u} /\ desk.pc \in {"read", "answer", "answer2"}
      /\ visitor[u].pc # "new" /\ ~Lined(u)
  <2>1. desk.with = {u}
    BY DEF Serving
  <2>2. PICK v \in Visitor : /\ desk.with = {v}
                             /\ visitor[v].pc # "new" /\ ~Lined(v)
                             /\ desk.pc \in {"read", "answer", "answer2"}
    BY <2>1 DEF NumbersInv, Seats
  <2> QED
    BY <2>1, <2>2
<1>2. \A v : Lined(v)' <=> Lined(v)
  BY DEF Lined
<1>3. Place(u) = desk.pc
  BY <1>1 DEF Place, Serving
<1>4. Serving(u)' <=> ~ (next.pc \in {"accept", "dead"})
  BY DEF Serving
<1>5. Place(u)' = IF next.pc \in {"accept", "dead"} THEN "past" ELSE next.pc
  BY <1>1, <1>2, <1>4 DEF Place
<1>6. ASSUME NEW v \in Visitor, v # u
      PROVE  Place(v)' = Place(v) /\ Place(v) \in {"new", "line", "past"}
  <2>1. ~Serving(v) /\ ~Serving(v)'
    BY <1>1, <1>6 DEF Serving
  <2> QED
    BY <1>2, <2>1 DEF Place
<1>7. Seats'
  <2>1. /\ \A i, j \in 1..Len(line') : line'[i] = line'[j] => i = j
        /\ \A i \in 1..Len(line') : visitor'[line'[i]].pc # "new"
    BY DEF NumbersInv, Seats
  <2>2. visitor'[u].pc # "new" /\ ~Lined(u)'
    BY <1>1, <1>2
  <2>3. CASE next.pc \in {"accept", "dead"}
    BY <2>1, <2>3 DEF Seats
  <2>4. CASE next.pc \in {"answer", "answer2"}
    BY <2>1, <2>2, <2>4 DEF Seats
  <2> QED
    BY <2>3, <2>4
<1> QED
  BY <1>1, <1>3, <1>5, <1>6, <1>7

\* One more visitor is past, and no id of theirs has changed.
LEMMA RanksGrow ==
  ASSUME NumbersInv, NEW u \in Visitor, NEW n, n = (id + 1) % Uint, id' = n,
         visitor' = visitor,
         Place(u) # "past", Place(u)' = "past",
         \A v \in Visitor : v # u => Place(v)' = Place(v) /\ replies'[v] = replies[v],
         visitor[u].pc # "failed" => GivenId(visitor[u], replies'[u]) = n
  PROVE  Ranks' /\ (Cardinality(Visitor) <= Uint => n \in Number)
<1> SUFFICES ASSUME Cardinality(Visitor) <= Uint
             PROVE  /\ \E k \in Nat, f \in [Visitor -> Nat] : Ranking(k, f)'
                    /\ n \in Number
  BY DEF Ranks
<1>1. PICK k \in Nat, f \in [Visitor -> Nat] : Ranking(k, f)
  BY DEF NumbersInv, Ranks
<1>2. IsFiniteSet(Visitor) /\ Uint \in Nat /\ Uint > 1
  BY NumbersAssumption
<1>3. Past' = Past \cup {u} /\ u \notin Past /\ Past \cup {u} \subseteq Visitor
  BY DEF Past
<1>4. IsFiniteSet(Past)
  BY <1>2, <1>3, FS_Subset
<1>5. Cardinality(Past') = Cardinality(Past) + 1 /\ Cardinality(Past') <= Cardinality(Visitor)
  BY <1>2, <1>3, <1>4, FS_AddElement, FS_Subset
<1>6. Cardinality(Past) \in Nat /\ Cardinality(Visitor) \in Nat
  BY <1>2, <1>4, FS_CardinalityType
<1>7. k <= Cardinality(Past) /\ id = IdOf(k)
  BY <1>1 DEF Ranking
<1>8. k < Uint /\ k + 1 <= Cardinality(Past')
  BY <1>2, <1>5, <1>6, <1>7
<1>9. n = IdOf(k + 1) /\ n \in Number
  BY <1>7, <1>8, IdCounts
<1> DEFINE g == [f EXCEPT ![u] = k + 1]
<1>10. g \in [Visitor -> Nat] /\ g[u] = k + 1 /\ \A v \in Visitor : v # u => g[v] = f[v]
  BY <1>1
<1> HIDE DEF g
<1>11. \A v \in Visitor : v # u => (HasId(v)' <=> HasId(v))
  BY DEF HasId
<1>12. \A v \in Visitor : HasId(v) => f[v] \in 1..k /\ GivenId(visitor[v], replies[v]) = IdOf(f[v])
  BY <1>1 DEF Ranking
<1>13. ASSUME NEW v \in Visitor, HasId(v)'
       PROVE  /\ g[v] \in 1..(k + 1) /\ (v # u => g[v] \in 1..k)
              /\ GivenId(visitor'[v], replies'[v]) = IdOf(g[v])
  <2>1. CASE v = u
    <3>1. visitor[u].pc # "failed"
      BY <1>13, <2>1 DEF HasId
    <3>2. k + 1 \in 1..(k + 1)
      OBVIOUS
    <3> QED
      BY <1>9, <1>10, <2>1, <3>1, <3>2
  <2>2. CASE v # u
    <3>1. HasId(v) /\ g[v] = f[v] /\ replies'[v] = replies[v] /\ visitor'[v] = visitor[v]
      BY <1>10, <1>11, <1>13, <2>2
    <3>2. f[v] \in 1..k /\ GivenId(visitor[v], replies[v]) = IdOf(f[v])
      BY <1>12, <3>1
    <3>3. 1..k \subseteq 1..(k + 1)
      OBVIOUS
    <3> QED
      BY <2>2, <3>1, <3>2, <3>3
  <2> QED
    BY <2>1, <2>2
<1>14. ASSUME NEW v \in Visitor, NEW w \in Visitor, HasId(v)', HasId(w)', g[v] = g[w]
       PROVE  v = w
  <2>1. CASE v # u /\ w # u
    <3>1. HasId(v) /\ HasId(w) /\ f[v] = f[w]
      BY <1>10, <1>11, <1>14, <2>1
    <3> QED
      BY <1>1, <3>1 DEF Ranking
  <2>2. CASE v = u /\ w # u
    <3>1. g[w] \in 1..k /\ g[v] = k + 1
      BY <1>10, <1>13, <1>14, <2>2
    <3> QED
      BY <1>14, <3>1
  <2>3. CASE v # u /\ w = u
    <3>1. g[v] \in 1..k /\ g[w] = k + 1
      BY <1>10, <1>13, <1>14, <2>3
    <3> QED
      BY <1>14, <3>1
  <2> QED
    BY <2>1, <2>2, <2>3
<1>15. Ranking(k + 1, g)'
  BY <1>8, <1>9, <1>13, <1>14 DEF Ranking
<1>16. k + 1 \in Nat
  OBVIOUS
<1> QED
  BY <1>9, <1>10, <1>15, <1>16

LEMMA ReadKeeps ==
  ASSUME NumbersInv, NEW u \in Visitor, ReadNumber(u)
  PROVE  NumbersInv'
<1>0. UNCHANGED <<visitor, line, number, replies, id>> /\ Serving(u) /\ desk.pc = "read"
  BY DEF ReadNumber
<1>1. /\ number \in [Visitor -> Number \cup {NoNumber}]
      /\ desk \in [pc : {"accept", "read", "answer", "answer2", "dead"},
                   with : SUBSET Visitor, value : Number \cup {NoNumber}]
  BY DEF NumbersInv, NumbersTypeOK
<1>2. VisitorOk(u)
  BY DEF NumbersInv
<1>3. CASE number[u] # NoNumber /\ desk' = [desk EXCEPT !.pc = "answer", !.value = number[u]]
  <2> DEFINE d == [desk EXCEPT !.pc = "answer", !.value = number[u]]
  <2>1. d.pc = "answer" /\ d.with = desk.with /\ d.value = number[u]
    BY <1>1
  <2>2. d \in [pc : {"accept", "read", "answer", "answer2", "dead"},
               with : SUBSET Visitor, value : Number \cup {NoNumber}]
    BY <1>1
  <2> HIDE DEF d
  <2>3. desk.with = {u} /\ desk' = d
    BY <1>0, <1>3 DEF Serving, d
  <2>4. /\ Place(u) = desk.pc
        /\ Place(u)' = "answer"
        /\ \A v \in Visitor : v # u =>
             Place(v)' = Place(v) /\ Place(v) \in {"new", "line", "past"}
        /\ Seats'
    BY <1>0, <2>1, <2>3, AtDesk
  <2>5. NumbersTypeOK'
    BY <1>0, <2>2, <2>3 DEF NumbersInv, NumbersTypeOK
  <2>6. ASSUME NEW v \in Visitor PROVE VisitorOk(v)'
    <3>1. CASE v = u
      <4>1. /\ Owns(visitor[u], replies[u], number[u])
            /\ Unanswered(visitor[u], replies[u])
        BY <1>0, <1>2, <2>4 DEF VisitorOk, Fits
      <4>2. visitor[u].pc # "connected" /\ (desk.value)' = visitor[u].sent
        <5>1. number[u] = visitor[u].sent
          BY <4>1 DEF Owns
        <5>2. (desk.value)' = visitor[u].sent
          BY <2>1, <2>3, <5>1
        <5>3. visitor[u].pc # "connected"
          BY <1>3, <1>0, <5>1 DEF NumbersInv, VisitorOk, Owns
        <5> QED
          BY <5>2, <5>3
      <4>3. visitor' = visitor /\ replies' = replies /\ number' = number
        BY <1>0
      <4> QED
        BY <2>4, <3>1, <4>1, <4>2, <4>3 DEF VisitorOk, Fits
    <3>2. CASE v # u
      BY <1>0, <2>4, <3>2, VisitorStays DEF NumbersInv
    <3> QED
      BY <3>1, <3>2
  <2>7. Ranks'
    <3>1. \A v \in Visitor : HasId(v)' => v # u /\ HasId(v)
      BY <1>0, <2>4 DEF HasId
    <3>2. \A v \in Visitor : GivenId(visitor[v], replies[v])' = GivenId(visitor[v], replies[v])
      BY <1>0
    <3>3. \A v \in Visitor : Place(v) = "past" => Place(v)' = "past"
      BY <1>0, <2>4
    <3> QED
      BY <1>0, <3>1, <3>2, <3>3, RanksStay DEF NumbersInv
  <2> QED
    BY <2>4, <2>5, <2>6, <2>7 DEF NumbersInv
<1>4. CASE number[u] = NoNumber /\ Left(u) /\ desk' = Nobody
  <2>1. Nobody.pc = "accept" /\ Nobody.with = {}
        /\ Nobody \in [pc : {"accept", "read", "answer", "answer2", "dead"},
                       with : SUBSET Visitor, value : Number \cup {NoNumber}]
    BY DEF Nobody
  <2>4. /\ Place(u) = desk.pc
        /\ Place(u)' = "past"
        /\ \A v \in Visitor : v # u =>
             Place(v)' = Place(v) /\ Place(v) \in {"new", "line", "past"}
        /\ Seats'
    BY <1>0, <1>4, <2>1, AtDesk
  <2>5. NumbersTypeOK'
    BY <1>0, <1>4, <2>1 DEF NumbersInv, NumbersTypeOK
  <2>8. visitor[u].pc = "failed"
    BY <1>0, <1>2, <1>4, <2>4 DEF VisitorOk, Fits, Unanswered, Left
  <2>6. ASSUME NEW v \in Visitor PROVE VisitorOk(v)'
    <3>1. CASE v = u
      <4>1. /\ Owns(visitor[u], replies[u], number[u]) /\ Answered(visitor[u], replies[u])
        BY <1>2, <2>8 DEF VisitorOk, Answered
      <4>2. visitor' = visitor /\ replies' = replies /\ number' = number
        BY <1>0
      <4> QED
        BY <2>4, <3>1, <4>1, <4>2 DEF VisitorOk, Fits
    <3>2. CASE v # u
      BY <1>0, <2>4, <3>2, VisitorStays DEF NumbersInv
    <3> QED
      BY <3>1, <3>2
  <2>7. Ranks'
    <3>1. \A v \in Visitor : HasId(v)' => v # u /\ HasId(v)
      BY <1>0, <2>4, <2>8 DEF HasId
    <3>2. \A v \in Visitor : GivenId(visitor[v], replies[v])' = GivenId(visitor[v], replies[v])
      BY <1>0
    <3>3. \A v \in Visitor : Place(v) = "past" => Place(v)' = "past"
      BY <2>4
    <3> QED
      BY <1>0, <3>1, <3>2, <3>3, RanksStay DEF NumbersInv
  <2> QED
    BY <2>4, <2>5, <2>6, <2>7 DEF NumbersInv
<1> QED
  BY <1>3, <1>4 DEF ReadNumber

LEMMA NumberKeeps ==
  ASSUME NumbersInv, NEW u \in Visitor, AnswerNumber(u)
  PROVE  NumbersInv'
<1> DEFINE n == Plus(desk.value)
           d == [desk EXCEPT !.pc = "answer2"]
<1>0. /\ UNCHANGED <<visitor, line, number, id>> /\ Serving(u) /\ desk.pc = "answer"
      /\ desk' = d
      /\ replies' = IF Left(u) THEN replies ELSE [replies EXCEPT ![u] = Append(@, n)]
  BY DEF AnswerNumber, ToVisitor, Plus
<1>1. /\ replies \in [Visitor -> Seq(Number)]
      /\ desk \in [pc : {"accept", "read", "answer", "answer2", "dead"},
                   with : SUBSET Visitor, value : Number \cup {NoNumber}]
  BY DEF NumbersInv, NumbersTypeOK
<1>2. d.pc = "answer2" /\ d.with = desk.with
      /\ d \in [pc : {"accept", "read", "answer", "answer2", "dead"},
                with : SUBSET Visitor, value : Number \cup {NoNumber}]
  BY <1>1
<1>3. desk.with = {u}
  BY <1>0 DEF Serving
<1> HIDE DEF d
<1>4. /\ Place(u) = "answer"
      /\ Place(u)' = "answer2"
      /\ \A v \in Visitor : v # u =>
           Place(v)' = Place(v) /\ Place(v) \in {"new", "line", "past"}
      /\ Seats'
  BY <1>0, <1>2, <1>3, AtDesk
<1>5. /\ VisitorOk(u) /\ replies[u] = <<>> /\ desk.value = visitor[u].sent
      /\ visitor[u].pc \in {"wait", "failed"}
  BY <1>4 DEF NumbersInv, VisitorOk, Fits, Unanswered
<1>6. ASSUME visitor[u].pc = "wait"
      PROVE  /\ n = Plus(visitor[u].sent) /\ n \in Number
             /\ replies' = [replies EXCEPT ![u] = <<n>>] /\ replies'[u] = <<n>>
  <2>1. visitor[u].sent \in Number
    BY <1>5, <1>6 DEF VisitorOk, Owns
  <2>2. n = Plus(visitor[u].sent) /\ n \in Number
    BY <1>5, <2>1, PlusType
  <2>3. ~Left(u)
    BY <1>6 DEF Left
  <2>4. Append(<<>>, n) = <<n>>
    OBVIOUS
  <2>5. replies' = [replies EXCEPT ![u] = <<n>>]
    BY <1>0, <1>5, <2>3, <2>4
  <2> QED
    BY <1>1, <2>2, <2>5
<1>7. ASSUME visitor[u].pc = "failed" PROVE replies' = replies
  BY <1>0, <1>7 DEF Left
<1> HIDE DEF n
<1>8. \A v \in Visitor : v # u => replies'[v] = replies[v]
  BY <1>1, <1>5, <1>6, <1>7
<1>9. NumbersTypeOK'
  <2>1. replies' \in [Visitor -> Seq(Number)]
    <3>1. CASE visitor[u].pc = "wait"
      <4>1. n \in Number /\ replies' = [replies EXCEPT ![u] = <<n>>]
        BY <1>6, <3>1
      <4>2. <<n>> \in Seq(Number)
        BY <4>1
      <4> QED
        BY <1>1, <4>1, <4>2, Zenon
    <3>2. CASE visitor[u].pc = "failed"
      BY <1>1, <1>7, <3>2
    <3> QED
      BY <1>5, <3>1, <3>2
  <2> QED
    BY <1>0, <1>2, <2>1 DEF NumbersInv, NumbersTypeOK
<1>10. ASSUME NEW v \in Visitor PROVE VisitorOk(v)'
  <2>1. CASE v = u
    <3>1. Owns(visitor[u], replies'[u], number[u]) /\ HalfAnswered(visitor[u], replies'[u])
      BY <1>5, <1>6, <1>7 DEF VisitorOk, Owns, HalfAnswered
    <3>2. visitor' = visitor /\ number' = number
      BY <1>0
    <3> QED
      BY <1>4, <2>1, <3>1, <3>2 DEF VisitorOk, Fits
  <2>2. CASE v # u
    BY <1>0, <1>4, <1>8, <2>2, VisitorStays DEF NumbersInv
  <2> QED
    BY <2>1, <2>2
<1>11. Ranks'
  <2>1. \A v \in Visitor : HasId(v)' => v # u /\ HasId(v)
    BY <1>0, <1>4 DEF HasId
  <2>2. \A v \in Visitor : HasId(v)' =>
          GivenId(visitor[v], replies[v])' = GivenId(visitor[v], replies[v])
    BY <1>0, <1>8, <2>1
  <2>3. \A v \in Visitor : Place(v) = "past" => Place(v)' = "past"
    BY <1>4
  <2> QED
    BY <1>0, <2>1, <2>2, <2>3, RanksStay DEF NumbersInv
<1> QED
  BY <1>4, <1>9, <1>10, <1>11 DEF NumbersInv

LEMMA NobodyIs ==
  /\ Nobody.pc = "accept" /\ Nobody.with = {}
  /\ [Nobody EXCEPT !.pc = "dead"].pc = "dead" /\ [Nobody EXCEPT !.pc = "dead"].with = {}
  /\ {Nobody, [Nobody EXCEPT !.pc = "dead"]} \subseteq
       [pc : {"accept", "read", "answer", "answer2", "dead"},
        with : SUBSET Visitor, value : Number \cup {NoNumber}]
  BY DEF Nobody

\* A visitor that waits for its id, and the replies with the id n behind them.
LEMMA IdFits ==
  ASSUME NEW r \in VisitorState, NEW q \in Seq(Number), NEW n, NEW m,
         HalfAnswered(r, q), Owns(r, q, m), ~(r.pc \in {"done", "failed"})
  PROVE  /\ Owns(r, Append(q, n), m) /\ Answered(r, Append(q, n))
         /\ GivenId(r, Append(q, n)) = n
<1>1. Len(Append(q, n)) = Len(q) + 1 /\ Append(q, n)[Len(q) + 1] = n
  OBVIOUS
<1>2. r.pc \in {"wait", "wait2"}
  BY DEF HalfAnswered
<1>3. Owns(r, Append(q, n), m)
  BY <1>2 DEF Owns
<1>4. GivenId(r, Append(q, n)) = n
  BY <1>1, <1>2 DEF GivenId
<1>5. CASE r.pc = "wait"
  <2>1. q = <<Plus(r.sent)>>
    BY <1>5 DEF HalfAnswered
  <2>2. Len(q) = 1 /\ q[1] = Plus(r.sent)
    BY <2>1
  <2>3. Append(q, n)[1] = q[1]
    BY <2>2
  <2> QED
    BY <1>1, <1>3, <1>4, <1>5, <2>2, <2>3 DEF Answered
<1>6. CASE r.pc = "wait2"
  <2>1. Len(q) = 0
    BY <1>6 DEF HalfAnswered
  <2> QED
    BY <1>1, <1>3, <1>4, <1>6, <2>1 DEF Answered
<1> QED
  BY <1>2, <1>5, <1>6

LEMMA IdKeeps ==
  ASSUME NumbersInv, NEW u \in Visitor, AnswerId(u)
  PROVE  NumbersInv'
<1>0. UNCHANGED <<visitor, line, number>> /\ Serving(u) /\ desk.pc = "answer2"
  BY DEF AnswerId
<1>1. /\ replies \in [Visitor -> Seq(Number)] /\ visitor[u] \in VisitorState
      /\ replies[u] \in Seq(Number) /\ id \in Number
  BY NumbersTypes DEF NumbersInv
<1>2. desk' \in {Nobody, [Nobody EXCEPT !.pc = "dead"]}
  BY DEF AnswerId
<1>3. desk' \in [pc : {"accept", "read", "answer", "answer2", "dead"},
                 with : SUBSET Visitor, value : Number \cup {NoNumber}]
      /\ (desk.pc)' \in {"accept", "dead"} /\ (desk.with)' = {}
  BY <1>2, NobodyIs
<1>4. /\ Place(u) = "answer2"
      /\ Place(u)' = "past"
      /\ \A v \in Visitor : v # u =>
           Place(v)' = Place(v) /\ Place(v) \in {"new", "line", "past"}
      /\ Seats'
  <2>1. PICK d : desk' = d
    OBVIOUS
  <2> QED
    BY <1>0, <1>3, <2>1, AtDesk
<1>5. VisitorOk(u) /\ Owns(visitor[u], replies[u], number[u])
      /\ HalfAnswered(visitor[u], replies[u])
  BY <1>4 DEF NumbersInv, VisitorOk, Fits
<1>6. CASE Left(u) /\ UNCHANGED <<replies, id>>
  <2>1. visitor[u].pc = "failed"
    BY <1>5, <1>6 DEF HalfAnswered, Left
  <2>2. NumbersTypeOK'
    BY <1>0, <1>3, <1>6 DEF NumbersInv, NumbersTypeOK
  <2>3. ASSUME NEW v \in Visitor PROVE VisitorOk(v)'
    <3>1. CASE v = u
      <4>1. Answered(visitor[u], replies[u])
        BY <2>1 DEF Answered
      <4> QED
        BY <1>0, <1>4, <1>5, <1>6, <3>1, <4>1 DEF VisitorOk, Fits
    <3>2. CASE v # u
      BY <1>0, <1>4, <1>6, <3>2, VisitorStays DEF NumbersInv
    <3> QED
      BY <3>1, <3>2
  <2>4. Ranks'
    <3>1. \A v \in Visitor : HasId(v)' => v # u /\ HasId(v)
      BY <1>0, <1>4, <2>1 DEF HasId
    <3>2. \A v \in Visitor : GivenId(visitor[v], replies[v])' = GivenId(visitor[v], replies[v])
      BY <1>0, <1>6
    <3>3. \A v \in Visitor : Place(v) = "past" => Place(v)' = "past"
      BY <1>4
    <3> QED
      BY <1>6, <3>1, <3>2, <3>3, RanksStay DEF NumbersInv
  <2> QED
    BY <1>4, <2>2, <2>3, <2>4 DEF NumbersInv
<1>7. CASE ToVisitor(u, (id + 1) % Uint) /\ id' = (id + 1) % Uint
  <2> DEFINE n == (id + 1) % Uint
  <2>1. n \in Number
    BY <1>1, PlusType DEF Plus
  <2>2. PICK m : m = n
    OBVIOUS
  <2>3. m \in Number /\ id' = m
        /\ replies' = IF Left(u) THEN replies ELSE [replies EXCEPT ![u] = Append(replies[u], m)]
    BY <1>7, <2>1, <2>2 DEF ToVisitor
  <2>4. Append(replies[u], m) \in Seq(Number)
    BY <1>1, <2>3
  <2>5. replies' \in [Visitor -> Seq(Number)]
        /\ \A v \in Visitor : v # u => replies'[v] = replies[v]
    BY <1>1, <2>3, <2>4
  <2>6. ASSUME ~Left(u) PROVE replies'[u] = Append(replies[u], m)
    BY <1>1, <2>3, <2>6
  <2>7. NumbersTypeOK'
    BY <1>0, <1>3, <2>3, <2>5 DEF NumbersInv, NumbersTypeOK
  <2>8. ASSUME ~Left(u)
        PROVE  /\ Owns(visitor[u], replies'[u], number[u])
               /\ Answered(visitor[u], replies'[u])
               /\ GivenId(visitor[u], replies'[u]) = m
    <3>1. ~(visitor[u].pc \in {"done", "failed"})
      BY <2>8 DEF Left
    <3> DEFINE r == visitor[u]
               q == replies[u]
               c == number[u]
    <3>2. /\ r \in VisitorState /\ q \in Seq(Number) /\ HalfAnswered(r, q) /\ Owns(r, q, c)
          /\ ~(r.pc \in {"done", "failed"})
      BY <1>1, <1>5, <3>1
    <3> HIDE DEF r, q, c
    <3>3. /\ Owns(r, Append(q, m), c) /\ Answered(r, Append(q, m))
          /\ GivenId(r, Append(q, m)) = m
      BY <3>2, IdFits
    <3> QED
      BY <2>6, <2>8, <3>3 DEF r, q, c
  <2>9. ASSUME Left(u)
        PROVE  /\ Owns(visitor[u], replies'[u], number[u])
               /\ Answered(visitor[u], replies'[u])
               /\ visitor[u].pc = "failed"
    BY <1>5, <2>3, <2>9 DEF Left, HalfAnswered, Answered
  <2>10. ASSUME NEW v \in Visitor PROVE VisitorOk(v)'
    <3>1. CASE v = u
      <4>1. Owns(visitor[u], replies'[u], number[u]) /\ Answered(visitor[u], replies'[u])
        BY <2>8, <2>9
      <4>2. visitor' = visitor /\ number' = number
        BY <1>0
      <4> QED
        BY <1>4, <3>1, <4>1, <4>2 DEF VisitorOk, Fits
    <3>2. CASE v # u
      BY <1>0, <1>4, <2>5, <3>2, VisitorStays DEF NumbersInv
    <3> QED
      BY <3>1, <3>2
  <2>11. Ranks'
    <3>1. visitor[u].pc # "failed" => GivenId(visitor[u], replies'[u]) = m
      BY <2>8, <2>9
    <3> HIDE DEF n
    <3>2. m = (id + 1) % Uint
      BY <2>2 DEF n
    <3>3. \A v \in Visitor : v # u => Place(v)' = Place(v) /\ replies'[v] = replies[v]
      BY <1>4, <2>5
    <3>4. Place(u) # "past"
      BY <1>4
    <3> QED
      BY <1>0, <1>4, <2>3, <3>1, <3>2, <3>3, <3>4, RanksGrow
  <2> QED
    BY <1>4, <2>7, <2>10, <2>11 DEF NumbersInv
<1> QED
  BY <1>6, <1>7 DEF AnswerId

LEMMA NumbersKeep == ASSUME NumbersInv, [NumbersNext]_nvars PROVE NumbersInv'
<1>1. CASE UNCHANGED nvars
  <2>1. /\ visitor' = visitor /\ line' = line /\ number' = number /\ replies' = replies
        /\ desk' = desk /\ id' = id
    BY <1>1 DEF nvars
  <2>2. \A v : (Lined(v)' <=> Lined(v)) /\ (Serving(v)' <=> Serving(v))
    BY <2>1 DEF Lined, Serving
  <2>3. \A v \in Visitor : Place(v)' = Place(v)
    BY <2>1, <2>2 DEF Place
  <2>4. NumbersTypeOK' /\ Seats'
    BY <2>1, <2>2 DEF NumbersInv, NumbersTypeOK, Seats
  <2>5. \A v \in Visitor : VisitorOk(v)'
    BY <2>1, <2>3, VisitorStays DEF NumbersInv
  <2>6. Ranks'
    <3>1. \A v \in Visitor : HasId(v)' =>
            HasId(v) /\ GivenId(visitor[v], replies[v])' = GivenId(visitor[v], replies[v])
      BY <2>1, <2>3 DEF HasId
    <3> QED
      BY <2>1, <2>3, <3>1, RanksStay DEF NumbersInv
  <2> QED
    BY <2>4, <2>5, <2>6 DEF NumbersInv
<1> QED
  BY <1>1, VisitKeeps, SendKeeps, GetKeeps, FailKeeps, TakeKeeps, ReadKeeps, NumberKeeps, IdKeeps
  DEF NumbersNext, DeskStep

LEMMA NumbersRight == ASSUME NumbersInv PROVE NumbersTypeOK /\ IdsUnique
<1> DEFINE Done == {v \in Visitor : visitor[v].pc = "done"}
<1>1. ASSUME NEW v \in Done PROVE visitor[v].next = (visitor[v].sent + 1) % Uint
  BY <1>1 DEF NumbersInv, VisitorOk, Owns, Plus
<1>2. ASSUME Cardinality(Visitor) <= Uint, NEW v \in Done, NEW w \in Done,
             visitor[v].id = visitor[w].id
      PROVE  v = w
  <2>1. PICK k \in Nat, f \in [Visitor -> Nat] : Ranking(k, f)
    BY <1>2 DEF NumbersInv, Ranks
  <2>2. \A x \in Done : HasId(x) /\ GivenId(visitor[x], replies[x]) = visitor[x].id
    <3> SUFFICES ASSUME NEW x \in Done PROVE HasId(x) /\ GivenId(visitor[x], replies[x]) = visitor[x].id
      OBVIOUS
    <3>1. Place(x) \in {"line", "read", "answer", "answer2", "past"}
      BY DEF NumbersInv, Seats, Place, Serving
    <3>2. Place(x) = "past"
      BY <3>1 DEF NumbersInv, VisitorOk, Fits, Unanswered, HalfAnswered
    <3> QED
      BY <3>2 DEF HasId, GivenId
  <2>3. /\ f[v] \in 1..k /\ f[w] \in 1..k /\ IdOf(f[v]) = IdOf(f[w])
        /\ (f[v] = f[w] => v = w) /\ k <= Cardinality(Past)
    BY <1>2, <2>1, <2>2 DEF Ranking
  <2>4. Cardinality(Past) <= Cardinality(Visitor) /\ IsFiniteSet(Past)
    BY NumbersAssumption, FS_Subset DEF Past
  <2>5. Cardinality(Past) \in Nat /\ Cardinality(Visitor) \in Nat /\ Uint \in Nat
    BY <2>4, NumbersAssumption, FS_CardinalityType
  <2>6. k \in 0..Uint
    BY <1>2, <2>3, <2>4, <2>5
  <2> QED
    BY <2>3, <2>6, IdsDiffer
<1> QED
  BY <1>1, <1>2 DEF NumbersInv, IdsUnique

-----------------------------------------------------------------------------
(* The services with a handler for each client *)

Asked == Keys \cup CommandLines

\* As long as a client is in step, a line that the server has not read is its last
\* message, and it waits for the answer; an answer that is on its way is to the line
\* waited for.
LineOf(c) ==
  /\ client[c].sync /\ s2c[c] # <<>> => /\ Waiting(c) /\ Len(s2c[c]) = 1
                                       /\ Head(s2c[c]).to = client[c].line
  /\ link[c] = "closed" => c2s[c] = <<>>
  /\ up => \A i \in 1..Len(c2s[c]) : c2s[c][i] \in Asked =>
       \/ Gone(c) \/ ~client[c].sync
       \/ /\ i = Len(c2s[c]) /\ Waiting(c) /\ client[c].line = c2s[c][i]
          /\ s2c[c] = <<>>

Boxes == /\ client \in [Conn -> ClientState]
         /\ link \in [Conn -> LinkState]
         /\ c2s \in [Conn -> Seq(KeyMessage)]
         /\ s2c \in [Conn -> Seq(Answer)]
         /\ up \in BOOLEAN

LinesInv == Boxes /\ \A c \in Conn : LineOf(c)

LEMMA AskedIs == Asked \subseteq KeyMessage /\ Lines \subseteq Asked /\ {"zero", "half"} \subseteq KeyMessage
                 /\ "zero" \notin Asked /\ "half" \notin Asked
  BY DEF Asked, KeyMessage, Lines, Keys, CommandLines

LEMMA LineStays ==
  ASSUME NEW c \in Conn, LineOf(c), client'[c] = client[c], c2s'[c] = c2s[c],
         s2c'[c] = s2c[c], link'[c] = "closed" => c2s[c] = <<>>, up' => up
  PROVE  LineOf(c)'
  BY DEF LineOf, Waiting, Gone

LEMMA LinesStay ==
  ASSUME LinesInv, UNCHANGED <<client, c2s, s2c, link, up>>
  PROVE  LinesInv'
<1>1. Boxes'
  BY DEF LinesInv, Boxes
<1>2. ASSUME NEW c \in Conn PROVE LineOf(c)'
  <2>1. LineOf(c)
    BY DEF LinesInv
  <2> QED
    BY <2>1, LineStays DEF LineOf
<1> QED
  BY <1>1, <1>2 DEF LinesInv

\* Messages that are read, or thrown away, without an answer.
LEMMA SilentFits ==
  ASSUME LinesInv, NEW c \in Conn, NEW q, q = <<>> \/ (c2s[c] # <<>> /\ q = Tail(c2s[c])),
         NEW l \in LinkState, l = "closed" => q = <<>>,
         c2s' = [c2s EXCEPT ![c] = q], link' = [link EXCEPT ![c] = l],
         UNCHANGED <<client, s2c>>, up' \in BOOLEAN, up' => up
  PROVE  LinesInv'
<1>1. /\ c2s \in [Conn -> Seq(KeyMessage)] /\ link \in [Conn -> LinkState]
      /\ c2s[c] \in Seq(KeyMessage)
  BY DEF LinesInv, Boxes
<1>2. q \in Seq(KeyMessage)
  <2>1. c2s[c] # <<>> => Tail(c2s[c]) \in Seq(KeyMessage)
    BY <1>1
  <2>2. <<>> \in Seq(KeyMessage)
    OBVIOUS
  <2> QED
    BY <2>1, <2>2
<1>3. Boxes'
  <2>1. c2s' \in [Conn -> Seq(KeyMessage)] /\ link' \in [Conn -> LinkState]
    BY <1>1, <1>2
  <2> QED
    BY <2>1 DEF LinesInv, Boxes
<1>4. /\ c2s'[c] = q /\ link'[c] = l /\ client'[c] = client[c] /\ s2c'[c] = s2c[c]
      /\ \A d \in Conn : d # c => c2s'[d] = c2s[d] /\ link'[d] = link[d]
  BY <1>1
<1>5. ASSUME NEW i \in 1..Len(q)
      PROVE  i + 1 \in 1..Len(c2s[c]) /\ q[i] = c2s[c][i + 1] /\ (i + 1 = Len(c2s[c]) => i = Len(q))
  <2>1. q = Tail(c2s[c]) /\ c2s[c] # <<>>
    BY <1>5
  <2>2. Len(q) = Len(c2s[c]) - 1 /\ q[i] = c2s[c][i + 1] /\ Len(c2s[c]) \in Nat
    BY <1>1, <1>5, <2>1, HeadTailProperties
  <2> HIDE <2>1
  <2> QED
    BY <1>5, <2>2
<1>6. LineOf(c)'
  <2>1. LineOf(c)
    BY DEF LinesInv
  <2>2. ASSUME up', NEW i \in 1..Len(q), q[i] \in Asked
        PROVE  \/ Gone(c) \/ ~client[c].sync
               \/ i = Len(q) /\ Waiting(c) /\ client[c].line = q[i] /\ s2c[c] = <<>>
    BY <1>5, <2>1, <2>2 DEF LineOf
  <2>3. (Gone(c)' <=> Gone(c)) /\ (Waiting(c)' <=> Waiting(c))
    BY <1>4 DEF Gone, Waiting
  <2>4. link'[c] = "closed" => c2s'[c] = <<>>
    BY <1>4
  <2> QED
    BY <1>4, <2>1, <2>2, <2>3, <2>4 DEF LineOf
<1>7. ASSUME NEW d \in Conn PROVE LineOf(d)'
  <2>1. CASE d = c
    BY <1>6, <2>1
  <2>2. CASE d # c
    <3>1. LineOf(d)
      BY DEF LinesInv
    <3> QED
      BY <1>4, <2>2, <3>1, LineStays DEF LineOf
  <2> QED
    BY <2>1, <2>2
<1> QED
  BY <1>3, <1>7 DEF LinesInv

\* A line that is read and answered.
LEMMA AnswerFits ==
  ASSUME LinesInv, up, NEW c \in Conn, c2s[c] # <<>>, NEW k \in Asked, Head(c2s[c]) = k,
         NEW q, q \in {Tail(c2s[c]), <<>>}, NEW say \in {"empty", "in", "exit", "text"},
         NEW l \in LinkState, l = "closed" => q = <<>>,
         c2s' = [c2s EXCEPT ![c] = q], link' = [link EXCEPT ![c] = l],
         Sent(c, Saying(k, say)), UNCHANGED <<client, up>>
  PROVE  LinesInv'
<1>1. /\ c2s \in [Conn -> Seq(KeyMessage)] /\ link \in [Conn -> LinkState]
      /\ s2c \in [Conn -> Seq(Answer)]
      /\ c2s[c] \in Seq(KeyMessage) /\ s2c[c] \in Seq(Answer)
  BY DEF LinesInv, Boxes
<1>2. CASE Gone(c)
  BY <1>2, SilentFits DEF Sent, LinesInv, Boxes
<1>3. CASE ~Gone(c) /\ client[c].sync
  <2>1. /\ Len(c2s[c]) = 1 /\ Waiting(c) /\ client[c].line = k /\ s2c[c] = <<>>
    <3>1. 1 \in 1..Len(c2s[c]) /\ c2s[c][1] = k
      BY <1>1
    <3> QED
      BY <1>3, <3>1 DEF LinesInv, LineOf
  <2>2. q = <<>>
    <3>1. Tail(c2s[c]) \in Seq(KeyMessage) /\ Len(Tail(c2s[c])) = 0
      BY <1>1, <2>1
    <3>2. Tail(c2s[c]) = <<>>
      BY <3>1, EmptySeq
    <3> QED
      BY <3>2
  <2> DEFINE a == Saying(k, say)
  <2>3. a \in Answer /\ a.to = k
    BY DEF Saying, Answer, Asked
  <2> HIDE DEF a
  <2>4. s2c' = [s2c EXCEPT ![c] = <<a>>]
    <3>1. s2c' = [s2c EXCEPT ![c] = Append(s2c[c], a)]
      BY <1>3 DEF Sent, a
    <3>2. Append(s2c[c], a) = <<a>>
      BY <2>1
    <3> QED
      BY <3>1, <3>2
  <2>5. <<a>> \in Seq(Answer) /\ Len(<<a>>) = 1 /\ Head(<<a>>) = a /\ <<>> \in Seq(KeyMessage)
    BY <2>3
  <2>6. Boxes'
    <3>1. c2s' \in [Conn -> Seq(KeyMessage)] /\ link' \in [Conn -> LinkState]
      BY <1>1, <2>2, <2>5
    <3>2. s2c' \in [Conn -> Seq(Answer)]
      BY <1>1, <2>4, <2>5
    <3> QED
      BY <3>1, <3>2 DEF LinesInv, Boxes
  <2>7. /\ c2s'[c] = <<>> /\ s2c'[c] = <<a>> /\ client'[c] = client[c]
        /\ \A d \in Conn : d # c => /\ c2s'[d] = c2s[d] /\ link'[d] = link[d]
                                    /\ s2c'[d] = s2c[d]
    BY <1>1, <2>2, <2>4
  <2>8. LineOf(c)'
    <3>1. Waiting(c)' /\ client'[c].line = k
      BY <2>1, <2>7 DEF Waiting
    <3>2. Len(<<>>) = 0
      OBVIOUS
    <3> QED
      BY <2>3, <2>5, <2>7, <3>1, <3>2 DEF LineOf
  <2>9. ASSUME NEW d \in Conn, d # c PROVE LineOf(d)'
    <3>1. LineOf(d)
      BY DEF LinesInv
    <3> QED
      BY <2>7, <2>9, <3>1, LineStays DEF LineOf
  <2> QED
    BY <2>6, <2>8, <2>9 DEF LinesInv
<1>4. CASE ~Gone(c) /\ ~client[c].sync
  <2> DEFINE a == Garbled(Saying(k, say))
  <2>1. a \in Answer
    BY DEF Garbled, Saying, Answer
  <2>2. s2c' = [s2c EXCEPT ![c] = <<a>>] /\ <<a>> \in Seq(Answer)
    BY <1>4, <2>1 DEF Sent
  <2> HIDE DEF a
  <2>3. q \in Seq(KeyMessage)
    <3>1. Tail(c2s[c]) \in Seq(KeyMessage) /\ <<>> \in Seq(KeyMessage)
      BY <1>1
    <3> QED
      BY <3>1
  <2>4. Boxes'
    <3>1. c2s' \in [Conn -> Seq(KeyMessage)] /\ link' \in [Conn -> LinkState]
      BY <1>1, <2>3
    <3>2. s2c' \in [Conn -> Seq(Answer)]
      BY <1>1, <2>2
    <3> QED
      BY <3>1, <3>2 DEF LinesInv, Boxes
  <2>5. /\ c2s'[c] = q /\ link'[c] = l /\ client'[c] = client[c]
        /\ \A d \in Conn : d # c => /\ c2s'[d] = c2s[d] /\ link'[d] = link[d]
                                    /\ s2c'[d] = s2c[d]
    BY <1>1, <2>2
  <2>6. LineOf(c)'
    BY <1>4, <2>5 DEF LineOf
  <2>7. ASSUME NEW d \in Conn, d # c PROVE LineOf(d)'
    <3>1. LineOf(d)
      BY DEF LinesInv
    <3> QED
      BY <2>5, <2>7, <3>1, LineStays DEF LineOf
  <2> QED
    BY <2>4, <2>6, <2>7 DEF LinesInv
<1> QED
  BY <1>2, <1>3, <1>4

\* The server's end is taken or forgotten.
LEMMA LinkFits ==
  ASSUME LinesInv, NEW c \in Conn, NEW l \in {"held", "dropped"},
         link' = [link EXCEPT ![c] = l], UNCHANGED <<client, c2s, s2c>>,
         up' \in BOOLEAN, up' => up
  PROVE  LinesInv'
<1>1. link \in [Conn -> LinkState] /\ l \in LinkState /\ l # "closed"
  BY DEF LinesInv, Boxes, LinkState
<1>2. link'[c] = l /\ \A d \in Conn : d # c => link'[d] = link[d]
  BY <1>1
<1>3. Boxes'
  <2>1. link' \in [Conn -> LinkState]
    BY <1>1
  <2> QED
    BY <2>1 DEF LinesInv, Boxes
<1>4. ASSUME NEW d \in Conn PROVE LineOf(d)'
  <2>1. LineOf(d) /\ (link'[d] = "closed" => c2s[d] = <<>>)
    BY <1>1, <1>2 DEF LinesInv, LineOf
  <2> QED
    BY <2>1, LineStays
<1> QED
  BY <1>3, <1>4 DEF LinesInv

\* What one client does to its own state leaves the others alone.
LEMMA OthersFit ==
  ASSUME LinesInv, NEW c \in Conn, NEW r \in ClientState, NEW q \in Seq(KeyMessage),
         NEW s \in Seq(Answer),
         client' = [client EXCEPT ![c] = r], c2s' = [c2s EXCEPT ![c] = q],
         s2c' = [s2c EXCEPT ![c] = s], UNCHANGED <<link, up>>,
         r.sync /\ s # <<>> => r.pc = "wait" /\ Len(s) = 1 /\ Head(s).to = r.line,
         link[c] = "closed" => q = <<>>,
         up => \A i \in 1..Len(q) : q[i] \in Asked =>
           \/ r.pc = "gone" \/ ~r.sync
           \/ i = Len(q) /\ r.pc = "wait" /\ r.line = q[i] /\ s = <<>>
  PROVE  LinesInv'
<1>1. /\ client \in [Conn -> ClientState] /\ c2s \in [Conn -> Seq(KeyMessage)]
      /\ s2c \in [Conn -> Seq(Answer)]
  BY DEF LinesInv, Boxes
<1>2. Boxes'
  <2>1. client' \in [Conn -> ClientState] /\ c2s' \in [Conn -> Seq(KeyMessage)]
    BY <1>1
  <2>2. s2c' \in [Conn -> Seq(Answer)]
    BY <1>1
  <2> QED
    BY <2>1, <2>2 DEF LinesInv, Boxes
<1>3. /\ client'[c] = r /\ c2s'[c] = q /\ s2c'[c] = s
      /\ \A d \in Conn : d # c => /\ client'[d] = client[d] /\ c2s'[d] = c2s[d]
                                  /\ s2c'[d] = s2c[d]
  BY <1>1
<1>4. LineOf(c)'
  <2>1. (Waiting(c)' <=> r.pc = "wait") /\ (Gone(c)' <=> r.pc = "gone")
    BY <1>3 DEF Waiting, Gone
  <2> QED
    BY <1>3, <2>1 DEF LineOf
<1>5. ASSUME NEW d \in Conn, d # c PROVE LineOf(d)'
  <2>1. LineOf(d)
    BY DEF LinesInv
  <2> QED
    BY <1>3, <1>5, <2>1, LineStays DEF LineOf
<1> QED
  BY <1>2, <1>4, <1>5 DEF LinesInv

LEMMA ClientTypes ==
  ASSUME NEW r \in ClientState, NEW p \in {"first", "prompt", "wait"},
         NEW k \in Asked \cup {None}
  PROVE  /\ [r EXCEPT !.pc = p, !.line = k] \in ClientState
         /\ [r EXCEPT !.pc = p, !.line = k].pc = p
         /\ [r EXCEPT !.pc = p, !.line = k].line = k
         /\ [r EXCEPT !.pc = p, !.line = k].sync = r.sync
<1>1. k \in Keys \cup CommandLines \cup {None}
  BY DEF Asked
<1> QED
  BY <1>1 DEF ClientState

LEMMA LoggedTypes ==
  ASSUME NEW r \in ClientState, NEW b \in BOOLEAN
  PROVE  /\ [r EXCEPT !.pc = "prompt", !.line = None, !.logged = b] \in ClientState
         /\ [r EXCEPT !.pc = "prompt", !.line = None, !.sync = FALSE] \in ClientState
         /\ [r EXCEPT !.pc = "prompt", !.line = None, !.sync = FALSE].sync = FALSE
  BY DEF ClientState

LEMMA ConnectFits == ASSUME LinesInv, NEW c \in Conn, Connect(c) PROVE LinesInv'
<1> DEFINE r == [client[c] EXCEPT !.pc = "first"]
<1>1. /\ client \in [Conn -> ClientState] /\ c2s \in [Conn -> Seq(KeyMessage)]
      /\ s2c \in [Conn -> Seq(Answer)] /\ client[c].pc = "new"
      /\ client' = [client EXCEPT ![c] = r] /\ UNCHANGED <<link, c2s, s2c, up>>
  BY DEF LinesInv, Boxes, Connect
<1>2. client[c] \in ClientState /\ r \in ClientState /\ r.pc = "first"
      /\ r.sync = client[c].sync
  BY <1>1 DEF ClientState
<1> HIDE DEF r
<1>3. ~Waiting(c) /\ ~Gone(c) /\ LineOf(c)
  BY <1>1 DEF Waiting, Gone, LinesInv
<1>4. c2s' = [c2s EXCEPT ![c] = c2s[c]] /\ s2c' = [s2c EXCEPT ![c] = s2c[c]]
  BY <1>1
<1>5. c2s[c] \in Seq(KeyMessage) /\ s2c[c] \in Seq(Answer) /\ (r.sync => s2c[c] = <<>>)
  BY <1>1, <1>2, <1>3 DEF LineOf
<1>6. up => \A i \in 1..Len(c2s[c]) : c2s[c][i] \in Asked => ~r.sync
  BY <1>2, <1>3 DEF LineOf
<1>7. link[c] = "closed" => c2s[c] = <<>>
  BY <1>3 DEF LineOf
<1> QED
  BY <1>1, <1>2, <1>4, <1>5, <1>6, <1>7, OthersFit

LEMMA TypeFits == ASSUME LinesInv, NEW c \in Conn, Type(c) PROVE LinesInv'
<1>1. /\ client \in [Conn -> ClientState] /\ c2s \in [Conn -> Seq(KeyMessage)]
      /\ s2c \in [Conn -> Seq(Answer)]
      /\ Prompted(c) /\ ~Shut(c) /\ UNCHANGED <<link, s2c, up>>
  BY DEF LinesInv, Boxes, Type
<1>2. PICK k \in Lines :
        /\ client' = [client EXCEPT ![c] = [client[c] EXCEPT !.pc = "wait",
                        !.line = IF client[c].sync THEN k ELSE None]]
        /\ c2s' = [c2s EXCEPT ![c] = Append(c2s[c], k)]
  BY DEF Type
<1> DEFINE m == IF client[c].sync THEN k ELSE None
           r == [client[c] EXCEPT !.pc = "wait", !.line = m]
           q == Append(c2s[c], k)
<1>3. client[c] \in ClientState /\ c2s[c] \in Seq(KeyMessage) /\ s2c[c] \in Seq(Answer)
      /\ k \in Asked /\ k \in KeyMessage
  BY <1>1, AskedIs
<1>4. r \in ClientState /\ r.pc = "wait" /\ (r.sync => r.line = k) /\ r.sync = client[c].sync
  <2>1. m \in Asked \cup {None} /\ (client[c].sync => m = k)
    BY <1>3
  <2> HIDE DEF m
  <2>2. r \in ClientState /\ r.pc = "wait" /\ r.line = m /\ r.sync = client[c].sync
    BY <1>3, <2>1, ClientTypes, Zenon
  <2> HIDE DEF r
  <2> QED
    BY <2>1, <2>2, Zenon
<1> HIDE DEF m
<1>5. ~Waiting(c) /\ ~Gone(c) /\ LineOf(c)
  BY <1>1 DEF Waiting, Gone, Prompted, LinesInv
<1>6. (client[c].sync => s2c[c] = <<>>) /\ s2c' = [s2c EXCEPT ![c] = s2c[c]]
  BY <1>1, <1>5 DEF LineOf
<1>7. up /\ client[c].sync => \A i \in 1..Len(c2s[c]) : c2s[c][i] \notin Asked
  BY <1>5 DEF LineOf
<1>8. q \in Seq(KeyMessage) /\ Len(q) = Len(c2s[c]) + 1 /\ q[Len(q)] = k
      /\ \A i \in 1..Len(c2s[c]) : q[i] = c2s[c][i]
  BY <1>3
<1>9. link[c] # "closed"
  BY <1>1 DEF Shut
<1> HIDE DEF r, q
<1>10. ASSUME up, r.sync, NEW i \in 1..Len(q), q[i] \in Asked
       PROVE  i = Len(q) /\ r.line = q[i]
  <2>1. i = Len(q) \/ i \in 1..Len(c2s[c])
    BY <1>3, <1>8
  <2> QED
    BY <1>4, <1>7, <1>8, <1>10, <2>1
<1>11. client' = [client EXCEPT ![c] = r] /\ c2s' = [c2s EXCEPT ![c] = q]
  BY <1>2 DEF m, r, q
<1>12. up => \A i \in 1..Len(q) : q[i] \in Asked =>
         \/ r.pc = "gone" \/ ~r.sync
         \/ i = Len(q) /\ r.pc = "wait" /\ r.line = q[i] /\ s2c[c] = <<>>
  BY <1>4, <1>6, <1>10
<1>13. r.sync => s2c[c] = <<>>
  BY <1>4, <1>6
<1> QED
  BY <1>1, <1>3, <1>4, <1>6, <1>8, <1>9, <1>11, <1>12, <1>13, OthersFit

LEMMA NothingFits == ASSUME LinesInv, NEW c \in Conn, TypeNothing(c) PROVE LinesInv'
<1>1. /\ client \in [Conn -> ClientState] /\ c2s \in [Conn -> Seq(KeyMessage)]
      /\ s2c \in [Conn -> Seq(Answer)]
      /\ Prompted(c) /\ ~Shut(c) /\ UNCHANGED <<client, link, s2c, up>>
      /\ c2s' = [c2s EXCEPT ![c] = Append(c2s[c], "zero")]
  BY DEF LinesInv, Boxes, TypeNothing
<1> DEFINE q == Append(c2s[c], "zero")
<1>3. client[c] \in ClientState /\ c2s[c] \in Seq(KeyMessage) /\ s2c[c] \in Seq(Answer)
      /\ "zero" \notin Asked /\ "zero" \in KeyMessage
  BY <1>1, AskedIs
<1>5. ~Waiting(c) /\ ~Gone(c) /\ LineOf(c)
  BY <1>1 DEF Waiting, Gone, Prompted, LinesInv
<1>6. (client[c].sync => s2c[c] = <<>>) /\ s2c' = [s2c EXCEPT ![c] = s2c[c]]
      /\ client' = [client EXCEPT ![c] = client[c]]
  BY <1>1, <1>5 DEF LineOf
<1>7. up /\ client[c].sync => \A i \in 1..Len(c2s[c]) : c2s[c][i] \notin Asked
  BY <1>5 DEF LineOf
<1>8. q \in Seq(KeyMessage) /\ Len(q) = Len(c2s[c]) + 1 /\ q[Len(q)] = "zero"
      /\ \A i \in 1..Len(c2s[c]) : q[i] = c2s[c][i]
  BY <1>3, AppendProperties
<1>9. link[c] # "closed"
  BY <1>1 DEF Shut
<1> HIDE DEF q
<1>10. ASSUME up, client[c].sync, NEW i \in 1..Len(q) PROVE q[i] \notin Asked
  <2>1. Len(c2s[c]) \in Nat
    BY <1>3
  <2>2. i = Len(q) \/ i \in 1..Len(c2s[c])
    BY <1>8, <2>1
  <2> QED
    BY <1>3, <1>7, <1>8, <1>10, <2>2
<1> QED
  BY <1>1, <1>3, <1>6, <1>8, <1>9, <1>10, OthersFit DEF q

LEMMA ReadFits == ASSUME LinesInv, NEW c \in Conn, ClientStep(c) PROVE LinesInv'
<1>1. /\ client \in [Conn -> ClientState] /\ c2s \in [Conn -> Seq(KeyMessage)]
      /\ s2c \in [Conn -> Seq(Answer)]
      /\ client[c] \in ClientState /\ c2s[c] \in Seq(KeyMessage) /\ s2c[c] \in Seq(Answer)
      /\ Waiting(c) /\ UNCHANGED <<link, c2s, up>> /\ LineOf(c)
  BY DEF LinesInv, Boxes, ClientStep, ReadAnswer, ReadPart, ReadEof
<1>2. c2s' = [c2s EXCEPT ![c] = c2s[c]] /\ ~Gone(c)
  BY <1>1 DEF Gone, Waiting
<1>3. CASE ReadAnswer(c)
  <2>1. s2c[c] # <<>> /\ Len(s2c[c]) = 1
    BY <1>1, <1>3 DEF ReadAnswer, LineOf
  <2>2. Tail(s2c[c]) = <<>>
    <3>1. Tail(s2c[c]) \in Seq(Answer) /\ Len(Tail(s2c[c])) = 0
      BY <1>1, <2>1
    <3> QED
      BY <3>1, EmptySeq
  <2>3. s2c' = [s2c EXCEPT ![c] = <<>>] /\ <<>> \in Seq(Answer)
    <3>1. s2c' = [s2c EXCEPT ![c] = Tail(s2c[c])]
      BY <1>3 DEF ReadAnswer
    <3>2. <<>> \in Seq(Answer)
      OBVIOUS
    <3> QED
      BY <2>2, <3>1, <3>2, Zenon
  <2>4. up => \A i \in 1..Len(c2s[c]) : c2s[c][i] \notin Asked
    BY <1>1, <1>2, <1>3, <2>1 DEF LineOf, ReadAnswer
  <2>5. PICK r \in ClientState : client' = [client EXCEPT ![c] = r]
    <3>1. CASE client' = [client EXCEPT ![c] = [NewClient EXCEPT !.pc = "gone"]]
      <4>1. [NewClient EXCEPT !.pc = "gone"] \in ClientState
        BY DEF ClientState, NewClient
      <4> QED
        BY <3>1, <4>1
    <3>2. CASE client' = [client EXCEPT ![c] =
                 [client[c] EXCEPT !.pc = "prompt", !.line = None,
                                   !.logged = @ \/ Head(s2c[c]).say = "in"]]
      <4> DEFINE b == client[c].logged \/ Head(s2c[c]).say = "in"
                 t == [client[c] EXCEPT !.pc = "prompt", !.line = None, !.logged = b]
      <4>1. b \in BOOLEAN
        OBVIOUS
      <4>2. client' = [client EXCEPT ![c] = t]
        BY <3>2
      <4> HIDE DEF b
      <4>3. t \in ClientState
        BY <1>1, <4>1, LoggedTypes
      <4> QED
        BY <4>2, <4>3
    <3> QED
      BY <1>3, <3>1, <3>2 DEF ReadAnswer
  <2>6. link[c] = "closed" => c2s[c] = <<>>
    BY <1>1 DEF LineOf
  <2> QED
    BY <1>1, <1>2, <2>3, <2>4, <2>5, <2>6, OthersFit
<1>4. CASE ReadEof(c)
  <2> DEFINE r == [client[c] EXCEPT !.pc = "prompt", !.line = None]
  <2>1. s2c[c] = <<>> /\ Shut(c) /\ client' = [client EXCEPT ![c] = r]
        /\ s2c' = [s2c EXCEPT ![c] = s2c[c]]
    BY <1>1, <1>4 DEF ReadEof
  <2>2. r \in ClientState
    BY <1>1, ClientTypes, Zenon
  <2> HIDE DEF r
  <2>3. link[c] = "closed" => c2s[c] = <<>>
    BY <1>1 DEF LineOf
  <2>4. up => c2s[c] = <<>>
    BY <2>1, <2>3 DEF Shut
  <2>5. up => \A i \in 1..Len(c2s[c]) : c2s[c][i] \notin Asked
    BY <2>4
  <2> QED
    BY <1>1, <1>2, <2>1, <2>2, <2>3, <2>5, OthersFit
<1>5. CASE ReadPart(c)
  <2> DEFINE r == [client[c] EXCEPT !.pc = "prompt", !.line = None, !.sync = FALSE]
  <2>1. client' = [client EXCEPT ![c] = r] /\ s2c[c] # <<>>
    BY <1>1, <1>5 DEF ReadPart
  <2>2. r \in ClientState /\ r.sync = FALSE
    BY <1>1, LoggedTypes
  <2> HIDE DEF r
  <2>3. Garbled(Head(s2c[c])) \in Answer
    BY DEF Garbled, Saying, Answer
  <2>4. PICK s \in Seq(Answer) : s2c' = [s2c EXCEPT ![c] = s]
    <3>1. <<Garbled(Head(s2c[c]))>> \in Seq(Answer) /\ <<>> \in Seq(Answer)
      BY <2>3
    <3> QED
      BY <1>5, <3>1 DEF ReadPart
  <2>5. link[c] = "closed" => c2s[c] = <<>>
    BY <1>1 DEF LineOf
  <2> QED
    BY <1>1, <1>2, <2>1, <2>2, <2>4, <2>5, OthersFit
<1> QED
  BY <1>3, <1>4, <1>5 DEF ClientStep

LEMMA LeaveFits == ASSUME LinesInv, NEW c \in Conn, Leave(c) PROVE LinesInv'
<1> DEFINE r == [NewClient EXCEPT !.pc = "gone"]
<1>1. /\ client \in [Conn -> ClientState] /\ c2s \in [Conn -> Seq(KeyMessage)]
      /\ s2c \in [Conn -> Seq(Answer)] /\ c2s[c] \in Seq(KeyMessage)
      /\ client' = [client EXCEPT ![c] = r] /\ s2c' = [s2c EXCEPT ![c] = <<>>]
      /\ UNCHANGED <<link, up>> /\ LineOf(c)
  BY DEF LinesInv, Boxes, Leave
<1>2. r \in ClientState /\ r.pc = "gone"
  BY DEF ClientState, NewClient
<1>3. PICK q \in Seq(KeyMessage) : /\ c2s' = [c2s EXCEPT ![c] = q]
                                   /\ link[c] = "closed" => q = <<>>
  <2>1. CASE UNCHANGED c2s
    <3>1. c2s' = [c2s EXCEPT ![c] = c2s[c]]
      BY <1>1, <2>1
    <3> QED
      BY <1>1, <3>1 DEF LineOf
  <2>2. CASE ~Shut(c) /\ c2s' = [c2s EXCEPT ![c] = Append(@, "half")]
    <3>1. "half" \in KeyMessage
      BY AskedIs
    <3>2. Append(c2s[c], "half") \in Seq(KeyMessage)
      BY <1>1, <3>1, AppendProperties
    <3> QED
      BY <2>2, <3>2 DEF Shut
  <2> QED
    BY <2>1, <2>2 DEF Leave
<1>4. <<>> \in Seq(Answer)
  OBVIOUS
<1> HIDE DEF r
<1> QED
  BY <1>1, <1>2, <1>3, <1>4, OthersFit

LEMMA ClientsFit ==
  ASSUME LinesInv, NEW c \in Conn, ClientStep(c) \/ UserStep(c)
  PROVE  LinesInv'
  BY ConnectFits, TypeFits, NothingFits, ReadFits, LeaveFits DEF UserStep

-----------------------------------------------------------------------------
(* A handler for each client *)

\* The connection a worker has, or will have once it reads its argument.
Has(w) == IF worker[w].pc = "start" THEN td[w]
          ELSE IF worker[w].pc = "serve" THEN worker[w].cl ELSE None

\* What is not accepted is queued once and unknown to the server.
InLine == /\ backlog \in Seq(Conn)
          /\ \A c \in Conn : client[c].pc = "new" => link[c] = "none"
          /\ \A i \in 1..Len(backlog) :
               link[backlog[i]] = "none" /\ client[backlog[i]].pc # "new"
          /\ \A i, j \in 1..Len(backlog) : backlog[i] = backlog[j] => i = j

\* Each thread has a thData of its own, and each connection one worker.
Owners ==
  /\ \A w \in Worker : /\ worker[w].pc = "start" => worker[w].arg = w /\ td[w] \in Conn
                       /\ worker[w].pc = "accept" => worker[w].cl = None
                       /\ Has(w) # None => link[Has(w)] = "held"
  /\ \A v, w \in Worker : Has(v) = Has(w) /\ Has(w) # None => v = w

HandlersInv == /\ LinesInv /\ HandlerTypeOK /\ InLine /\ Owners
               /\ left \in 0..Descriptors
               /\ program \in {"forks", "echo"} => up

LEMMA HasType ==
  ASSUME HandlerTypeOK, NEW w \in Worker
  PROVE  Has(w) \in Conn \cup {None}
  BY DEF HandlerTypeOK, WorkerState, Has

\* Workers that keep what they have.
LEMMA OwnersStay ==
  ASSUME Owners, UNCHANGED <<worker, td>>,
         \A c \in Conn : link[c] = "held" => link'[c] = "held", HandlerTypeOK
  PROVE  Owners'
<1>1. \A w \in Worker : Has(w)' = Has(w) /\ Has(w) \in Conn \cup {None}
  BY HasType DEF Has
<1>2. None \notin Conn
  BY ServiceAssumption
<1> QED
  BY <1>1, <1>2 DEF Owners

\* The worker w takes the connection c, or none.
LEMMA OwnersGain ==
  ASSUME Owners, HandlerTypeOK, NEW w \in Worker, NEW c \in Conn \cup {None},
         \A v \in Worker : v # w => worker'[v] = worker[v] /\ Has(v)' = Has(v),
         Has(w)' = c,
         worker'[w].pc = "start" => worker'[w].arg = w /\ td'[w] \in Conn,
         worker'[w].pc = "accept" => worker'[w].cl = None,
         \A v \in Worker : v # w => (td'[v] = td[v]),
         c # None => link'[c] = "held",
         \A v \in Worker : v # w /\ Has(v) # None => Has(v) # c /\ link'[Has(v)] = link[Has(v)]
  PROVE  Owners'
<1>1. \A v \in Worker : v # w =>
        /\ worker'[v].pc = "start" => worker'[v].arg = v /\ td'[v] \in Conn
        /\ worker'[v].pc = "accept" => worker'[v].cl = None
        /\ Has(v)' # None => link'[Has(v)'] = "held"
  BY DEF Owners
<1>2. \A v, u \in Worker : Has(v)' = Has(u)' /\ Has(u)' # None => v = u
  BY DEF Owners
<1> QED
  BY <1>1, <1>2 DEF Owners

LEMMA LineMoves ==
  ASSUME InLine, NEW c \in Conn, Accepting(c), NEW l, link \in [Conn -> LinkState],
         link' = [link EXCEPT ![c] = l], UNCHANGED client
  PROVE  InLine' /\ link[c] = "none"
<1> DEFINE n == Len(backlog)
<1>1. backlog \in Seq(Conn) /\ backlog # <<>> /\ c = Head(backlog) /\ backlog' = Tail(backlog)
  BY DEF Accepting, InLine
<1>2. n \in Nat /\ 1 \in 1..n /\ backlog[1] = c
  BY <1>1
<1>3. /\ backlog' \in Seq(Conn) /\ Len(backlog') = n - 1
      /\ \A i \in 1..(n - 1) : backlog'[i] = backlog[i + 1]
  BY <1>1, HeadTailProperties
<1>4. link'[c] = l /\ \A d \in Conn : d # c => link'[d] = link[d]
  OBVIOUS
<1>5. ASSUME NEW i \in 1..Len(backlog')
      PROVE  /\ i + 1 \in 1..n /\ backlog'[i] = backlog[i + 1] /\ backlog'[i] # c
             /\ backlog'[i] \in Conn
  <2>1. i + 1 \in 1..n /\ i + 1 # 1 /\ backlog'[i] = backlog[i + 1]
    BY <1>2, <1>3
  <2>2. backlog'[i] # c
    BY <1>2, <2>1 DEF InLine
  <2> QED
    BY <1>1, <2>1, <2>2
<1>6. link[c] = "none" /\ client[c].pc # "new"
  BY <1>2 DEF InLine
<1>7. \A i \in 1..Len(backlog') : link'[backlog'[i]] = "none" /\ client'[backlog'[i]].pc # "new"
  BY <1>4, <1>5 DEF InLine
<1>8. ASSUME NEW i \in 1..Len(backlog'), NEW j \in 1..Len(backlog'), backlog'[i] = backlog'[j]
      PROVE  i = j
  <2>1. i + 1 = j + 1
    BY <1>5, <1>8 DEF InLine
  <2> QED
    BY <1>2, <1>3, <2>1
<1>9. \A d \in Conn : client'[d].pc = "new" => link'[d] = "none"
  BY <1>4, <1>6 DEF InLine
<1> QED
  BY <1>3, <1>6, <1>7, <1>8, <1>9 DEF InLine

LEMMA InLineStays ==
  ASSUME InLine, UNCHANGED backlog,
         \A c \in Conn : (client'[c].pc = "new") <=> (client[c].pc = "new"),
         \A c \in Conn : link[c] = "none" => link'[c] = "none"
  PROVE  InLine'
<1>1. \A i \in 1..Len(backlog) : backlog[i] \in Conn
  BY DEF InLine
<1> QED
  BY <1>1 DEF InLine

LEMMA LineJoins == ASSUME InLine, NEW c \in Conn, Connect(c), client \in [Conn -> ClientState]
                   PROVE  InLine'
<1> DEFINE n == Len(backlog)
<1>1. /\ backlog \in Seq(Conn) /\ client[c].pc = "new" /\ link[c] = "none"
      /\ backlog' = Append(backlog, c) /\ link' = link
      /\ client' = [client EXCEPT ![c].pc = "first"]
  BY DEF Connect, InLine
<1>2. /\ client'[c].pc = "first" /\ \A d \in Conn : d # c => client'[d] = client[d]
  BY <1>1 DEF ClientState
<1>3. /\ backlog' \in Seq(Conn) /\ Len(backlog') = n + 1 /\ backlog'[n + 1] = c
      /\ \A i \in 1..n : backlog'[i] = backlog[i]
      /\ n \in Nat /\ \A i \in 1..n : backlog[i] \in Conn
  BY <1>1
<1>4. \A i \in 1..n : backlog[i] # c
  BY <1>1 DEF InLine
<1> HIDE DEF n
<1>5. \A i \in 1..(n + 1) : i = n + 1 \/ i \in 1..n
  BY <1>3
<1>6. ASSUME NEW i \in 1..(n + 1)
      PROVE  link'[backlog'[i]] = "none" /\ client'[backlog'[i]].pc # "new"
  <2>1. CASE i = n + 1
    BY <1>1, <1>2, <1>3, <2>1
  <2>2. CASE i \in 1..n
    BY <1>1, <1>2, <1>3, <1>4, <2>2 DEF InLine, n
  <2> QED
    BY <1>5, <2>1, <2>2
<1>7. ASSUME NEW i \in 1..(n + 1), NEW j \in 1..(n + 1), backlog'[i] = backlog'[j] PROVE i = j
  <2>1. \A k, m \in 1..n : backlog[k] = backlog[m] => k = m
    BY DEF InLine, n
  <2> QED
    BY <1>3, <1>4, <1>5, <1>7, <2>1
<1>8. \A d \in Conn : client'[d].pc = "new" => link'[d] = "none"
  BY <1>1, <1>2 DEF InLine
<1> QED
  BY <1>3, <1>6, <1>7, <1>8 DEF InLine

LEMMA NewStays ==
  ASSUME client \in [Conn -> ClientState], NEW c \in Conn, ClientStep(c) \/ UserStep(c),
         ~Connect(c)
  PROVE  /\ \A d \in Conn : (client'[d].pc = "new") <=> (client[d].pc = "new")
         /\ UNCHANGED <<backlog, link>>
<1>1. UNCHANGED <<backlog, link>>
  BY DEF ClientStep, UserStep, ReadAnswer, ReadPart, ReadEof, Type, TypeNothing, Leave
<1>2. CASE UNCHANGED client
  BY <1>1, <1>2
<1>3. ASSUME NEW r, client' = [client EXCEPT ![c] = r], r.pc # "new", client[c].pc # "new"
      PROVE  \A d \in Conn : (client'[d].pc = "new") <=> (client[d].pc = "new")
  <2>1. client'[c] = r /\ \A d \in Conn : d # c => client'[d] = client[d]
    BY <1>3
  <2> QED
    BY <1>3, <2>1
<1>4. client[c] \in ClientState
  OBVIOUS
<1>5. ASSUME ~UNCHANGED client
      PROVE  \E r : client' = [client EXCEPT ![c] = r] /\ r.pc # "new" /\ client[c].pc # "new"
  <2>1. [NewClient EXCEPT !.pc = "gone"].pc = "gone"
    BY DEF NewClient
  <2>2. CASE ReadAnswer(c)
    <3>1. client[c].pc = "wait"
      BY <2>2 DEF ReadAnswer, Waiting
    <3>2. CASE client' = [client EXCEPT ![c] = [NewClient EXCEPT !.pc = "gone"]]
      BY <2>1, <3>1, <3>2
    <3>3. CASE client' = [client EXCEPT ![c] =
                 [client[c] EXCEPT !.pc = "prompt", !.line = None,
                                   !.logged = @ \/ Head(s2c[c]).say = "in"]]
      <4> DEFINE r == [client[c] EXCEPT !.pc = "prompt", !.line = None,
                                       !.logged = @ \/ Head(s2c[c]).say = "in"]
      <4>1. r.pc = "prompt"
        BY <1>4 DEF ClientState
      <4> QED
        BY <3>1, <3>3, <4>1
    <3> QED
      BY <2>2, <3>2, <3>3 DEF ReadAnswer
  <2>3. CASE ReadEof(c)
    <3> DEFINE r == [client[c] EXCEPT !.pc = "prompt", !.line = None]
    <3>1. r.pc = "prompt" /\ client' = [client EXCEPT ![c] = r] /\ client[c].pc = "wait"
      BY <1>4, <2>3 DEF ClientState, ReadEof, Waiting
    <3> QED
      BY <3>1
  <2>4. CASE Type(c)
    <3>1. PICK k : client' = [client EXCEPT ![c] = [client[c] EXCEPT !.pc = "wait", !.line = k]]
      <4>1. PICK k \in Lines : client' = [client EXCEPT ![c] = [client[c] EXCEPT !.pc = "wait",
                                  !.line = IF client[c].sync THEN k ELSE None]]
        BY <2>4 DEF Type
      <4> QED
        BY <4>1
    <3> DEFINE r == [client[c] EXCEPT !.pc = "wait", !.line = k]
    <3>2. r.pc = "wait" /\ client[c].pc # "new"
      BY <1>4, <2>4 DEF ClientState, Type, Prompted
    <3> QED
      BY <3>1, <3>2
  <2>5. CASE Leave(c)
    BY <2>1, <2>5 DEF Leave, Prompted, Waiting
  <2>6. ~TypeNothing(c)
    BY <1>5 DEF TypeNothing
  <2>7. CASE ReadPart(c)
    <3> DEFINE r == [client[c] EXCEPT !.pc = "prompt", !.line = None, !.sync = FALSE]
    <3>1. r.pc = "prompt" /\ client' = [client EXCEPT ![c] = r] /\ client[c].pc = "wait"
      BY <1>4, <2>7 DEF ClientState, ReadPart, Waiting
    <3> QED
      BY <3>1
  <2> QED
    BY <2>2, <2>3, <2>4, <2>5, <2>6, <2>7 DEF ClientStep, UserStep
<1> QED
  BY <1>1, <1>2, <1>3, <1>5

LEMMA WorkerTypes ==
  ASSUME NEW w \in Worker, NEW c \in Conn \cup {None}
  PROVE  /\ [NoWorker EXCEPT !.pc = "start", !.arg = w] \in WorkerState
         /\ [NoWorker EXCEPT !.pc = "start", !.arg = w].pc = "start"
         /\ [NoWorker EXCEPT !.pc = "start", !.arg = w].arg = w
         /\ [NoWorker EXCEPT !.pc = "serve", !.cl = c] \in WorkerState
         /\ [NoWorker EXCEPT !.pc = "serve", !.cl = c].pc = "serve"
         /\ [NoWorker EXCEPT !.pc = "serve", !.cl = c].cl = c
         /\ NoWorker \in WorkerState /\ NoWorker.pc = "none"
         /\ \A r \in WorkerState : /\ [r EXCEPT !.pc = "serve", !.cl = c] \in WorkerState
                                   /\ [r EXCEPT !.pc = "serve", !.cl = c].pc = "serve"
                                   /\ [r EXCEPT !.pc = "serve", !.cl = c].cl = c
                                   /\ [r EXCEPT !.pc = "serve"] \in WorkerState
                                   /\ [r EXCEPT !.pc = "serve"].pc = "serve"
                                   /\ [r EXCEPT !.pc = "serve"].cl = r.cl
<1>1. 1 \in Worker
  BY HandlerAssumption DEF Worker
<1> QED
  BY <1>1 DEF WorkerState, NoWorker

LEMMA HandlerTypes ==
  ASSUME HandlersInv
  PROVE  /\ worker \in [Worker -> WorkerState] /\ td \in [Worker -> Conn \cup {None}]
         /\ link \in [Conn -> LinkState] /\ c2s \in [Conn -> Seq(KeyMessage)]
         /\ client \in [Conn -> ClientState]
         /\ up \in BOOLEAN /\ LinesInv /\ InLine /\ Owners /\ HandlerTypeOK
         /\ left \in 0..Descriptors /\ None \notin Conn
  BY ServiceAssumption DEF HandlersInv, HandlerTypeOK, LinesInv, Boxes

LEMMA SpawnKeeps == ASSUME HandlersInv, NEW w \in Worker, Spawn(w) PROVE HandlersInv'
<1>0. /\ worker \in [Worker -> WorkerState] /\ td \in [Worker -> Conn \cup {None}]
      /\ link \in [Conn -> LinkState] /\ up \in BOOLEAN /\ LinesInv /\ InLine /\ Owners
      /\ HandlerTypeOK /\ left \in 0..Descriptors /\ None \notin Conn
  BY HandlerTypes
<1>1. PICK c \in Conn :
        /\ Accepting(c) /\ left > 0 /\ left' = left - 1
        /\ td' = [td EXCEPT ![w] = c]
        /\ \/ /\ link' = [link EXCEPT ![c] = "held"]
              /\ worker' = [worker EXCEPT ![w] = [NoWorker EXCEPT !.pc = "start", !.arg = w]]
           \/ /\ link' = [link EXCEPT ![c] = "dropped"]
              /\ UNCHANGED worker
  BY DEF Spawn
<1>2. /\ program = "threads" /\ worker[w].pc = "none"
      /\ UNCHANGED <<program, client, c2s, s2c, up>>
  BY DEF Spawn, FreeWorker
<1>3. left' \in 0..Descriptors
  BY <1>0, <1>1, ServiceAssumption
<1>4. InLine' /\ link[c] = "none"
  BY <1>0, <1>1, <1>2, LineMoves
<1>5. LinesInv'
  BY <1>0, <1>1, <1>2, LinkFits
<1> DEFINE r == [NoWorker EXCEPT !.pc = "start", !.arg = w]
<1>6. r \in WorkerState /\ r.pc = "start" /\ r.arg = w
  BY WorkerTypes
<1>7. td' \in [Worker -> Conn \cup {None}] /\ td'[w] = c
      /\ \A v \in Worker : v # w => td'[v] = td[v]
  BY <1>0, <1>1
<1>8. \A v \in Worker : Has(v) # None => Has(v) # c /\ Has(v) \in Conn
  BY <1>0, <1>4, HasType DEF Owners
<1>9. \A d \in Conn : d # c => link'[d] = link[d]
  BY <1>0, <1>1
<1>10. HandlerTypeOK' /\ Owners'
  <2> HIDE DEF r
  <2>1. CASE link' = [link EXCEPT ![c] = "held"] /\ worker' = [worker EXCEPT ![w] = r]
    <3>1. worker' \in [Worker -> WorkerState] /\ worker'[w] = r
          /\ \A v \in Worker : v # w => worker'[v] = worker[v]
      BY <1>0, <1>6, <2>1
    <3>2. Has(w)' = c /\ \A v \in Worker : v # w => Has(v)' = Has(v)
      BY <1>6, <1>7, <3>1 DEF Has
    <3>3. link'[c] = "held"
      BY <1>0, <2>1
    <3>4. HandlerTypeOK'
      BY <1>7, <3>1 DEF HandlerTypeOK
    <3>5. \A v \in Worker : v # w /\ Has(v) # None => Has(v) # c /\ link'[Has(v)] = link[Has(v)]
      BY <1>8, <1>9
    <3>6. Owners'
      BY <1>0, <1>6, <1>7, <3>1, <3>2, <3>3, <3>5, OwnersGain
    <3> QED
      BY <3>4, <3>6
  <2>2. CASE link' = [link EXCEPT ![c] = "dropped"] /\ UNCHANGED worker
    <3>1. Has(w)' = None /\ \A v \in Worker : v # w => Has(v)' = Has(v)
      BY <1>2, <1>7, <2>2 DEF Has
    <3>2. worker'[w].pc = "none" /\ \A v \in Worker : worker'[v] = worker[v]
      BY <1>2, <2>2
    <3>3. HandlerTypeOK'
      BY <1>0, <1>7, <2>2 DEF HandlerTypeOK
    <3>4. \A v \in Worker : v # w /\ Has(v) # None => Has(v) # None /\ link'[Has(v)] = link[Has(v)]
      BY <1>8, <1>9
    <3>5. Owners'
      BY <1>0, <1>7, <3>1, <3>2, <3>4, OwnersGain
    <3> QED
      BY <3>3, <3>5
  <2> QED
    BY <1>1, <2>1, <2>2 DEF r
<1> QED
  BY <1>2, <1>3, <1>4, <1>5, <1>10 DEF HandlersInv

LEMMA ForkKeeps == ASSUME HandlersInv, NEW w \in Worker, Fork(w) PROVE HandlersInv'
<1>0. /\ worker \in [Worker -> WorkerState] /\ td \in [Worker -> Conn \cup {None}]
      /\ link \in [Conn -> LinkState] /\ up \in BOOLEAN /\ LinesInv /\ InLine /\ Owners
      /\ HandlerTypeOK /\ left \in 0..Descriptors /\ None \notin Conn
      /\ c2s \in [Conn -> Seq(KeyMessage)]
  BY HandlerTypes
<1>1. PICK c \in Conn :
        /\ Accepting(c)
        /\ \/ /\ link' = [link EXCEPT ![c] = "held"]
              /\ worker' = [worker EXCEPT ![w] = [NoWorker EXCEPT !.pc = "serve", !.cl = c]]
              /\ UNCHANGED c2s
           \/ /\ link' = [link EXCEPT ![c] = "closed"]
              /\ c2s' = [c2s EXCEPT ![c] = <<>>]
              /\ UNCHANGED worker
  BY DEF Fork
<1>2. worker[w].pc = "none" /\ up /\ UNCHANGED <<program, client, s2c, left, up, td>>
  BY DEF Fork, FreeWorker
<1>4. InLine' /\ link[c] = "none"
  BY <1>0, <1>1, <1>2, LineMoves
<1> DEFINE r == [NoWorker EXCEPT !.pc = "serve", !.cl = c]
<1>6. r \in WorkerState /\ r.pc = "serve" /\ r.cl = c
  BY WorkerTypes
<1>8. \A v \in Worker : Has(v) # None => Has(v) # c /\ Has(v) \in Conn
  BY <1>0, <1>4, HasType DEF Owners
<1>9. \A d \in Conn : d # c => link'[d] = link[d]
  BY <1>0, <1>1
<1> HIDE DEF r
<1>10. CASE /\ link' = [link EXCEPT ![c] = "held"] /\ worker' = [worker EXCEPT ![w] = r]
            /\ UNCHANGED c2s
  <2>1. LinesInv'
    BY <1>0, <1>2, <1>10, LinkFits
  <2>2. worker' \in [Worker -> WorkerState] /\ worker'[w] = r
        /\ \A v \in Worker : v # w => worker'[v] = worker[v]
    BY <1>0, <1>6, <1>10
  <2>3. Has(w)' = c /\ \A v \in Worker : v # w => Has(v)' = Has(v)
    BY <1>2, <1>6, <2>2 DEF Has
  <2>4. link'[c] = "held"
    BY <1>0, <1>10
  <2>5. HandlerTypeOK'
    BY <1>0, <1>2, <2>2 DEF HandlerTypeOK
  <2>6. \A v \in Worker : v # w /\ Has(v) # None => Has(v) # c /\ link'[Has(v)] = link[Has(v)]
    BY <1>8, <1>9
  <2>7. Owners'
    BY <1>0, <1>2, <1>6, <2>2, <2>3, <2>4, <2>6, OwnersGain
  <2> QED
    BY <1>0, <1>2, <1>4, <2>1, <2>5, <2>7 DEF HandlersInv
<1>11. CASE /\ link' = [link EXCEPT ![c] = "closed"] /\ c2s' = [c2s EXCEPT ![c] = <<>>]
            /\ UNCHANGED worker
  <2>1. "closed" \in LinkState
    BY DEF LinkState
  <2>2. LinesInv'
    BY <1>0, <1>2, <1>11, <2>1, SilentFits
  <2>3. Has(w)' = None /\ \A v \in Worker : v # w => Has(v)' = Has(v)
    BY <1>2, <1>11 DEF Has
  <2>4. worker'[w].pc = "none" /\ \A v \in Worker : worker'[v] = worker[v]
    BY <1>2, <1>11
  <2>5. HandlerTypeOK'
    BY <1>0, <1>2, <1>11 DEF HandlerTypeOK
  <2>6. \A v \in Worker : v # w /\ Has(v) # None => Has(v) # None /\ link'[Has(v)] = link[Has(v)]
    BY <1>8, <1>9
  <2>7. Owners'
    BY <1>0, <1>2, <2>3, <2>4, <2>6, OwnersGain
  <2> QED
    BY <1>0, <1>2, <1>4, <2>2, <2>5, <2>7 DEF HandlersInv
<1> QED
  BY <1>1, <1>10, <1>11 DEF r

LEMMA PoolKeeps == ASSUME HandlersInv, NEW w \in Worker, PoolAccept(w) PROVE HandlersInv'
<1>0. /\ worker \in [Worker -> WorkerState] /\ td \in [Worker -> Conn \cup {None}]
      /\ link \in [Conn -> LinkState] /\ up \in BOOLEAN /\ LinesInv /\ InLine /\ Owners
      /\ HandlerTypeOK /\ left \in 0..Descriptors /\ None \notin Conn
      /\ worker[w] \in WorkerState
  BY HandlerTypes
<1>1. /\ program = "pool" /\ worker[w].pc = "accept"
      /\ UNCHANGED <<program, client, c2s, s2c, up, td>>
  BY DEF PoolAccept
<1>2. CASE /\ left > 0 /\ left' = left - 1
           /\ \E c \in Conn :
                /\ Accepting(c)
                /\ link' = [link EXCEPT ![c] = "held"]
                /\ worker' = [worker EXCEPT ![w].pc = "serve", ![w].cl = c]
  <2>1. PICK c \in Conn : /\ Accepting(c) /\ link' = [link EXCEPT ![c] = "held"]
                          /\ worker' = [worker EXCEPT ![w] = [worker[w] EXCEPT !.pc = "serve", !.cl = c]]
    BY <1>0, <1>2
  <2> DEFINE r == [worker[w] EXCEPT !.pc = "serve", !.cl = c]
  <2>2. r \in WorkerState /\ r.pc = "serve" /\ r.cl = c
    BY <1>0 DEF WorkerState
  <2> HIDE DEF r
  <2>3. InLine' /\ link[c] = "none"
    BY <1>0, <1>1, <2>1, LineMoves
  <2>4. LinesInv'
    BY <1>0, <1>1, <2>1, LinkFits
  <2>5. left' \in 0..Descriptors
    BY <1>0, <1>2, ServiceAssumption
  <2>6. worker' \in [Worker -> WorkerState] /\ worker'[w] = r
        /\ \A v \in Worker : v # w => worker'[v] = worker[v]
    BY <1>0, <2>1, <2>2 DEF r
  <2>7. Has(w)' = c /\ \A v \in Worker : v # w => Has(v)' = Has(v)
    BY <1>1, <2>2, <2>6 DEF Has
  <2>8. link'[c] = "held" /\ \A d \in Conn : d # c => link'[d] = link[d]
    BY <1>0, <2>1
  <2>9. HandlerTypeOK'
    BY <1>0, <1>1, <2>6 DEF HandlerTypeOK
  <2>10. \A v \in Worker : v # w /\ Has(v) # None => Has(v) # c /\ link'[Has(v)] = link[Has(v)]
    BY <1>0, <2>3, <2>8, HasType DEF Owners
  <2>11. Owners'
    BY <1>0, <1>1, <2>2, <2>6, <2>7, <2>8, <2>10, OwnersGain
  <2> QED
    BY <1>1, <2>3, <2>4, <2>5, <2>9, <2>11 DEF HandlersInv
<1>3. CASE worker' = [worker EXCEPT ![w].pc = "serve"] /\ UNCHANGED <<backlog, link, left>>
  <2> DEFINE r == [worker[w] EXCEPT !.pc = "serve"]
  <2>1. r \in WorkerState /\ r.pc = "serve" /\ r.cl = worker[w].cl
    BY <1>0 DEF WorkerState
  <2>2. r.cl = None
    BY <1>0, <1>1, <2>1 DEF Owners
  <2>3. worker' \in [Worker -> WorkerState] /\ worker'[w] = r
        /\ \A v \in Worker : v # w => worker'[v] = worker[v]
    BY <1>0, <1>3, <2>1
  <2> HIDE DEF r
  <2>4. Has(w)' = None /\ \A v \in Worker : v # w => Has(v)' = Has(v)
    BY <1>1, <2>1, <2>2, <2>3 DEF Has
  <2>5. HandlerTypeOK'
    BY <1>0, <1>1, <2>3 DEF HandlerTypeOK
  <2>6. \A v \in Worker : v # w /\ Has(v) # None => Has(v) # None /\ link'[Has(v)] = link[Has(v)]
    BY <1>3
  <2>7. Owners'
    BY <1>0, <1>1, <2>1, <2>3, <2>4, <2>6, OwnersGain
  <2>8. InLine'
    BY <1>0, <1>1, <1>3, InLineStays
  <2>9. LinesInv'
    BY <1>0, <1>1, <1>3, LinesStay
  <2> QED
    BY <1>0, <1>1, <1>3, <2>5, <2>7, <2>8, <2>9 DEF HandlersInv
<1> QED
  BY <1>2, <1>3 DEF PoolAccept

LEMMA StartKeeps == ASSUME HandlersInv, NEW w \in Worker, StartThread(w) PROVE HandlersInv'
<1>0. /\ worker \in [Worker -> WorkerState] /\ td \in [Worker -> Conn \cup {None}]
      /\ LinesInv /\ InLine /\ Owners /\ HandlerTypeOK /\ left \in 0..Descriptors
      /\ None \notin Conn /\ worker[w] \in WorkerState
  BY HandlerTypes
<1>1. /\ worker[w].pc = "start" /\ UNCHANGED <<service, td>>
      /\ worker' = [worker EXCEPT ![w].pc = "serve", ![w].cl = td[worker[w].arg]]
  BY DEF StartThread
<1>2. worker[w].arg = w /\ td[w] \in Conn /\ Has(w) = td[w] /\ link[td[w]] = "held"
  BY <1>0, <1>1 DEF Owners, Has
<1>3. PICK c \in Conn : c = td[w]
  BY <1>2
<1> DEFINE r == [worker[w] EXCEPT !.pc = "serve", !.cl = c]
<1>4. worker' = [worker EXCEPT ![w] = r]
  BY <1>0, <1>1, <1>2, <1>3
<1>5. r \in WorkerState /\ r.pc = "serve" /\ r.cl = c
  BY <1>0 DEF WorkerState
<1> HIDE DEF r
<1>6. worker' \in [Worker -> WorkerState] /\ worker'[w] = r
      /\ \A v \in Worker : v # w => worker'[v] = worker[v]
  BY <1>0, <1>4, <1>5
<1>7. Has(w)' = c /\ \A v \in Worker : v # w => Has(v)' = Has(v)
  BY <1>1, <1>5, <1>6 DEF Has
<1>8. /\ program' = program /\ client' = client /\ backlog' = backlog /\ link' = link
      /\ c2s' = c2s /\ s2c' = s2c /\ left' = left /\ up' = up /\ td' = td
  BY <1>1 DEF service
<1>9. HandlerTypeOK'
  BY <1>0, <1>6, <1>8 DEF HandlerTypeOK
<1>10. \A v \in Worker : v # w /\ Has(v) # None => Has(v) # c /\ link'[Has(v)] = link[Has(v)]
  BY <1>0, <1>2, <1>3, <1>8 DEF Owners
<1>11. Owners'
  BY <1>0, <1>2, <1>3, <1>5, <1>6, <1>7, <1>8, <1>10, OwnersGain
<1>12. InLine'
  BY <1>0, <1>8, InLineStays
<1>13. LinesInv'
  BY <1>0, <1>8, LinesStay
<1> QED
  BY <1>0, <1>8, <1>9, <1>11, <1>12, <1>13 DEF HandlersInv

\* A worker whose loop goes round, and one that ends.
LEMMA LoopKeeps ==
  ASSUME HandlersInv, LinesInv', UNCHANGED <<program, client, backlog, worker, td>>,
         left' \in 0..Descriptors, link' = link, program \in {"forks", "echo"} => up'
  PROVE  HandlersInv'
<1>1. InLine /\ Owners /\ HandlerTypeOK
  BY DEF HandlersInv
<1>2. InLine'
  BY <1>1, InLineStays
<1>3. Owners'
  BY <1>1, OwnersStay
<1>4. HandlerTypeOK'
  BY <1>1 DEF HandlerTypeOK
<1> QED
  BY <1>2, <1>3, <1>4 DEF HandlersInv

LEMMA EndKeeps ==
  ASSUME HandlersInv, NEW w \in Worker, NEW c \in Conn, Serves(w, c), Ends(w, c),
         UNCHANGED <<program, client, backlog, s2c, td>>
  PROVE  HandlersInv'
<1>0. /\ worker \in [Worker -> WorkerState] /\ LinesInv /\ InLine /\ Owners /\ HandlerTypeOK
      /\ link \in [Conn -> LinkState] /\ left \in 0..Descriptors /\ None \notin Conn
      /\ up \in BOOLEAN
  BY HandlerTypes
<1>1. /\ worker' = [worker EXCEPT ![w] = NoWorker]
      /\ link' = [link EXCEPT ![c] = "closed"] /\ c2s' = [c2s EXCEPT ![c] = <<>>]
      /\ UNCHANGED <<left, up>>
  BY DEF Ends
<1>2. Has(w) = c /\ link[c] = "held"
  BY <1>0 DEF Serves, Has, Owners
<1>3. "closed" \in LinkState
  BY DEF LinkState
<1>4. LinesInv'
  BY <1>0, <1>1, <1>3, SilentFits
<1>5. link'[c] = "closed" /\ \A d \in Conn : d # c => link'[d] = link[d]
  BY <1>0, <1>1
<1>6. InLine'
  BY <1>0, <1>2, <1>5, InLineStays
<1>7. NoWorker \in WorkerState /\ NoWorker.pc = "none"
  BY WorkerTypes
<1>8. worker' \in [Worker -> WorkerState] /\ worker'[w] = NoWorker
      /\ \A v \in Worker : v # w => worker'[v] = worker[v]
  BY <1>0, <1>1, <1>7
<1>9. Has(w)' = None /\ \A v \in Worker : v # w => Has(v)' = Has(v)
  BY <1>7, <1>8 DEF Has
<1>10. HandlerTypeOK'
  BY <1>0, <1>8 DEF HandlerTypeOK
<1>11. \A v \in Worker : v # w /\ Has(v) # None => Has(v) # None /\ link'[Has(v)] = link[Has(v)]
  BY <1>0, <1>2, <1>5, HasType DEF Owners
<1>12. Owners'
  BY <1>0, <1>7, <1>8, <1>9, <1>11, OwnersGain
<1> QED
  BY <1>0, <1>1, <1>4, <1>6, <1>10, <1>12 DEF HandlersInv

LEMMA ServeKeeps ==
  ASSUME HandlersInv, NEW w \in Worker, NEW c \in Conn, Serve(w, c)
  PROVE  HandlersInv'
<1>0. /\ LinesInv /\ left \in 0..Descriptors /\ up \in BOOLEAN /\ link \in [Conn -> LinkState]
      /\ (program \in {"forks", "echo"} => up)
  BY HandlerTypes DEF HandlersInv
<1>1. PICK k : k = Head(c2s[c])
  OBVIOUS
<1>2. /\ up /\ Serves(w, c) /\ c2s[c] # <<>> /\ k \in Asked
      /\ UNCHANGED <<program, client, backlog, td>>
  BY <1>0, <1>1 DEF Serve, Asked
<1>3. PICK say \in {"empty", "text"} :
       \/ /\ IF program \in {"threads", "pool"}
             THEN \E n \in 0..3 : ExecKey(k, n, say) /\ left' = left - n
             ELSE left' = left
          /\ Sent(c, Saying(k, say))
          /\ c2s' = [c2s EXCEPT ![c] = Tail(@)]
          /\ UNCHANGED <<worker, link, up>>
       \/ Piped(w, c) /\ UNCHANGED s2c
  BY <1>1 DEF Serve
<1>4. link[c] \in LinkState /\ link' = [link EXCEPT ![c] = link[c]] <=> link' = link
  BY <1>0
<1>5. link[c] \in LinkState /\ (link[c] = "closed" => c2s[c] = <<>>)
  BY <1>0 DEF LinesInv, LineOf
<1>6. CASE /\ IF program \in {"threads", "pool"}
              THEN \E n \in 0..3 : ExecKey(k, n, say) /\ left' = left - n
              ELSE left' = left
           /\ Sent(c, Saying(k, say))
           /\ c2s' = [c2s EXCEPT ![c] = Tail(@)]
           /\ UNCHANGED <<worker, link, up>>
  <2>1. left' \in 0..Descriptors
    BY <1>0, <1>6, ServiceAssumption DEF ExecKey
  <2>2. link' = [link EXCEPT ![c] = link[c]] /\ c2s' = [c2s EXCEPT ![c] = Tail(c2s[c])]
        /\ link[c] # "closed"
    BY <1>0, <1>2, <1>5, <1>6
  <2>3. LinesInv'
    BY <1>0, <1>1, <1>2, <1>5, <1>6, <2>2, AnswerFits
  <2> QED
    BY <1>0, <1>2, <1>6, <2>1, <2>3, LoopKeeps
<1>7. CASE Piped(w, c) /\ UNCHANGED s2c
  <2>1. CASE program \in {"forks", "echo"}
    BY <1>2, <1>7, <2>1, EndKeeps DEF Piped
  <2>2. CASE ~(program \in {"forks", "echo"})
    <3>1. /\ up' = FALSE /\ c2s' = [c2s EXCEPT ![c] = Tail(c2s[c])]
          /\ UNCHANGED <<worker, link, left>>
      BY <1>7, <2>2 DEF Piped
    <3>2. link' = [link EXCEPT ![c] = link[c]] /\ link[c] # "closed"
      BY <1>0, <1>2, <1>5, <3>1
    <3>3. LinesInv'
      BY <1>0, <1>2, <1>5, <1>7, <3>1, <3>2, SilentFits
    <3> QED
      BY <1>0, <1>2, <2>2, <3>1, <3>3, LoopKeeps
  <2> QED
    BY <2>1, <2>2
<1> QED
  BY <1>3, <1>6, <1>7

LEMMA SkipKeeps ==
  ASSUME HandlersInv, NEW w \in Worker, NEW c \in Conn, Skip(w, c) \/ Hangup(w, c)
  PROVE  HandlersInv'
<1>0. /\ LinesInv /\ left \in 0..Descriptors /\ up \in BOOLEAN /\ link \in [Conn -> LinkState]
      /\ (program \in {"forks", "echo"} => up)
  BY HandlerTypes DEF HandlersInv
<1>1. Serves(w, c) /\ UNCHANGED <<program, client, backlog, s2c, td>>
  BY DEF Skip, Hangup
<1>2. CASE Ends(w, c)
  BY <1>1, <1>2, EndKeeps
<1>3. CASE /\ c2s[c] # <<>> /\ c2s' = [c2s EXCEPT ![c] = Tail(c2s[c])]
           /\ UNCHANGED <<worker, link, left, up>>
  <2>1. link[c] \in LinkState /\ (link[c] = "closed" => c2s[c] = <<>>)
    BY <1>0 DEF LinesInv, LineOf
  <2>2. link' = [link EXCEPT ![c] = link[c]] /\ link[c] # "closed"
    BY <1>0, <1>3, <2>1
  <2>3. LinesInv'
    BY <1>0, <1>1, <1>3, <2>1, <2>2, SilentFits
  <2> QED
    BY <1>0, <1>1, <1>3, <2>3, LoopKeeps
<1> QED
  BY <1>2, <1>3 DEF Skip, Hangup

LEMMA CallerKeeps ==
  ASSUME HandlersInv, NEW c \in Conn, ClientStep(c) \/ UserStep(c), UNCHANGED <<worker, td>>
  PROVE  HandlersInv'
<1>0. /\ LinesInv /\ InLine /\ Owners /\ HandlerTypeOK /\ left \in 0..Descriptors
      /\ client \in [Conn -> ClientState]
  BY HandlerTypes
<1>1. UNCHANGED <<program, link, left, up>>
  BY DEF ClientStep, UserStep, ReadAnswer, ReadPart, ReadEof, Connect, Type, TypeNothing, Leave
<1>2. LinesInv'
  BY <1>0, ClientsFit
<1>3. InLine'
  <2>1. CASE Connect(c)
    BY <1>0, <2>1, LineJoins
  <2>2. CASE ~Connect(c)
    BY <1>0, <1>1, <2>2, NewStays, InLineStays
  <2> QED
    BY <2>1, <2>2
<1>4. Owners'
  BY <1>0, <1>1, OwnersStay
<1>5. HandlerTypeOK'
  BY <1>0 DEF HandlerTypeOK
<1> QED
  BY <1>0, <1>1, <1>2, <1>3, <1>4, <1>5 DEF HandlersInv

LEMMA HandlersKeep == ASSUME HandlersInv, [HandlerNext]_hvars PROVE HandlersInv'
<1>1. CASE UNCHANGED hvars
  <2>1. /\ program' = program /\ client' = client /\ backlog' = backlog /\ link' = link
        /\ c2s' = c2s /\ s2c' = s2c /\ left' = left /\ up' = up /\ td' = td /\ worker' = worker
    BY <1>1 DEF hvars, service
  <2>2. LinesInv'
    BY <2>1, LinesStay DEF HandlersInv
  <2> QED
    BY <2>1, <2>2, LoopKeeps DEF HandlersInv
<1> QED
  BY <1>1, SpawnKeeps, ForkKeeps, PoolKeeps, StartKeeps, ServeKeeps, SkipKeeps, CallerKeeps
  DEF HandlerNext, Admit, WorkerStep

LEMMA HandlersRight == ASSUME HandlersInv PROVE HandlerTypeOK /\ OneHandler /\ RepliesInStep
<1>1. ASSUME NEW v \in Worker, NEW w \in Worker, worker[w].pc = "serve", worker[w].cl # None
      PROVE  /\ link[worker[w].cl] = "held"
             /\ v # w => ~Serves(v, worker[w].cl)
  <2>1. Has(w) = worker[w].cl
    BY <1>1 DEF Has
  <2>2. Serves(v, worker[w].cl) => Has(v) = Has(w)
    BY <2>1 DEF Serves, Has
  <2> QED
    BY <1>1, <2>1, <2>2 DEF HandlersInv, Owners
<1>2. RepliesInStep
  BY DEF HandlersInv, LinesInv, LineOf, RepliesInStep
<1> QED
  BY <1>1, <1>2 DEF HandlersInv, OneHandler

-----------------------------------------------------------------------------
(* The services around poll() *)

Held == {c \in Conn : link[c] = "held"}

\* A connection that is open has a descriptor.
Budget == left \in 0..Descriptors /\ left + Cardinality(Held) <= Descriptors

LEMMA HeldFinite == IsFiniteSet(Held) /\ Cardinality(Held) \in Nat /\ Descriptors \in Nat
<1>1. IsFiniteSet(Held)
  BY ServiceAssumption, FS_Subset DEF Held
<1> QED
  BY <1>1, FS_CardinalityType, ServiceAssumption

LEMMA BudgetStays == ASSUME Budget, UNCHANGED <<left, link>> PROVE Budget'
  BY DEF Budget, Held

LEMMA BudgetSpent ==
  ASSUME Budget, UNCHANGED link, left' \in Nat, left' <= left
  PROVE  Budget'
<1>1. Held' = Held
  BY DEF Held
<1> QED
  BY <1>1, HeldFinite DEF Budget

\* A descriptor is taken for a connection.
LEMMA BudgetTakes ==
  ASSUME Budget, NEW c \in Conn, link \in [Conn -> LinkState], link[c] # "held", left > 0,
         left' = left - 1, link' = [link EXCEPT ![c] = "held"]
  PROVE  Budget'
<1>1. Held' = Held \cup {c} /\ c \notin Held
  BY DEF Held
<1>2. Cardinality(Held)' = Cardinality(Held) + 1
  BY <1>1, HeldFinite, FS_AddElement
<1> QED
  BY <1>2, HeldFinite DEF Budget

\* One is given back, after n were used up.
LEMMA BudgetReturns ==
  ASSUME Budget, NEW c \in Conn, link \in [Conn -> LinkState], link[c] = "held",
         NEW l \in {"closed", "dropped"}, NEW n \in Nat, n <= left,
         left' = left - n + 1 \/ left' = left - n, link' = [link EXCEPT ![c] = l]
  PROVE  Budget'
<1>1. Held' = Held \ {c} /\ c \in Held
  BY DEF Held
<1>2. Cardinality(Held)' = Cardinality(Held) - 1
  BY <1>1, HeldFinite, FS_RemoveElement
<1>3. Cardinality(Held) >= 1
  <2>1. Cardinality(Held)' \in Nat
    BY HeldFinite, <1>1, FS_RemoveElement, FS_CardinalityType
  <2> QED
    BY <1>2, <2>1, HeldFinite
<1> QED
  BY <1>2, <1>3, HeldFinite DEF Budget

LEMMA ExecUses ==
  ASSUME left \in Nat, NEW k, NEW n, NEW say, ExecKey(k, n, say)
  PROVE  n \in 0..3 /\ n <= left
  BY DEF ExecKey

PollLines == PollInv /\ LinesInv /\ Budget

\* An entry that is answered and stays, or is closed.
LEMMA AnswerPays ==
  ASSUME PollLines, NEW c \in Conn, At(c), c2s[c] # <<>>, NEW k \in Asked,
         Head(c2s[c]) = k, NEW say \in {"empty", "in", "exit", "text"}, Sent(c, Saying(k, say)),
         UNCHANGED <<client, up>>, NEW n \in Nat, n <= left,
         \/ Close(c, n)
         \/ Took(c) /\ UNCHANGED link /\ left' = left - n
  PROVE  LinesInv' /\ Budget'
<1>1. PollTyped /\ Array /\ LinesInv /\ Budget /\ up
  BY DEF PollLines, PollInv, At
<1>2. link[c] = "held" /\ link \in [Conn -> LinkState] /\ left \in 0..Descriptors
  BY <1>1, AtFacts DEF PollTyped, Budget
<1>3. CASE Close(c, n)
  <2>1. /\ c2s' = [c2s EXCEPT ![c] = <<>>] /\ link' = [link EXCEPT ![c] = "closed"]
        /\ left' = left - n + 1
    BY <1>3 DEF Close
  <2>2. "closed" \in LinkState
    BY DEF LinkState
  <2>3. LinesInv'
    BY <1>1, <2>1, <2>2, AnswerFits
  <2>4. Budget'
    BY <1>1, <1>2, <2>1, BudgetReturns
  <2> QED
    BY <2>3, <2>4
<1>4. CASE Took(c) /\ UNCHANGED link /\ left' = left - n
  <2>1. /\ c2s' = [c2s EXCEPT ![c] = Tail(c2s[c])] /\ link' = [link EXCEPT ![c] = link[c]]
        /\ link[c] \in LinkState /\ link[c] # "closed"
    BY <1>2, <1>4 DEF Took
  <2>2. LinesInv'
    BY <1>1, <2>1, AnswerFits
  <2>3. left' \in Nat /\ left' <= left
    BY <1>2, <1>4, HeldFinite
  <2>4. Budget'
    BY <1>1, <1>4, <2>3, BudgetSpent
  <2> QED
    BY <2>2, <2>4
<1> QED
  BY <1>3, <1>4

LEMMA KeyPays == ASSUME PollLines, NEW c \in Conn, Key(c) PROVE LinesInv' /\ Budget'
<1>1. PICK k : k = Head(c2s[c])
  OBVIOUS
<1>2. /\ At(c) /\ c2s[c] # <<>> /\ k \in Asked /\ UNCHANGED <<client, up>>
  BY <1>1 DEF Key, Asked
<1>3. PICK n \in 0..3, say \in {"empty", "text"} :
        /\ ExecKey(k, n, say) /\ Sent(c, Saying(k, say))
        /\ Close(c, n) \/ (Took(c) /\ left' = left - n /\ UNCHANGED link)
  BY <1>1 DEF Key
<1>4. left \in Nat
  BY HeldFinite DEF PollLines, Budget
<1>5. n \in Nat /\ n <= left
  BY <1>3, <1>4, ExecUses
<1> QED
  BY <1>1, <1>2, <1>3, <1>5, AnswerPays

LEMMA CommandPays == ASSUME PollLines, NEW c \in Conn, Command(c) PROVE LinesInv' /\ Budget'
<1>1. PICK k : k = Head(c2s[c])
  OBVIOUS
<1>2. PICK i, ss : TRUE /\ (NoSession(c) \/ Login(c, i, ss) \/ Quit(c, i, ss) \/ Other(c, i, ss))
  BY DEF Command
<1>3. /\ At(c) /\ c2s[c] # <<>> /\ k \in Asked /\ UNCHANGED <<client, up>>
  BY <1>1 DEF Command, Asked
<1>4. left \in Nat
  BY HeldFinite DEF PollLines, Budget
<1>5. CASE \E say \in {"empty", "in", "text"} : Answers(c, say)
  <2>1. PICK say \in {"empty", "in", "text"} : Answers(c, say)
    BY <1>5
  <2>2. Sent(c, Saying(k, say)) /\ Took(c) /\ UNCHANGED link /\ left' = left - 0
    BY <1>1, <1>4, <2>1 DEF Answers
  <2> QED
    BY <1>1, <1>3, <1>4, <2>2, AnswerPays
<1>6. CASE Quit(c, i, ss)
  <2>1. Sent(c, Saying(k, "exit")) /\ Close(c, 0)
    BY <1>1, <1>6 DEF Quit
  <2> QED
    BY <1>1, <1>3, <1>4, <2>1, AnswerPays
<1>7. CASE Login(c, i, ss)
  BY <1>5, <1>7 DEF Login
<1> QED
  BY <1>2, <1>5, <1>6, <1>7 DEF NoSession, Other

LEMMA SilentPays ==
  ASSUME PollLines, NEW c \in Conn, PollHangup(c) \/ NoBytes(c) \/ PollPiped(c)
  PROVE  LinesInv' /\ Budget'
<1>1. PollTyped /\ Array /\ LinesInv /\ Budget /\ up \in BOOLEAN /\ At(c)
      /\ UNCHANGED <<client, s2c>>
  BY DEF PollLines, PollInv, LinesInv, Boxes, PollHangup, NoBytes, PollPiped
<1>2. link[c] = "held" /\ link \in [Conn -> LinkState] /\ left \in Nat
  BY <1>1, AtFacts, HeldFinite DEF PollTyped, Budget
<1>6. 0 \in Nat /\ 0 <= left /\ left - 0 = left
  BY <1>2
<1>3. CASE Close(c, 0) /\ UNCHANGED up
  <2>1. /\ c2s' = [c2s EXCEPT ![c] = <<>>] /\ link' = [link EXCEPT ![c] = "closed"]
        /\ left' = left - 0 + 1
    BY <1>3 DEF Close
  <2>2. "closed" \in LinkState
    BY DEF LinkState
  <2>3. LinesInv'
    BY <1>1, <1>3, <2>1, <2>2, SilentFits
  <2>4. Budget'
    BY <1>1, <1>2, <1>6, <2>1, BudgetReturns
  <2> QED
    BY <2>3, <2>4
<1>4. CASE /\ c2s[c] # <<>> /\ link' = [link EXCEPT ![c] = "dropped"]
           /\ c2s' = [c2s EXCEPT ![c] = Tail(c2s[c])] /\ UNCHANGED <<left, up>>
  <2>1. "dropped" \in LinkState
    BY DEF LinkState
  <2>2. LinesInv'
    BY <1>1, <1>4, <2>1, SilentFits
  <2>3. left' = left - 0
    BY <1>2, <1>4
  <2>4. Budget'
    BY <1>1, <1>2, <1>4, <1>6, <2>3, BudgetReturns
  <2> QED
    BY <2>2, <2>4
<1>5. CASE PollPiped(c)
  <2>1. up' = FALSE /\ UNCHANGED <<client, link, c2s, s2c, left>>
    BY <1>5 DEF PollPiped
  <2>2. Boxes'
    BY <1>1, <2>1 DEF LinesInv, Boxes
  <2>3. \A d \in Conn : LineOf(d)'
    BY <1>1, <2>1 DEF LinesInv, LineOf, Waiting, Gone
  <2>4. Budget'
    BY <1>1, <2>1, BudgetStays
  <2> QED
    BY <2>2, <2>3, <2>4 DEF LinesInv
<1> QED
  BY <1>3, <1>4, <1>5 DEF PollHangup, NoBytes

LEMMA AcceptPays == ASSUME PollLines, Accept PROVE LinesInv' /\ Budget'
<1>1. PollTyped /\ Queued /\ Ahead /\ LinesInv /\ Budget /\ up /\ up \in BOOLEAN
      /\ UNCHANGED <<client, c2s, s2c>>
  BY DEF PollLines, PollInv, LinesInv, Boxes, Accept
<1>2. CASE UNCHANGED <<link, left, up>>
  BY <1>1, <1>2, LinesStay, BudgetStays
<1>3. CASE /\ left > 0 /\ left' = left - 1
           /\ link' = [link EXCEPT ![Head(backlog)] = "held"]
           /\ up' = up \/ up' = FALSE
  <2>1. backlog # <<>> /\ backlog \in Seq(Conn)
    <3>1. /\ at # 0 /\ fds[at].rev /\ fds[at].fd = Listener /\ Array
          /\ nfd \in Nat /\ at \in 0..nfd
      BY <1>1 DEF PollLines, PollInv, Accept, PollTyped, FdsTyped, Entry
    <3>2. at = 1
      BY <1>1, <3>1, PollAssumption DEF Array
    <3> QED
      BY <1>1, <3>1, <3>2 DEF Ahead, PollTyped
  <2>2. PICK c \in Conn : c = Head(backlog) /\ link[c] = "none"
    <3>1. Head(backlog) = backlog[1] /\ 1 \in 1..Len(backlog) /\ Head(backlog) \in Conn
      BY <2>1
    <3> QED
      BY <1>1, <3>1 DEF Queued
  <2>3. link \in [Conn -> LinkState]
    BY <1>1 DEF PollTyped
  <2>4. Budget'
    BY <1>1, <1>3, <2>2, <2>3, BudgetTakes
  <2>5. LinesInv'
    BY <1>1, <1>3, <2>2, LinkFits
  <2> QED
    BY <2>4, <2>5
<1> QED
  BY <1>2, <1>3 DEF Accept

LEMMA PollLinesKeep == ASSUME PollLines, [PollNext]_pvars PROVE PollLines'
<1>1. PollInv'
  BY PollInductive DEF PollLines
<1>2. LinesInv /\ Budget
  BY DEF PollLines
<1>3. CASE UNCHANGED service
  BY <1>2, <1>3, LinesStay, BudgetStays, <1>1 DEF service, PollLines
<1>4. ASSUME NEW c \in Conn, ClientStep(c) \/ UserStep(c) PROVE PollLines'
  <2>1. UNCHANGED <<left, link>>
    BY <1>4 DEF ClientStep, UserStep, ReadAnswer, ReadPart, ReadEof, Connect, Type, TypeNothing, Leave
  <2> QED
    BY <1>1, <1>2, <1>4, <2>1, ClientsFit, BudgetStays DEF PollLines
<1>5. CASE Accept \/ \E c \in Conn : PollHangup(c) \/ NoBytes(c) \/ PollPiped(c)
                                  \/ Key(c) \/ Command(c)
  BY <1>1, <1>5, AcceptPays, SilentPays, KeyPays, CommandPays DEF PollLines
<1> QED
  BY <1>3, <1>4, <1>5 DEF PollNext, PollStep, Poll, NotReady, pvars

-----------------------------------------------------------------------------
(* grep and tac: types *)

OptionRecord == [pats : Seq(Word), names : Seq(Word), e : BOOLEAN, i : BOOLEAN,
                 v : BOOLEAN, c : BOOLEAN, l : {"none", "l", "L"}]

ToolsInv == /\ tool \in {"options", "usage", "grep", "tac", "printed", "overrun"}
            /\ args \in Seq(Argument)
            /\ opts \in OptionRecord
            /\ lineno \in Nat /\ matches \in 0..lineno
            /\ Len(text) \in Nat /\ pos \in 0..Len(text)

LEMMA ToolsBegin == ASSUME NEW r \in BOOLEAN, ToolsStart(r) PROVE ToolsInv
<1>1. args \in Seq(Argument)
  <2>1. <<>> \in Seq(Argument)
    OBVIOUS
  <2>2. args \in Arguments \/ args = <<>>
    BY DEF ToolsStart
  <2> QED
    BY <2>1, <2>2, ToolsAssumption, Zenon
<1>2. Len(text) \in Nat
  BY ToolsAssumption DEF ToolsStart
<1>3. NoOptions \in OptionRecord
  BY DEF NoOptions, OptionRecord
<1> QED
  BY <1>1, <1>2, <1>3 DEF ToolsStart, ToolsInv

LEMMA PatTyped == ASSUME NEW a \in OptionRecord, NEW p \in Word PROVE WithPat(a, p) \in OptionRecord
<1>1. a.pats \in Seq(Word)
  BY DEF OptionRecord
<1>2. PICK q : q = Append(a.pats, p)
  OBVIOUS
<1>3. q \in Seq(Word)
  BY <1>1, <1>2
<1>4. [a EXCEPT !.pats = q] \in OptionRecord
  BY <1>3 DEF OptionRecord
<1> QED
  BY <1>2, <1>4 DEF WithPat

LEMMA ArgumentTyped ==
  ASSUME NEW a \in OptionRecord, NEW g \in Argument
  PROVE  WithArgument(a, g) \in OptionRecord
<1>1. g.val \in Word /\ g.opt \in {"v", "i", "c", "l", "L", "e", "word"}
  BY DEF Argument
<1>2. WithPat(a, g.val) \in OptionRecord
  BY <1>1, PatTyped
<1> DEFINE b == WithPat(a, g.val)
<1> HIDE DEF b
<1>3. /\ [b EXCEPT !.e = TRUE] \in OptionRecord
      /\ [a EXCEPT !.i = TRUE] \in OptionRecord
      /\ [a EXCEPT !.v = TRUE] \in OptionRecord
      /\ [a EXCEPT !.c = TRUE] \in OptionRecord
      /\ g.opt \in {"l", "L"} => [a EXCEPT !.l = g.opt] \in OptionRecord
  BY <1>1, <1>2 DEF OptionRecord, b
<1>4. [a EXCEPT !.names = Append(@, g.val)] \in OptionRecord
  <2>1. PICK q : q = Append(a.names, g.val)
    OBVIOUS
  <2>2. q \in Seq(Word)
    BY <1>1, <2>1 DEF OptionRecord
  <2>3. [a EXCEPT !.names = q] \in OptionRecord
    BY <2>2 DEF OptionRecord
  <2> QED
    BY <2>1, <2>3
<1> QED
  BY <1>1, <1>3, <1>4 DEF WithArgument, b

LEMMA ToolsKeep == ASSUME ToolsInv, [ToolsNext]_tvars PROVE ToolsInv'
<1>1. CASE UNCHANGED tvars
  BY <1>1 DEF tvars, ToolsInv
<1>2. CASE TakeArgument
  <2>1. Head(args) \in Argument /\ Tail(args) \in Seq(Argument)
    BY <1>2 DEF TakeArgument, ToolsInv
  <2>2. opts' \in OptionRecord
    BY <1>2, <2>1, ArgumentTyped DEF TakeArgument, ToolsInv
  <2> QED
    BY <1>2, <2>1, <2>2 DEF TakeArgument, ToolsInv, UnchangedTac
<1>3. CASE EndArguments
  <2>1. opts' \in OptionRecord
    <3>1. CASE UNCHANGED opts
      BY <3>1 DEF ToolsInv
    <3>2. CASE /\ opts.names # <<>>
               /\ opts' = [WithPat(opts, Head(opts.names)) EXCEPT !.names = Tail(@)]
      <4> DEFINE b == WithPat(opts, Head(opts.names))
      <4>1. Head(opts.names) \in Word /\ opts.names \in Seq(Word)
        BY <3>2 DEF ToolsInv, OptionRecord
      <4>2. b \in OptionRecord /\ b.names = opts.names
        BY <4>1, PatTyped DEF ToolsInv, WithPat, OptionRecord
      <4> HIDE DEF b
      <4>3. [b EXCEPT !.names = Tail(@)] \in OptionRecord
        <5>1. PICK q : q = Tail(b.names)
          OBVIOUS
        <5>2. q \in Seq(Word)
          BY <3>2, <4>1, <4>2, <5>1
        <5>3. [b EXCEPT !.names = q] \in OptionRecord
          BY <4>2, <5>2 DEF OptionRecord
        <5> QED
          BY <5>1, <5>3
      <4> QED
        BY <3>2, <4>3 DEF b
    <3> QED
      BY <1>3, <3>1, <3>2 DEF EndArguments
  <2> QED
    BY <1>3, <2>1 DEF EndArguments, ToolsInv, UnchangedTac
<1>4. CASE SkipFile \/ EndFile
  BY <1>4 DEF SkipFile, EndFile, NextFile, ToolsInv, UnchangedTac
<1>5. CASE ReadLine
  BY <1>5 DEF ReadLine, NextFile, ToolsInv, UnchangedTac
<1>6. CASE TakeByte
  BY <1>6 DEF TakeByte, Flush, ToolsInv, UnchangedGrep
<1>7. CASE EndTac
  BY <1>7 DEF EndTac, ToolsInv, UnchangedGrep
<1> QED
  BY <1>1, <1>2, <1>3, <1>4, <1>5, <1>6, <1>7 DEF ToolsNext

LEMMA ToolsTyped == ASSUME ToolsInv PROVE ToolsTypeOK
  BY DEF ToolsInv, ToolsTypeOK, OptionRecord

-----------------------------------------------------------------------------
(* tac: the lines, and the buffer *)

\* The bytes there are in the file.
Bytes == {text[i] : i \in 1..Len(text)}

\* A line as tac sees it: inked from a to b, and nothing more of it around.
Run(a, b) == /\ a \in 1..Len(text) /\ b \in a..Len(text)
             /\ \A k \in a..b : Inked(k)
             /\ a = 1 \/ ~Inked(a - 1)
             /\ b = Len(text) \/ ~Inked(b + 1)

LEMMA RunIsLine ==
  ASSUME Len(text) \in Nat, NEW a, NEW b, Run(a, b)
  PROVE  /\ a \in Begins
         /\ LineAt(a) = SubSeq(text, a, b)
         /\ \A j \in Begins : j <= b => j <= a
<1>1. a \in 1..Len(text) /\ b \in a..Len(text)
  BY DEF Run
<1> DEFINE ends == {j \in a..Len(text) : \A k \in a..j : Inked(k)}
<1>2. ends = a..b
  <2>1. \A j \in ends : j \in a..b
    <3>1. TAKE j \in ends
    <3>2. CASE b = Len(text)
      BY <1>1, <3>2
    <3>3. CASE b # Len(text)
      <4>1. ~Inked(b + 1)
        BY <3>3 DEF Run
      <4>2. j > b => b + 1 \in a..j
        BY <1>1
      <4> QED
        BY <1>1, <4>1, <4>2
    <3> QED
      BY <3>2, <3>3
  <2>2. \A j \in a..b : j \in ends
    <3>1. TAKE j \in a..b
    <3>2. j \in a..Len(text) /\ \A k \in a..j : k \in a..b
      BY <1>1, <3>1
    <3> QED
      BY <3>2 DEF Run
  <2> QED
    BY <2>1, <2>2
<1>3. Cardinality(ends) = b - a + 1
  <2>1. a \in Int /\ b \in Int /\ ~ (a > b)
    BY <1>1
  <2>2. Cardinality(a..b) = b - a + 1
    BY <2>1, FS_Interval
  <2> QED
    BY <1>2, <2>2
<1>4. LineAt(a) = SubSeq(text, a, b)
  <2>1. LineAt(a) = SubSeq(text, a, a + Cardinality(ends) - 1)
    BY DEF LineAt
  <2>2. a + Cardinality(ends) - 1 = b
    BY <1>1, <1>3
  <2> QED
    BY <2>1, <2>2
<1>5. a \in Begins
  <2>1. Inked(a) /\ (a = 1 \/ ~Inked(a - 1))
    BY <1>1 DEF Run
  <2> QED
    BY <1>1, <2>1 DEF Begins
<1>6. ASSUME NEW j \in Begins, j <= b PROVE j <= a
  <2>1. j \in 1..Len(text) /\ (j = 1 \/ ~Inked(j - 1))
    BY DEF Begins
  <2>2. j > a => j # 1 /\ j - 1 \in a..b
    BY <1>1, <1>6, <2>1
  <2> QED
    BY <1>1, <2>1, <2>2 DEF Run
<1> QED
  BY <1>4, <1>5, <1>6

\* What is inked belongs to a line that is as long, or longer.
LEMMA InkedInLine ==
  ASSUME NEW S, text \in Seq(S), NEW a \in 1..Len(text), NEW b \in a..Len(text),
         \A k \in a..b : Inked(k)
  PROVE  \E i \in Begins : Len(LineAt(i)) \in Nat /\ Len(LineAt(i)) >= b - a + 1
<1> DEFINE T == {i \in 1..a : \A k \in i..b : Inked(k)}
<1>1. Len(text) \in Nat
  OBVIOUS
<1>2. a \in T
  OBVIOUS
<1>3. PICK i \in T : \A k \in T : i <= k
  <2>1. T \in SUBSET Nat
    OBVIOUS
  <2> HIDE DEF T
  <2> QED
    BY <1>2, <2>1, NoLeast
<1>4. i \in 1..a /\ \A k \in i..b : Inked(k)
  BY <1>3
<1>5. i \in Begins
  <2>1. i \in 1..Len(text) /\ i \in i..b
    BY <1>1, <1>4
  <2>2. i # 1 => ~Inked(i - 1)
    <3> SUFFICES ASSUME i # 1, Inked(i - 1) PROVE FALSE
      OBVIOUS
    <3>1. i - 1 \in 1..a
      BY <1>4
    <3>2. \A k \in (i - 1)..b : k = i - 1 \/ k \in i..b
      BY <1>4
    <3>3. i - 1 \in T
      BY <1>4, <3>1, <3>2
    <3> QED
      BY <1>3, <1>4, <3>3
  <2> QED
    BY <1>4, <2>1, <2>2 DEF Begins
<1> DEFINE ends == {j \in i..Len(text) : \A k \in i..j : Inked(k)}
<1>6. \A j \in i..b : j \in ends
  <2>1. TAKE j \in i..b
  <2>2. j \in i..Len(text) /\ \A k \in i..j : k \in i..b
    BY <1>1, <1>4, <2>1
  <2> QED
    BY <1>4, <2>2
<1>7. /\ IsFiniteSet(i..b) /\ Cardinality(i..b) = b - i + 1
      /\ IsFiniteSet(i..Len(text)) /\ Cardinality(i..Len(text)) = Len(text) - i + 1
  <2>1. /\ i \in Int /\ b \in Int /\ ~ (i > b) /\ Len(text) \in Int /\ ~ (i > Len(text))
    BY <1>1, <1>4
  <2> QED
    BY <2>1, FS_Interval
<1>8. /\ IsFiniteSet(ends) /\ Cardinality(ends) <= Len(text) - i + 1
      /\ Cardinality(ends) >= b - i + 1 /\ Cardinality(ends) \in Nat
  <2>1. ends \in SUBSET (i..Len(text)) /\ (i..b) \in SUBSET ends
    BY <1>6
  <2> HIDE DEF ends
  <2>2. IsFiniteSet(ends) /\ Cardinality(ends) <= Cardinality(i..Len(text))
    BY <1>7, <2>1, FS_Subset
  <2>3. Cardinality(i..b) <= Cardinality(ends) /\ Cardinality(ends) \in Nat
    BY <2>1, <2>2, FS_Subset, FS_CardinalityType
  <2> QED
    BY <1>7, <2>2, <2>3
<1> DEFINE last == i + Cardinality(ends) - 1
<1>9. LineAt(i) = SubSeq(text, i, last)
  BY DEF LineAt
<1> HIDE DEF ends
<1>10. last \in Nat /\ last <= Len(text) /\ last - i + 1 >= b - a + 1 /\ i \in Nat /\ i <= last
  BY <1>1, <1>4, <1>8
<1> HIDE DEF last
<1>11. Len(LineAt(i)) = last - i + 1
  <2>1. \A k \in i..last : text[k] \in S
    BY <1>4, <1>10
  <2> QED
    BY <1>9, <1>10, <2>1, SubSeqProperties
<1> QED
  BY <1>5, <1>10, <1>11

\* What tac has printed when it is done with the bytes behind q: the lines that
\* begin there, the last one first, and each had room for its 0.
After(q) == {j \in Begins : j > q}
Printed(o, q) ==
  /\ Len(o) = Cardinality(After(q))
  /\ \A i \in After(q) : /\ o[Cardinality({j \in Begins : j >= i})] = LineAt(i)
                         /\ Len(LineAt(i)) < LineMax

LEMMA BeginsFinite ==
  ASSUME Len(text) \in Nat
  PROVE  /\ IsFiniteSet(Begins) /\ Begins \subseteq 1..Len(text)
         /\ \A T \in SUBSET Begins : IsFiniteSet(T) /\ Cardinality(T) \in Nat
<1>1. Begins \in SUBSET (1..Len(text)) /\ IsFiniteSet(1..Len(text))
  <2>1. 1 \in Int /\ Len(text) \in Int
    OBVIOUS
  <2> QED
    BY <2>1, FS_Interval DEF Begins
<1>2. IsFiniteSet(Begins)
  BY <1>1, FS_Subset
<1> QED
  BY <1>1, <1>2, FS_Subset, FS_CardinalityType

LEMMA LineAdded ==
  ASSUME NEW S, NEW o \in Seq(S), Len(text) \in Nat,
         NEW a \in Begins, NEW b \in Nat, NEW c \in Nat, c < a,
         \A j \in Begins : (j > b <=> j > a) /\ (j > c <=> j >= a),
         Printed(o, b), LineAt(a) \in S, Len(LineAt(a)) < LineMax
  PROVE  Printed(Append(o, LineAt(a)), c)
<1>1. a \in Nat /\ \A j \in Begins : j \in Nat
  BY BeginsFinite
<1>2. After(b) = After(a) /\ After(c) = After(a) \cup {a} /\ ~ (a \in After(a))
  <2>1. \A j \in Begins : (j > b <=> j > a) /\ (j > c <=> j > a \/ j = a)
    BY <1>1
  <2>2. ~ (a > a)
    BY <1>1
  <2> QED
    BY <2>1, <2>2, Zenon DEF After
<1>3. /\ IsFiniteSet(After(a)) /\ Cardinality(After(a)) = Len(o)
      /\ Cardinality(After(c)) = Len(o) + 1
  <2>1. IsFiniteSet(After(a))
    BY BeginsFinite DEF After
  <2>2. Cardinality(After(a)) = Len(o)
    BY <1>2 DEF Printed
  <2> QED
    BY <1>2, <2>1, <2>2, FS_AddElement
<1> DEFINE p == Append(o, LineAt(a))
<1>4. Len(p) = Len(o) + 1 /\ p[Len(o) + 1] = LineAt(a) /\ \A k \in 1..Len(o) : p[k] = o[k]
  BY AppendProperties
<1> HIDE DEF p
<1>5. ASSUME NEW i \in After(c)
      PROVE  /\ p[Cardinality({j \in Begins : j >= i})] = LineAt(i)
             /\ Len(LineAt(i)) < LineMax
  <2> DEFINE T == {j \in Begins : j >= i}
  <2>1. i \in Begins /\ i \in Nat /\ i >= a
    BY <1>1 DEF After
  <2>2. CASE i = a
    <3>1. T = After(c)
      BY <1>1, <2>1, <2>2 DEF After
    <3> HIDE DEF T
    <3>2. p[Cardinality(T)] = LineAt(i)
      BY <1>3, <1>4, <2>2, <3>1
    <3> QED
      BY <2>2, <3>2 DEF T
  <2>3. CASE i # a
    <3>1. i \in After(b) /\ i \in T /\ T \in SUBSET After(a)
      <4>1. i > a /\ i >= i /\ \A j \in Begins : j >= i => j > a
        BY <1>1, <2>1, <2>3
      <4>2. i \in After(a)
        BY <2>1, <4>1, Zenon DEF After
      <4>3. i \in T /\ T \in SUBSET After(a)
        BY <2>1, <4>1, Zenon DEF After
      <4> QED
        BY <1>2, <4>2, <4>3, Zenon
    <3>2. o[Cardinality(T)] = LineAt(i) /\ Len(LineAt(i)) < LineMax
      BY <3>1 DEF Printed
    <3> HIDE DEF T
    <3>3. IsFiniteSet(T) /\ Cardinality(T) <= Len(o) /\ Cardinality(T) \in Nat
      BY <1>3, <3>1, FS_Subset, FS_CardinalityType
    <3>4. Cardinality(T) # 0
      BY <3>1, <3>3, FS_EmptySet
    <3>5. Cardinality(T) \in 1..Len(o)
      BY <3>3, <3>4
    <3>6. p[Cardinality(T)] = LineAt(i)
      BY <1>4, <3>2, <3>5
    <3> QED
      BY <3>2, <3>6 DEF T
  <2> QED
    BY <2>2, <2>3
<1>6. Len(p) = Cardinality(After(c))
  BY <1>3, <1>4
<1> QED
  BY <1>5, <1>6 DEF Printed, p

-----------------------------------------------------------------------------

\* Bytes p + 1 to q are in the buffer bk, the last one first; all of them belong
\* to one line, and the lines behind it are in o.
Gathered(p, bk, o) ==
  LET q == p + Len(bk) IN
  /\ q <= Len(text) /\ Len(bk) <= LineMax
  /\ \A k \in 1..Len(bk) : bk[k] = text[q + 1 - k] /\ Inked(q + 1 - k)
  /\ q = Len(text) \/ ~Inked(q + 1)
  /\ p = 0 => bk # <<>>
  /\ Printed(o, q)

TacInv ==
  /\ text \in Seq(Bytes) /\ back \in Seq(Bytes) /\ tacOut \in Seq(Seq(Bytes))
  /\ tool \in {"options", "grep"} => text = <<>>
  /\ tool = "tac" /\ text # <<>> => Gathered(pos, back, tacOut)
  /\ tool = "printed" => text # <<>> /\ Printed(tacOut, 0)
  /\ tool = "overrun" /\ text # <<>> => \E i \in Begins : Len(LineAt(i)) >= LineMax

\* When the byte before the buffer is a newline, the buffer holds a whole line.
LEMMA BufferIsLine ==
  ASSUME text \in Seq(Bytes), NEW bk \in Seq(Bytes), bk # <<>>, NEW p \in Nat,
         NEW o, Gathered(p, bk, o), p = 0 \/ ~Inked(p)
  PROVE  /\ p + 1 \in Begins /\ LineAt(p + 1) = Reverse(bk)
         /\ Reverse(bk) \in Seq(Bytes) /\ Len(Reverse(bk)) = Len(bk)
         /\ \A j \in Begins : j <= p + Len(bk) => j <= p + 1
<1> DEFINE q == p + Len(bk)
<1>1. /\ Len(bk) \in Nat /\ Len(bk) > 0 /\ Len(text) \in Nat /\ q \in Nat /\ q <= Len(text)
      /\ \A k \in 1..Len(bk) : bk[k] = text[q + 1 - k] /\ Inked(q + 1 - k)
      /\ q = Len(text) \/ ~Inked(q + 1)
  <2>1. Len(bk) \in Nat /\ Len(bk) > 0 /\ Len(text) \in Nat
    BY EmptySeq, LenProperties
  <2> QED
    BY <2>1 DEF Gathered
<1>2. \A k \in (p + 1)..q : /\ Inked(k) /\ q + 1 - k \in 1..Len(bk)
                            /\ bk[q + 1 - k] = text[k]
  <2>1. TAKE k \in (p + 1)..q
  <2>2. q + 1 - k \in 1..Len(bk) /\ q + 1 - (q + 1 - k) = k
    BY <1>1, <2>1
  <2> QED
    BY <1>1, <2>2
<1>3. Run(p + 1, q)
  <2>1. p + 1 \in 1..Len(text) /\ q \in (p + 1)..Len(text) /\ (p + 1) - 1 = p
    BY <1>1
  <2>2. p + 1 = 1 \/ ~Inked((p + 1) - 1)
    BY <2>1
  <2> HIDE DEF q
  <2> QED
    BY <1>1, <1>2, <2>1, <2>2 DEF Run
<1> DEFINE r == Reverse(bk)
           t == SubSeq(text, p + 1, q)
<1>4. r = [k \in 1..Len(bk) |-> bk[(Len(bk) - k) + 1]]
  BY DEF Reverse
<1>5. \A k \in 1..Len(bk) : bk[(Len(bk) - k) + 1] \in Bytes
  <2>1. TAKE k \in 1..Len(bk)
  <2>2. (Len(bk) - k) + 1 \in 1..Len(bk)
    BY <1>1
  <2> QED
    BY <2>2, ElementOfSeq
<1> HIDE DEF r
<1>6. r \in Seq(Bytes) /\ Len(r) = Len(bk)
  BY <1>1, <1>4, <1>5
<1>7. /\ t \in Seq(Bytes) /\ Len(t) = Len(bk)
      /\ \A k \in 1..Len(bk) : t[k] = text[p + k]
  <2>1. \A k \in (p + 1)..q : text[k] \in Bytes
    <3>1. TAKE k \in (p + 1)..q
    <3>2. k \in 1..Len(text)
      BY <1>1, <3>1
    <3> QED
      BY <3>2, Zenon DEF Bytes
  <2>2. p + 1 \in Int /\ q \in Int /\ p + 1 <= q /\ q - (p + 1) + 1 = Len(bk)
    BY <1>1
  <2> HIDE DEF q
  <2>3. /\ t \in Seq(Bytes) /\ Len(t) = Len(bk)
        /\ \A k \in 1..Len(bk) : t[k] = text[(p + 1) + k - 1]
    BY <2>1, <2>2, SubSeqProperties
  <2>4. \A k \in 1..Len(bk) : (p + 1) + k - 1 = p + k
    OBVIOUS
  <2> QED
    BY <2>3, <2>4
<1> HIDE DEF t
<1>8. \A k \in 1..Len(bk) : r[k] = t[k]
  <2>1. TAKE k \in 1..Len(bk)
  <2>2. p + k \in (p + 1)..q /\ q + 1 - (p + k) = (Len(bk) - k) + 1
    BY <1>1
  <2>3. r[k] = bk[(Len(bk) - k) + 1] /\ t[k] = text[p + k]
    BY <1>4, <1>7
  <2> HIDE DEF q
  <2>4. bk[q + 1 - (p + k)] = text[p + k]
    BY <1>2, <2>2
  <2> QED
    BY <2>2, <2>3, <2>4
<1>9. r = t
  BY <1>6, <1>7, <1>8, SeqEqual
<1>10. /\ p + 1 \in Begins /\ LineAt(p + 1) = t
       /\ \A j \in Begins : j <= q => j <= p + 1
  BY <1>1, <1>3, RunIsLine DEF t
<1> QED
  BY <1>6, <1>9, <1>10 DEF r

LEMMA TacBegin == ASSUME NEW runs \in BOOLEAN, ToolsStart(runs) PROVE TacInv
<1>1. text \in Texts \/ text = <<>>
  BY DEF ToolsStart
<1>2. text \in Seq(Bytes)
  <2>1. <<>> \in Seq(Bytes)
    BY EmptySeq
  <2>2. ASSUME text \in Texts PROVE text \in Seq(Bytes)
    <3>1. text \in Seq({text[i] : i \in DOMAIN text})
      BY <2>2, ToolsAssumption
    <3>2. DOMAIN text = 1..Len(text)
      BY <3>1, LenProperties
    <3> QED
      BY <3>1, <3>2, Zenon DEF Bytes
  <2> QED
    BY <1>1, <2>1, <2>2
<1>3. Len(text) \in Nat
  BY <1>2, LenProperties
<1>4. /\ pos = Len(text) /\ back = <<>> /\ tacOut = <<>> /\ Len(<<>>) = 0
      /\ tool \in {"options", "tac", "usage"} /\ (tool = "options" => text = <<>>)
  BY DEF ToolsStart
<1>5. back \in Seq(Bytes) /\ tacOut \in Seq(Seq(Bytes))
  BY <1>4, EmptySeq
<1>6. ASSUME text # <<>> PROVE Gathered(pos, back, tacOut)
  <2>1. Len(text) # 0
    BY <1>2, <1>6, EmptySeq
  <2>2. After(Len(text)) = {}
    BY <1>3, BeginsFinite DEF After
  <2>3. Printed(<<>>, Len(text))
    BY <1>4, <2>2, FS_EmptySet DEF Printed
  <2>4. pos + Len(back) = Len(text) /\ pos # 0 /\ Len(back) = 0 /\ 0 <= LineMax
    BY <1>3, <1>4, <2>1, ToolsAssumption
  <2> QED
    BY <1>3, <1>4, <2>3, <2>4 DEF Gathered
<1> QED
  BY <1>2, <1>4, <1>5, <1>6 DEF TacInv

\* A newline behind which there is something: the line is printed, and the
\* newline is passed.  At the end of the file there is none to pass.
LEMMA FlushPrints ==
  ASSUME text \in Seq(Bytes), NEW bk \in Seq(Bytes), bk # <<>>, NEW p \in Nat,
         NEW o \in Seq(Seq(Bytes)), Gathered(p, bk, o), p = 0 \/ ~Inked(p),
         Len(bk) < LineMax,
         NEW c \in Nat, c = p \/ c = p - 1
  PROVE  Printed(Append(o, Reverse(bk)), c)
<1> DEFINE a == p + 1
<1>1. /\ a \in Begins /\ LineAt(a) = Reverse(bk)
      /\ Reverse(bk) \in Seq(Bytes) /\ Len(Reverse(bk)) = Len(bk)
      /\ \A j \in Begins : j <= p + Len(bk) => j <= a
  BY BufferIsLine
<1>2. Len(text) \in Nat /\ Len(bk) \in Nat /\ Len(bk) > 0 /\ p + Len(bk) \in Nat
  BY EmptySeq, LenProperties
<1>3. c < a
  OBVIOUS
<1>4. \A j \in Begins : (j > p + Len(bk) <=> j > a) /\ (j > c <=> j >= a)
  <2>1. TAKE j \in Begins
  <2>2. j \in 1..Len(text) /\ Inked(j)
    BY <1>2 DEF Begins, Inked
  <2>3. j <= p + Len(bk) => j <= a
    BY <1>1
  <2>4. j # p \/ p = 0
    BY <2>2
  <2> QED
    BY <1>2, <2>2, <2>3, <2>4
<1>5. Printed(o, p + Len(bk))
  BY DEF Gathered
<1> HIDE DEF a
<1>6. Printed(Append(o, LineAt(a)), c)
  BY <1>1, <1>2, <1>3, <1>4, <1>5, LineAdded
<1> QED
  BY <1>1, <1>6

\* A full buffer holds at least LineMax bytes of one line.
LEMMA FullIsLong ==
  ASSUME text \in Seq(Bytes), NEW bk \in Seq(Bytes), NEW p \in Nat, NEW o, Gathered(p, bk, o),
         bk # <<>>, Len(bk) >= LineMax
  PROVE  \E i \in Begins : Len(LineAt(i)) >= LineMax
<1>1. Len(text) \in Nat /\ Len(bk) \in Nat /\ Len(bk) > 0 /\ LineMax \in Nat
  BY EmptySeq, LenProperties, ToolsAssumption
<1>2. /\ p + Len(bk) <= Len(text)
      /\ \A k \in 1..Len(bk) : Inked(p + Len(bk) + 1 - k)
  BY DEF Gathered
<1> DEFINE q == p + Len(bk)
<1>3. \A k \in (p + 1)..q : Inked(k)
  <2>1. TAKE k \in (p + 1)..q
  <2>2. q + 1 - k \in 1..Len(bk) /\ q + 1 - (q + 1 - k) = k
    BY <1>1, <2>1
  <2>3. Inked(q + 1 - (q + 1 - k))
    BY <1>2, <2>2
  <2> QED
    BY <2>2, <2>3
<1>4. p + 1 \in 1..Len(text) /\ q \in (p + 1)..Len(text) /\ q - (p + 1) + 1 = Len(bk)
  BY <1>1, <1>2
<1> HIDE DEF q
<1>5. PICK i \in Begins : Len(LineAt(i)) \in Nat /\ Len(LineAt(i)) >= q - (p + 1) + 1
  BY <1>3, <1>4, InkedInLine
<1>6. Len(LineAt(i)) >= Len(bk)
  BY <1>4, <1>5
<1> QED
  BY <1>1, <1>5, <1>6

\* What is said of the text is said of it as long as it stays.
LEMMA TextStays ==
  ASSUME UNCHANGED text
  PROVE  /\ Gathered(pos', back', tacOut') => Gathered(pos, back, tacOut)'
         /\ Printed(tacOut', 0) => Printed(tacOut, 0)'
         /\ (\E i \in Begins : Len(LineAt(i)) >= LineMax)
              => (\E i \in Begins : Len(LineAt(i)) >= LineMax)'
         /\ text \in Seq(Bytes) => (text \in Seq(Bytes))'
         /\ back' \in Seq(Bytes) => (back \in Seq(Bytes))'
         /\ tacOut' \in Seq(Seq(Bytes)) => (tacOut \in Seq(Seq(Bytes)))'
<1>1. text' = text
  OBVIOUS
<1>2. Bytes' = Bytes /\ Begins' = Begins /\ \A i : Inked(i)' <=> Inked(i)
  BY <1>1 DEF Bytes, Begins, Inked
<1>3. \A i : LineAt(i)' = LineAt(i)
  BY <1>1 DEF LineAt, Inked
<1>4. \A q : After(q)' = After(q)
  BY <1>2 DEF After
<1>5. ASSUME NEW q, Printed(tacOut', q) PROVE Printed(tacOut, q)'
  BY <1>2, <1>3, <1>4, <1>5 DEF Printed
<1>6. ASSUME Gathered(pos', back', tacOut') PROVE Gathered(pos, back, tacOut)'
  BY <1>1, <1>2, <1>5, <1>6 DEF Gathered
<1> QED
  BY <1>1, <1>2, <1>3, <1>5, <1>6

LEMMA ByteTaken == ASSUME ToolsInv, TacInv, TakeByte PROVE TacInv'
<1>1. /\ tool = "tac" /\ pos > 0 /\ pos' = pos - 1 /\ text' = text
      /\ text \in Seq(Bytes) /\ back \in Seq(Bytes) /\ tacOut \in Seq(Seq(Bytes))
  BY DEF TakeByte, TacInv
<1>2. /\ Len(text) \in Nat /\ pos \in 1..Len(text) /\ text # <<>>
      /\ Len(back) \in Nat /\ (back # <<>> => Len(back) > 0) /\ LineMax \in Nat \ {0}
  <2>1. Len(text) \in Nat /\ Len(back) \in Nat /\ (back # <<>> => Len(back) > 0)
    BY <1>1, EmptySeq, LenProperties
  <2>2. pos \in 0..Len(text)
    BY DEF ToolsInv
  <2> QED
    BY <1>1, <2>1, <2>2, EmptySeq, ToolsAssumption
<1>3. Gathered(pos, back, tacOut)
  BY <1>1, <1>2 DEF TacInv
<1> DEFINE Long == \E i \in Begins : Len(LineAt(i)) >= LineMax
<1>4. back # <<>> /\ Len(back) >= LineMax => Long
  BY <1>1, <1>2, <1>3, FullIsLong
<1> HIDE DEF Long
<1>5. /\ back' \in Seq(Bytes) /\ tacOut' \in Seq(Seq(Bytes))
      /\ tool' \in {"tac", "overrun"}
      /\ tool' = "tac" => Gathered(pos', back', tacOut')
      /\ tool' = "overrun" => Long
  <2>1. CASE Inked(pos)
    <3>1. /\ back' = Append(back, text[pos]) /\ tacOut' = tacOut
          /\ tool' = IF Len(back) >= LineMax THEN "overrun" ELSE tool
      BY <2>1 DEF TakeByte, Inked
    <3>2. text[pos] \in Bytes
      BY <1>2 DEF Bytes
    <3>3. /\ back' \in Seq(Bytes) /\ back' # <<>> /\ Len(back') = Len(back) + 1
          /\ \A k \in 1..Len(back) : back'[k] = back[k]
          /\ back'[Len(back) + 1] = text[pos]
      BY <1>1, <3>1, <3>2, AppendProperties
    <3>4. Len(back) >= LineMax => Long
      BY <1>2, <1>4, EmptySeq
    <3>5. ASSUME ~(Len(back) >= LineMax) PROVE Gathered(pos', back', tacOut')
      <4> DEFINE q == pos + Len(back)
      <4>1. /\ q <= Len(text)
            /\ \A k \in 1..Len(back) : back[k] = text[q + 1 - k] /\ Inked(q + 1 - k)
            /\ q = Len(text) \/ ~Inked(q + 1)
            /\ Printed(tacOut, q)
        BY <1>3 DEF Gathered
      <4>2. pos' + Len(back') = q /\ Len(back') <= LineMax
        BY <1>1, <1>2, <3>3, <3>5
      <4>3. q + 1 - Len(back') = pos
        BY <1>2, <3>3
      <4> HIDE DEF q
      <4>4. \A k \in 1..Len(back') : back'[k] = text[q + 1 - k] /\ Inked(q + 1 - k)
        <5>1. TAKE k \in 1..Len(back')
        <5>2. k = Len(back') \/ k \in 1..Len(back)
          BY <1>2, <3>3
        <5> QED
          BY <2>1, <3>3, <4>1, <4>3, <5>2
      <4> QED
        BY <3>1, <3>3, <4>1, <4>2, <4>4 DEF Gathered
    <3> QED
      BY <1>1, <3>1, <3>3, <3>4, <3>5
  <2>2. CASE ~Inked(pos) /\ back # <<>>
    <3>1. /\ tacOut' = Append(tacOut, Reverse(back)) /\ back' = <<>>
          /\ tool' = IF Len(back) >= LineMax THEN "overrun" ELSE tool
      BY <2>2 DEF TakeByte, Inked, Flush
    <3>2. Reverse(back) \in Seq(Bytes)
      BY <1>1, <1>2, <1>3, <2>2, BufferIsLine
    <3>3. tacOut' \in Seq(Seq(Bytes)) /\ back' \in Seq(Bytes) /\ Len(back') = 0
      BY <1>1, <3>1, <3>2, AppendProperties, EmptySeq
    <3>4. pos # 1
      BY <2>2 DEF Inked
    <3>5. ASSUME ~(Len(back) >= LineMax) PROVE Gathered(pos', back', tacOut')
      <4>1. pos \in Nat /\ pos - 1 \in Nat /\ pos - 1 # 0 /\ Len(back) < LineMax
        BY <1>2, <3>4, <3>5
      <4>2. Printed(tacOut', pos - 1)
        BY <1>1, <1>2, <1>3, <2>2, <3>1, <4>1, FlushPrints
      <4>3. pos' + Len(back') = pos - 1 /\ pos - 1 <= Len(text) /\ Len(back') <= LineMax
        BY <1>1, <1>2, <3>3, <4>1
      <4>4. ~Inked(pos - 1 + 1)
        BY <1>2, <2>2
      <4> QED
        BY <1>1, <3>3, <4>1, <4>2, <4>3, <4>4 DEF Gathered
    <3> QED
      BY <1>1, <1>4, <2>2, <3>1, <3>3, <3>5
  <2>3. CASE ~Inked(pos) /\ back = <<>>
    <3>1. tacOut' = tacOut /\ back' = <<>> /\ tool' = tool /\ Len(<<>>) = 0
      BY <2>3 DEF TakeByte, Inked
    <3>2. pos # 1 /\ pos' # 0 /\ pos' \in Nat /\ pos' + 1 = pos /\ pos' + 0 = pos'
      BY <1>1, <1>2, <2>3 DEF Inked
    <3>3. Printed(tacOut, pos) /\ pos <= Len(text)
      BY <1>2, <1>3, <2>3, <3>1 DEF Gathered
    <3>4. After(pos') = After(pos)
      <4>1. \A j \in Begins : j > pos' <=> j > pos
        <5>1. TAKE j \in Begins
        <5>2. j \in 1..Len(text) /\ Inked(j)
          BY <1>2 DEF Begins, Inked
        <5>3. j # pos
          BY <2>3, <5>2
        <5> QED
          BY <1>1, <1>2, <5>2, <5>3
      <4> QED
        BY <4>1, Zenon DEF After
    <3>5. Printed(tacOut', pos')
      BY <3>1, <3>3, <3>4 DEF Printed
    <3>6. Gathered(pos', back', tacOut')
      <4>1. pos' <= Len(text) /\ 0 <= LineMax /\ 1..0 = {}
        BY <1>1, <1>2
      <4> QED
        BY <2>3, <3>1, <3>2, <3>5, <4>1 DEF Gathered
    <3> QED
      BY <1>1, <3>1, <3>6
  <2> QED
    BY <2>1, <2>2, <2>3
<1> QED
  BY <1>1, <1>5, TextStays DEF TacInv, Long

LEMMA TacEnds == ASSUME ToolsInv, TacInv, EndTac PROVE TacInv'
<1>1. /\ tool = "tac" /\ pos = 0 /\ text' = text /\ pos' = pos
      /\ text \in Seq(Bytes) /\ back \in Seq(Bytes) /\ tacOut \in Seq(Seq(Bytes))
  BY DEF EndTac, TacInv
<1>2. CASE text = <<>>
  <2>1. tool' = "usage" /\ back' = back /\ tacOut' = tacOut
    BY <1>2 DEF EndTac
  <2> QED
    BY <1>1, <2>1, TextStays DEF TacInv
<1>3. CASE text # <<>>
  <2>1. /\ tacOut' = Append(tacOut, Reverse(back)) /\ back' = <<>>
        /\ tool' = IF Len(back) >= LineMax THEN "overrun" ELSE "printed"
    BY <1>3 DEF EndTac
  <2>2. Gathered(0, back, tacOut) /\ back # <<>> /\ 0 \in Nat
    BY <1>1, <1>3 DEF TacInv, Gathered
  <2>3. Reverse(back) \in Seq(Bytes)
    BY <1>1, <2>2, BufferIsLine
  <2>4. tacOut' \in Seq(Seq(Bytes)) /\ back' \in Seq(Bytes)
    BY <1>1, <2>1, <2>3, AppendProperties, EmptySeq
  <2>5. Len(back) >= LineMax => \E i \in Begins : Len(LineAt(i)) >= LineMax
    BY <1>1, <2>2, FullIsLong
  <2>6. Len(back) \in Nat /\ LineMax \in Nat
    BY <1>1, LenProperties, ToolsAssumption
  <2>7. ~(Len(back) >= LineMax) => Printed(tacOut', 0)
    BY <1>1, <2>1, <2>2, <2>6, FlushPrints
  <2>8. CASE Len(back) >= LineMax
    BY <1>1, <1>3, <2>1, <2>4, <2>5, <2>8, TextStays DEF TacInv
  <2>9. CASE ~(Len(back) >= LineMax)
    BY <1>1, <1>3, <2>1, <2>4, <2>7, <2>9, TextStays DEF TacInv
  <2> QED
    BY <2>8, <2>9
<1> QED
  BY <1>2, <1>3

LEMMA TacKeep == ASSUME ToolsInv, TacInv, [ToolsNext]_tvars PROVE TacInv'
<1>1. CASE UNCHANGED <<text, pos, back, tacOut>> /\ tool' = tool
  BY <1>1, TextStays DEF TacInv
<1>2. CASE /\ UNCHANGED <<text, pos, back, tacOut>> /\ tool \in {"options", "grep"}
           /\ tool' \in {"options", "usage", "grep", "overrun"}
  BY <1>2, TextStays DEF TacInv
<1>3. CASE TakeByte
  BY <1>3, ByteTaken
<1>4. CASE EndTac
  BY <1>4, TacEnds
<1>5. CASE TakeArgument \/ EndArguments \/ SkipFile \/ ReadLine \/ EndFile \/ UNCHANGED tvars
  BY <1>1, <1>2, <1>5
  DEF TakeArgument, EndArguments, SkipFile, ReadLine, EndFile, AtFile, UnchangedTac, tvars
<1> QED
  BY <1>3, <1>4, <1>5 DEF ToolsNext

LEMMA TacIsRight == ASSUME ToolsInv, TacInv PROVE TacRight
<1>1. Len(text) \in Nat /\ LineMax \in Nat
  BY ToolsAssumption DEF ToolsInv
<1>2. ASSUME tool = "printed" PROVE TacReverses /\ ~ \E i \in Begins : Len(LineAt(i)) >= LineMax
  <2>1. Printed(tacOut, 0)
    BY <1>2 DEF TacInv
  <2>2. After(0) = Begins
    BY <1>1, BeginsFinite DEF After
  <2>3. \A i \in Begins : Len(LineAt(i)) < LineMax => ~(Len(LineAt(i)) >= LineMax)
    <3>1. TAKE i \in Begins
    <3> QED
      BY <1>1
  <2> QED
    BY <2>1, <2>2, <2>3 DEF Printed, TacReverses
<1>3. tool = "overrun" /\ text # <<>> => \E i \in Begins : Len(LineAt(i)) >= LineMax
  BY DEF TacInv
<1> QED
  BY <1>2, <1>3 DEF TacRight, TacReverses, TacOverrun

-----------------------------------------------------------------------------
(* grep: FlattenSeq, and what is printed of a file *)

\* One step of FlattenSeq, and g follows it as far as n.
FlatAt(g, s, i) == IF i = 1 THEN s[i] ELSE g[i - 1] \o s[i]
Flattens(g, s, n) == g = [i \in 1..n |-> FlatAt(g, s, i)]

LEMMA FlattensExists == ASSUME NEW s, NEW n \in Nat PROVE \E g : Flattens(g, s, n)
<1> DEFINE T == {m \in Nat : ~ \E g : Flattens(g, s, m)}
<1>1. SUFFICES ASSUME T # {} PROVE FALSE
  OBVIOUS
<1>2. PICK m \in T : \A k \in T : m <= k
  <2>1. T \in SUBSET Nat
    OBVIOUS
  <2> HIDE DEF T
  <2> QED
    BY <1>1, <2>1, NoLeast
<1>3. CASE m = 0
  <2> DEFINE g == [i \in 1..0 |-> <<>>]
  <2>1. Flattens(g, s, 0)
    BY DEF Flattens
  <2> QED
    BY <1>2, <1>3, <2>1
<1>4. CASE m # 0
  <2>1. m \in Nat /\ m - 1 \in Nat /\ ~ (m - 1 \in T)
    BY <1>2, <1>4
  <2>2. PICK h : Flattens(h, s, m - 1)
    BY <2>1
  <2> DEFINE g == [i \in 1..m |-> IF i = m THEN FlatAt(h, s, m) ELSE h[i]]
  <2>3. \A i \in 1..m : g[i] = FlatAt(g, s, i)
    <3>1. TAKE i \in 1..m
    <3>2. \A j \in 1..(m - 1) : h[j] = FlatAt(h, s, j) /\ g[j] = h[j]
      <4>1. TAKE j \in 1..(m - 1)
      <4>2. j \in 1..m /\ j # m
        BY <2>1
      <4>3. h[j] = FlatAt(h, s, j)
        BY <2>2 DEF Flattens
      <4> QED
        BY <4>2, <4>3
    <3>3. g[m] = FlatAt(h, s, m)
      BY <2>1, <1>4
    <3>4. FlatAt(g, s, i) = FlatAt(h, s, i)
      <4>1. i # 1 => i - 1 \in 1..(m - 1)
        BY <2>1, <3>1
      <4> QED
        BY <3>2, <4>1 DEF FlatAt
    <3>5. i # m => i \in 1..(m - 1)
      BY <2>1, <3>1
    <3> QED
      BY <3>2, <3>3, <3>4, <3>5
  <2>4. Flattens(g, s, m)
    <3>1. g = [i \in 1..m |-> g[i]]
      OBVIOUS
    <3> HIDE DEF g
    <3> QED
      BY <2>3, <3>1 DEF Flattens
  <2> QED
    BY <1>2, <2>4
<1> QED
  BY <1>3, <1>4

\* And it is the one that FlattenSeq takes.
LEMMA FlattenIs ==
  ASSUME NEW s, Len(s) \in Nat \ {0}
  PROVE  \E g : Flattens(g, s, Len(s)) /\ FlattenSeq(s) = g[Len(s)]
<1> DEFINE u == CHOOSE f : f = [i \in 1..Len(s) |-> IF i = 1 THEN s[i] ELSE f[i - 1] \o s[i]]
<1>1. \E f : f = [i \in 1..Len(s) |-> IF i = 1 THEN s[i] ELSE f[i - 1] \o s[i]]
  <2>1. PICK f : Flattens(f, s, Len(s))
    BY FlattensExists
  <2>2. f = [i \in 1..Len(s) |-> IF i = 1 THEN s[i] ELSE f[i - 1] \o s[i]]
    BY <2>1, Zenon DEF Flattens, FlatAt
  <2> QED
    BY <2>2, Zenon
<1>2. u = [i \in 1..Len(s) |-> IF i = 1 THEN s[i] ELSE u[i - 1] \o s[i]]
  BY <1>1
<1>3. FlattenSeq(s) = u[Len(s)]
  BY DEF FlattenSeq
<1> HIDE DEF u
<1> QED
  BY <1>2, <1>3 DEF Flattens, FlatAt

LEMMA FlatsAgree ==
  ASSUME NEW s, NEW t, NEW n \in Nat \ {0}, NEW m \in Nat, n <= m,
         NEW g, NEW h, Flattens(g, s, n), Flattens(h, t, m),
         \A i \in 1..n : s[i] = t[i]
  PROVE  g[n] = h[n]
<1> DEFINE T == {i \in 1..n : g[i] # h[i]}
<1>1. SUFFICES ASSUME T # {} PROVE FALSE
  BY n \in 1..n
<1>2. PICK i \in T : \A k \in T : i <= k
  <2>1. T \in SUBSET Nat
    OBVIOUS
  <2> HIDE DEF T
  <2> QED
    BY <1>1, <2>1, NoLeast
<1>3. i \in 1..n /\ i \in 1..m
  BY <1>2
<1>4. g[i] = FlatAt(g, s, i) /\ h[i] = FlatAt(h, t, i)
  BY <1>3 DEF Flattens
<1>5. i # 1 => i - 1 \in 1..n /\ g[i - 1] = h[i - 1]
  BY <1>2, <1>3
<1>6. s[i] = t[i]
  BY <1>3
<1> QED
  BY <1>2, <1>4, <1>5, <1>6 DEF FlatAt

LEMMA FlatNothing == FlattenSeq(<<>>) = <<>>
  BY Len(<<>>) = 0 DEF FlattenSeq

LEMMA FlatTyped == ASSUME NEW S, NEW s \in Seq(Seq(S)) PROVE FlattenSeq(s) \in Seq(S)
<1>1. CASE s = <<>>
  BY <1>1, FlatNothing, EmptySeq
<1>2. CASE s # <<>>
  <2>1. Len(s) \in Nat \ {0} /\ \A i \in 1..Len(s) : s[i] \in Seq(S)
    BY <1>2, EmptySeq, ElementOfSeq
  <2>2. PICK g : Flattens(g, s, Len(s)) /\ FlattenSeq(s) = g[Len(s)]
    BY <2>1, FlattenIs
  <2> DEFINE T == {i \in 1..Len(s) : ~ (g[i] \in Seq(S))}
  <2>3. SUFFICES ASSUME T # {} PROVE FALSE
    BY <2>1, <2>2, Len(s) \in 1..Len(s)
  <2>4. PICK i \in T : \A k \in T : i <= k
    <3>1. T \in SUBSET Nat
      OBVIOUS
    <3> HIDE DEF T
    <3> QED
      BY <2>3, <3>1, NoLeast
  <2>5. i \in 1..Len(s) /\ g[i] = FlatAt(g, s, i) /\ s[i] \in Seq(S)
    BY <2>1, <2>2, <2>4 DEF Flattens
  <2>6. i # 1 => g[i - 1] \in Seq(S)
    BY <2>1, <2>4, <2>5
  <2>7. g[i] \in Seq(S)
    <3>1. CASE i = 1
      BY <2>5, <3>1 DEF FlatAt
    <3>2. CASE i # 1
      <4>1. g[i - 1] \o s[i] \in Seq(S)
        BY <2>5, <2>6, <3>2, ConcatProperties
      <4> QED
        BY <2>5, <3>2, <4>1 DEF FlatAt
    <3> QED
      BY <3>1, <3>2
  <2> QED
    BY <2>4, <2>7
<1> QED
  BY <1>1, <1>2

\* One sequence more is put behind the others.
LEMMA FlatMore ==
  ASSUME NEW S, NEW s \in Seq(Seq(S)), NEW t \in Seq(Seq(S)), Len(s) = Len(t) + 1,
         \A i \in 1..Len(t) : s[i] = t[i]
  PROVE  FlattenSeq(s) = FlattenSeq(t) \o s[Len(s)]
<1>1. Len(t) \in Nat /\ Len(s) \in Nat \ {0} /\ s[Len(s)] \in Seq(S)
  <2>1. Len(t) \in Nat /\ Len(s) \in 1..Len(s) /\ Len(s) \in Nat \ {0}
    BY LenProperties
  <2> QED
    BY <2>1, ElementOfSeq
<1>2. PICK g : Flattens(g, s, Len(s)) /\ FlattenSeq(s) = g[Len(s)]
  BY <1>1, FlattenIs
<1>3. g[Len(s)] = FlatAt(g, s, Len(s))
  BY <1>1, <1>2, Len(s) \in 1..Len(s) DEF Flattens
<1>4. CASE Len(t) = 0
  <2>1. t = <<>>
    BY <1>4, EmptySeq
  <2>2. FlattenSeq(t) \o s[Len(s)] = s[Len(s)]
    BY <1>1, <2>1, FlatNothing, ConcatEmptySeq
  <2> QED
    BY <1>2, <1>3, <1>4, <2>2 DEF FlatAt
<1>5. CASE Len(t) # 0
  <2>1. PICK h : Flattens(h, t, Len(t)) /\ FlattenSeq(t) = h[Len(t)]
    BY <1>1, <1>5, FlattenIs
  <2>2. h[Len(t)] = g[Len(t)]
    <3> DEFINE n == Len(t)
               m == Len(s)
    <3>1. n \in Nat \ {0} /\ m \in Nat /\ n <= m /\ \A i \in 1..n : t[i] = s[i]
      BY <1>1, <1>5
    <3>2. Flattens(h, t, n) /\ Flattens(g, s, m)
      BY <1>2, <2>1
    <3> HIDE DEF n, m
    <3>3. h[n] = g[n]
      BY <3>1, <3>2, FlatsAgree
    <3> QED
      BY <3>3 DEF n
  <2>3. Len(s) - 1 = Len(t) /\ Len(s) # 1
    BY <1>1, <1>5
  <2> QED
    BY <1>2, <1>3, <2>1, <2>2, <2>3 DEF FlatAt
<1> QED
  BY <1>4, <1>5

-----------------------------------------------------------------------------

Item == [kind : {"name", "line", "count"}, file : Word, what : Nat]

FilesTyped == \A w \in DOMAIN files : files[w] \in Seq(Line)

\* What is printed of the first n files.
Spoken(n) == FlattenSeq([k \in 1..n |-> Whole(opts.names[k])])

LEMMA TellsTyped ==
  ASSUME NEW w \in Word, NEW n \in Nat, NEW kind \in {"name", "line", "count"}
  PROVE  Tells(w, kind, n) \in Seq(Item)
<1>1. [kind |-> kind, file |-> w, what |-> n] \in Item
  BY DEF Item
<1> HIDE DEF Item
<1> QED
  BY <1>1 DEF Tells

LEMMA LinesGrow ==
  ASSUME NEW w \in Word, NEW n \in Nat
  PROVE  /\ LinesOf(w, 0) = <<>> /\ LinesOf(w, n) \in Seq(Item)
         /\ Selected(files[w][n + 1]) =>
              LinesOf(w, n + 1) = LinesOf(w, n) \o Tells(w, "line", n + 1)
         /\ ~Selected(files[w][n + 1]) => LinesOf(w, n + 1) = LinesOf(w, n)
<1> DEFINE I(m) == IF Selected(files[w][m]) THEN Tells(w, "line", m) ELSE <<>>
           R(k) == [m \in 1..k |-> I(m)]
<1>1. \A m \in Nat : I(m) \in Seq(Item)
  <2>1. TAKE m \in Nat
  <2>2. Tells(w, "line", m) \in Seq(Item) /\ <<>> \in Seq(Item)
    BY TellsTyped, EmptySeq
  <2> QED
    BY <2>2
<1>2. \A k : LinesOf(w, k) = FlattenSeq(R(k))
  BY DEF LinesOf
<1> HIDE DEF I
<1>3. ASSUME NEW k \in Nat
      PROVE  R(k) \in Seq(Seq(Item)) /\ Len(R(k)) = k /\ \A m \in 1..k : R(k)[m] = I(m)
  <2>1. \A m \in 1..k : I(m) \in Seq(Item)
    BY <1>1
  <2> DEFINE Q == Seq(Item)
  <2> HIDE DEF Q
  <2>2. \A m \in 1..k : I(m) \in Q
    BY <2>1 DEF Q
  <2>3. R(k) \in Seq(Q) /\ Len(R(k)) = k /\ \A m \in 1..k : R(k)[m] = I(m)
    BY <2>2
  <2> QED
    BY <2>3 DEF Q
<1> HIDE DEF R
<1>4. R(0) = <<>>
  BY <1>3, EmptySeq
<1>5. LinesOf(w, n) \in Seq(Item)
  BY <1>2, <1>3, FlatTyped
<1>6. LinesOf(w, n + 1) = LinesOf(w, n) \o I(n + 1)
  <2> DEFINE s == R(n + 1)
             t == R(n)
  <2>1. s \in Seq(Seq(Item)) /\ t \in Seq(Seq(Item)) /\ Len(s) = n + 1 /\ Len(t) = n
    BY <1>3
  <2>2. \A i \in 1..n : s[i] = t[i]
    <3>1. n \in Nat /\ n + 1 \in Nat /\ \A i \in 1..n : i \in 1..(n + 1)
      OBVIOUS
    <3> QED
      BY <1>3, <3>1
  <2>3. s[n + 1] = I(n + 1)
    BY <1>3, n + 1 \in 1..(n + 1)
  <2> HIDE DEF s, t
  <2>4. FlattenSeq(s) = FlattenSeq(t) \o s[Len(s)]
    BY <2>1, <2>2, FlatMore
  <2> QED
    BY <1>2, <2>1, <2>3, <2>4 DEF s, t
<1>7. LinesOf(w, n) \o <<>> = LinesOf(w, n)
  BY <1>5, ConcatEmptySeq
<1> QED
  BY <1>2, <1>4, <1>5, <1>6, <1>7, FlatNothing DEF I

LEMMA FoundIsCounted ==
  ASSUME NEW w, files[w] \in Seq(Line), NEW n \in 0..Len(files[w])
  PROVE  /\ IsFiniteSet(Found(w)) /\ Cardinality(Found(w)) \in Nat
         /\ Cardinality(Found(w) \cap (1..0)) = 0
         /\ Found(w) \cap (1..Len(files[w])) = Found(w)
         /\ Cardinality(Found(w)) = 0 <=> Found(w) = {}
         /\ n < Len(files[w]) =>
              Cardinality(Found(w) \cap (1..(n + 1))) =
                IF Selected(files[w][n + 1]) THEN Cardinality(Found(w) \cap (1..n)) + 1
                ELSE Cardinality(Found(w) \cap (1..n))
<1>1. Len(files[w]) \in Nat /\ n \in Nat
  BY LenProperties
<1>2. Found(w) \in SUBSET (1..Len(files[w])) /\ IsFiniteSet(1..Len(files[w]))
  <2>1. 1 \in Int /\ Len(files[w]) \in Int
    BY <1>1
  <2> QED
    BY <2>1, FS_Interval DEF Found
<1>3. IsFiniteSet(Found(w)) /\ Cardinality(Found(w)) \in Nat
  BY <1>2, FS_Subset, FS_CardinalityType
<1>4. Found(w) \cap (1..0) = {}
  OBVIOUS
<1>5. ASSUME n < Len(files[w])
      PROVE  Cardinality(Found(w) \cap (1..(n + 1))) =
                IF Selected(files[w][n + 1]) THEN Cardinality(Found(w) \cap (1..n)) + 1
                ELSE Cardinality(Found(w) \cap (1..n))
  <2> DEFINE A == Found(w) \cap (1..n)
             B == Found(w) \cap (1..(n + 1))
  <2>1. n + 1 \in 1..Len(files[w]) /\ (1..(n + 1)) = (1..n) \cup {n + 1} /\ ~ (n + 1 \in 1..n)
    BY <1>1, <1>5
  <2>2. IsFiniteSet(A) /\ ~ (n + 1 \in A)
    BY <1>3, <2>1, FS_Subset
  <2>3. n + 1 \in Found(w) <=> Selected(files[w][n + 1])
    BY <2>1 DEF Found
  <2>4. CASE Selected(files[w][n + 1])
    <3>1. B = A \cup {n + 1}
      BY <2>1, <2>3, <2>4
    <3> HIDE DEF A, B
    <3>2. Cardinality(B) = Cardinality(A) + 1
      BY <2>2, <3>1, FS_AddElement
    <3> QED
      BY <2>4, <3>2 DEF A, B
  <2>5. CASE ~Selected(files[w][n + 1])
    <3>1. B = A
      BY <2>1, <2>3, <2>5
    <3> QED
      BY <2>5, <3>1
  <2> QED
    BY <2>4, <2>5
<1>6. Found(w) \cap (1..Len(files[w])) = Found(w)
  BY <1>2
<1> QED
  BY <1>3, <1>4, <1>5, <1>6, FS_EmptySet

\* What is printed behind the lines of a file with c selected ones.
TotalsOf(w, c) ==
  (IF opts.l = "L" /\ c = 0 THEN Tells(w, "name", 0) ELSE <<>>)
  \o (IF opts.c THEN Tells(w, "count", c) ELSE <<>>)

LEMMA WholeTyped ==
  ASSUME FilesTyped, NEW w \in Word
  PROVE  /\ Whole(w) \in Seq(Item)
         /\ ~ (w \in DOMAIN files) => Whole(w) = <<>>
<1>1. CASE ~ (w \in DOMAIN files)
  BY <1>1, EmptySeq DEF Whole
<1>2. CASE w \in DOMAIN files
  <2> DEFINE named == \/ opts.l = "l" /\ Found(w) # {}
                      \/ opts.l = "L" /\ Found(w) = {}
             counted == IF opts.l = "l" /\ Found(w) # {} THEN 1 ELSE Cardinality(Found(w))
             a == IF named THEN Tells(w, "name", 0) ELSE <<>>
             b == IF opts.c THEN Tells(w, "count", counted) ELSE <<>>
  <2>1. files[w] \in Seq(Line)
    BY <1>2 DEF FilesTyped
  <2>2. Len(files[w]) \in Nat /\ 0 \in 0..Len(files[w])
    BY <2>1, LenProperties
  <2>3. Cardinality(Found(w)) \in Nat
    BY <2>1, <2>2, FoundIsCounted
  <2>4. counted \in Nat
    BY <2>3
  <2> HIDE DEF counted, named
  <2>5. a \in Seq(Item) /\ b \in Seq(Item)
    <3>1. /\ Tells(w, "name", 0) \in Seq(Item) /\ Tells(w, "count", counted) \in Seq(Item)
          /\ <<>> \in Seq(Item)
      BY <2>4, TellsTyped, EmptySeq
    <3> QED
      BY <3>1
  <2> HIDE DEF a, b
  <2>6. a \o b \in Seq(Item) /\ LinesOf(w, Len(files[w])) \in Seq(Item)
    BY <2>2, <2>5, ConcatProperties, LinesGrow
  <2>7. Whole(w) = IF opts.l = "none" /\ ~opts.c THEN LinesOf(w, Len(files[w])) ELSE a \o b
    BY <1>2, Zenon DEF Whole, a, b, named, counted
  <2> QED
    BY <1>2, <2>6, <2>7
<1> QED
  BY <1>1, <1>2

LEMMA SpokenGrow ==
  ASSUME FilesTyped, opts.names \in Seq(Word), NEW n \in 0..Len(opts.names)
  PROVE  /\ Spoken(0) = <<>> /\ Spoken(n) \in Seq(Item)
         /\ n < Len(opts.names) => Spoken(n + 1) = Spoken(n) \o Whole(opts.names[n + 1])
<1> DEFINE W(k) == Whole(opts.names[k])
           R(k) == [i \in 1..k |-> W(i)]
<1>1. Len(opts.names) \in Nat /\ n \in Nat
  BY LenProperties
<1>2. \A k \in 1..Len(opts.names) : W(k) \in Seq(Item)
  <2>1. TAKE k \in 1..Len(opts.names)
  <2>2. opts.names[k] \in Word
    BY ElementOfSeq
  <2> QED
    BY <2>2, WholeTyped
<1>3. \A k : Spoken(k) = FlattenSeq(R(k))
  BY DEF Spoken
<1> HIDE DEF W
<1>4. ASSUME NEW k \in 0..Len(opts.names)
      PROVE  R(k) \in Seq(Seq(Item)) /\ Len(R(k)) = k /\ \A m \in 1..k : R(k)[m] = W(m)
  <2> DEFINE Q == Seq(Item)
  <2>1. k \in Nat /\ \A m \in 1..k : m \in 1..Len(opts.names)
    BY <1>1
  <2> HIDE DEF Q
  <2>2. \A m \in 1..k : W(m) \in Q
    BY <1>2, <2>1 DEF Q
  <2>3. R(k) \in Seq(Q) /\ Len(R(k)) = k /\ \A m \in 1..k : R(k)[m] = W(m)
    BY <2>1, <2>2
  <2> QED
    BY <2>3 DEF Q
<1> HIDE DEF R
<1>5. R(0) = <<>>
  BY <1>1, <1>4, EmptySeq
<1>6. Spoken(n) \in Seq(Item)
  BY <1>3, <1>4, FlatTyped
<1>7. ASSUME n < Len(opts.names) PROVE Spoken(n + 1) = Spoken(n) \o W(n + 1)
  <2> DEFINE s == R(n + 1)
             t == R(n)
  <2>1. n + 1 \in 0..Len(opts.names) /\ n + 1 \in 1..(n + 1) /\ \A i \in 1..n : i \in 1..(n + 1)
    BY <1>1, <1>7
  <2>2. s \in Seq(Seq(Item)) /\ t \in Seq(Seq(Item)) /\ Len(s) = n + 1 /\ Len(t) = n
    BY <1>4, <2>1
  <2>3. \A i \in 1..n : s[i] = t[i]
    BY <1>4, <2>1
  <2>4. s[n + 1] = W(n + 1)
    BY <1>4, <2>1
  <2> HIDE DEF s, t
  <2>5. FlattenSeq(s) = FlattenSeq(t) \o s[Len(s)]
    BY <2>2, <2>3, FlatMore
  <2> QED
    BY <1>3, <2>2, <2>4, <2>5 DEF s, t
<1> QED
  BY <1>3, <1>5, <1>6, <1>7, FlatNothing DEF W

\* What is printed of a file: with -l, behind its first selected line; otherwise
\* its lines, if they are asked for, and its totals.
LEMMA WholePrinted ==
  ASSUME FilesTyped, opts \in OptionRecord, NEW w \in Word, w \in DOMAIN files
  PROVE  /\ opts.l = "l" /\ Found(w) # {} =>
              Whole(w) = Tells(w, "name", 0) \o TotalsOf(w, 1)
         /\ opts.l # "l" \/ Found(w) = {} =>
              Whole(w) = (IF opts.l = "none" /\ ~opts.c THEN LinesOf(w, Len(files[w])) ELSE <<>>)
                         \o TotalsOf(w, Cardinality(Found(w)))
<1>1. opts.c \in BOOLEAN /\ opts.l \in {"none", "l", "L"}
  BY DEF OptionRecord
<1>2. files[w] \in Seq(Line)
  BY DEF FilesTyped
<1>3. Len(files[w]) \in Nat /\ 0 \in 0..Len(files[w])
  BY <1>2, LenProperties
<1>4. Cardinality(Found(w)) \in Nat /\ (Cardinality(Found(w)) = 0 <=> Found(w) = {})
  BY <1>2, <1>3, FoundIsCounted
<1> DEFINE n == Cardinality(Found(w))
           D(c) == IF opts.c THEN Tells(w, "count", c) ELSE <<>>
           E == IF opts.l = "L" /\ n = 0 THEN Tells(w, "name", 0) ELSE <<>>
<1>5. \A c \in Nat : D(c) \in Seq(Item)
  BY TellsTyped, EmptySeq
<1>6. E \in Seq(Item) /\ LinesOf(w, Len(files[w])) \in Seq(Item)
  BY <1>3, TellsTyped, EmptySeq, LinesGrow
<1>7. ASSUME opts.l = "l", Found(w) # {}
      PROVE  Whole(w) = Tells(w, "name", 0) \o TotalsOf(w, 1)
  <2>1. Whole(w) = Tells(w, "name", 0) \o D(1)
    BY <1>7 DEF Whole
  <2>2. TotalsOf(w, 1) = <<>> \o D(1)
    BY <1>7 DEF TotalsOf
  <2>3. D(1) \in Seq(Item)
    BY <1>5
  <2> HIDE DEF D
  <2>4. <<>> \o D(1) = D(1)
    BY <2>3, ConcatEmptySeq
  <2> QED
    BY <2>1, <2>2, <2>4
<1>8. ASSUME opts.l # "l" \/ Found(w) = {}
      PROVE  Whole(w) = (IF opts.l = "none" /\ ~opts.c THEN LinesOf(w, Len(files[w])) ELSE <<>>)
                        \o TotalsOf(w, n)
  <2>1. TotalsOf(w, n) = E \o D(n)
    BY DEF TotalsOf
  <2>2. D(n) \in Seq(Item)
    BY <1>4, <1>5
  <2>3. CASE opts.l = "none" /\ ~opts.c
    <3>1. Whole(w) = LinesOf(w, Len(files[w])) /\ E = <<>> /\ D(n) = <<>>
      BY <2>3 DEF Whole
    <3>2. <<>> \o <<>> = <<>>
      BY <2>2, <3>1, ConcatEmptySeq
    <3>3. LinesOf(w, Len(files[w])) \o <<>> = LinesOf(w, Len(files[w]))
      BY <1>6, ConcatEmptySeq
    <3> QED
      BY <2>1, <2>3, <3>1, <3>2, <3>3
  <2>4. CASE ~(opts.l = "none" /\ ~opts.c)
    <3>1. Whole(w) = E \o D(n)
      BY <1>4, <1>8, <2>4 DEF Whole
    <3> HIDE DEF E, D
    <3>2. E \o D(n) \in Seq(Item)
      BY <1>6, <2>2, ConcatProperties
    <3>3. <<>> \o (E \o D(n)) = E \o D(n)
      BY <3>2, ConcatEmptySeq
    <3> QED
      BY <2>1, <2>4, <3>1, <3>3
  <2> QED
    BY <2>3, <2>4
<1> QED
  BY <1>7, <1>8

\* grep has printed o, and is at file f, of which it has read ln lines and
\* counted m.
GrepAt(o, f, ln, m) ==
  /\ f \in 1..(Len(opts.names) + 1) /\ ln \in Nat
  /\ IF f <= Len(opts.names) /\ opts.names[f] \in DOMAIN files
     THEN LET w == opts.names[f] IN
          /\ ln <= Len(files[w]) /\ m = Cardinality(Found(w) \cap (1..ln))
          /\ opts.l = "l" => m = 0
          /\ o = Spoken(f - 1)
                 \o (IF opts.l = "none" /\ ~opts.c THEN LinesOf(w, ln) ELSE <<>>)
     ELSE ln = 0 /\ m = 0 /\ o = Spoken(f - 1)

LEMMA FileBegins ==
  ASSUME FilesTyped, opts.names \in Seq(Word), NEW f \in 1..(Len(opts.names) + 1)
  PROVE  GrepAt(Spoken(f - 1), f, 0, 0)
<1>1. Len(opts.names) \in Nat
  BY LenProperties
<1>2. ASSUME f <= Len(opts.names), opts.names[f] \in DOMAIN files
      PROVE  GrepAt(Spoken(f - 1), f, 0, 0)
  <2> DEFINE w == opts.names[f]
  <2>1. f - 1 \in 0..Len(opts.names) /\ f \in 1..Len(opts.names)
    BY <1>1, <1>2
  <2>2. w \in Word
    BY <2>1, ElementOfSeq
  <2>3. files[w] \in Seq(Line)
    BY <1>2 DEF FilesTyped
  <2>4. Len(files[w]) \in Nat
    BY <2>3, LenProperties
  <2>5. Cardinality(Found(w) \cap (1..0)) = 0 /\ LinesOf(w, 0) = <<>>
    <3>1. 0 \in Nat /\ 0 \in 0..Len(files[w])
      BY <2>4
    <3> HIDE DEF w
    <3> QED
      BY <2>2, <2>3, <3>1, FoundIsCounted, LinesGrow
  <2>6. Spoken(f - 1) \o <<>> = Spoken(f - 1)
    <3>1. Spoken(f - 1) \in Seq(Item)
      BY <2>1, SpokenGrow
    <3> QED
      BY <3>1, ConcatEmptySeq
  <2>7. Spoken(f - 1)
          = Spoken(f - 1) \o (IF opts.l = "none" /\ ~opts.c THEN LinesOf(w, 0) ELSE <<>>)
    BY <2>5, <2>6
  <2>8. 0 \in Nat /\ 0 <= Len(files[w])
    BY <2>4
  <2> QED
    BY <1>2, <2>5, <2>7, <2>8, Zenon DEF GrepAt
<1>3. ASSUME ~(f <= Len(opts.names) /\ opts.names[f] \in DOMAIN files)
      PROVE  GrepAt(Spoken(f - 1), f, 0, 0)
  BY <1>3, Zenon, 0 \in Nat DEF GrepAt
<1> QED
  BY <1>2, <1>3

\* A file is done with when what is to be said of it is printed.
LEMMA FileEnds ==
  ASSUME FilesTyped, opts.names \in Seq(Word), NEW f \in 1..Len(opts.names),
         NEW o, o = Spoken(f - 1) \o Whole(opts.names[f])
  PROVE  GrepAt(o, f + 1, 0, 0)
<1>1. Len(opts.names) \in Nat
  BY LenProperties
<1>2. f - 1 \in 0..Len(opts.names) /\ f - 1 < Len(opts.names) /\ (f - 1) + 1 = f
      /\ f + 1 \in 1..(Len(opts.names) + 1) /\ (f + 1) - 1 = f
  BY <1>1
<1>3. Spoken((f - 1) + 1) = Spoken(f - 1) \o Whole(opts.names[(f - 1) + 1])
  BY <1>2, SpokenGrow
<1>4. GrepAt(Spoken((f + 1) - 1), f + 1, 0, 0)
  BY <1>2, FileBegins
<1> QED
  BY <1>2, <1>3, <1>4

-----------------------------------------------------------------------------

\* No pattern is stored twice, so that as many are stored as different ones
\* were given.
PatsDiffer == \A j, k \in 1..Len(opts.pats) : opts.pats[j] = opts.pats[k] => j = k

GrepInv ==
  /\ FilesTyped /\ PatsDiffer
  /\ tool = "options" => fileno = 1 /\ lineno = 0 /\ matches = 0 /\ output = <<>>
  /\ tool = "grep" => GrepAt(output, fileno, lineno, matches)
  /\ tool = "overrun" /\ text = <<>> => Len(opts.pats) > MaxPats

LEMMA GrepBegin == ASSUME NEW runs \in BOOLEAN, ToolsStart(runs) PROVE GrepInv
<1>1. FilesTyped
  BY ToolsAssumption DEF ToolsStart, FilesTyped
<1>2. PatsDiffer
  <2>1. opts.pats = <<>> /\ Len(<<>>) = 0 /\ 1..0 = {}
    BY DEF ToolsStart, NoOptions
  <2> QED
    BY <2>1 DEF PatsDiffer
<1>3. /\ tool \in {"options", "tac", "usage"}
      /\ fileno = 1 /\ lineno = 0 /\ matches = 0 /\ output = <<>>
  BY DEF ToolsStart
<1> QED
  BY <1>1, <1>2, <1>3 DEF GrepInv

\* What is printed and counted depends on the options and the files alone.
LEMMA GrepStays ==
  ASSUME UNCHANGED <<opts, files>>
  PROVE  /\ FilesTyped => FilesTyped'
         /\ PatsDiffer => PatsDiffer'
         /\ GrepAt(output', fileno', lineno', matches')
              => GrepAt(output, fileno, lineno, matches)'
<1>1. opts' = opts /\ files' = files
  OBVIOUS
<1>2. (FilesTyped => FilesTyped') /\ (PatsDiffer => PatsDiffer')
  BY <1>1 DEF FilesTyped, PatsDiffer
<1>3. \A l : Selected(l)' <=> Selected(l)
  BY <1>1 DEF Selected, LineMatch
<1>4. \A w : Found(w)' = Found(w)
  BY <1>1, <1>3 DEF Found
<1>5. \A w, n : LinesOf(w, n)' = LinesOf(w, n)
  BY <1>1, <1>3, Zenon DEF LinesOf, Tells
<1>6. \A w : Whole(w)' = Whole(w)
  BY <1>1, <1>4, <1>5 DEF Whole, Tells
<1>7. \A n : Spoken(n)' = Spoken(n)
  BY <1>1, <1>6 DEF Spoken
<1>8. ASSUME GrepAt(output', fileno', lineno', matches')
      PROVE  GrepAt(output, fileno, lineno, matches)'
  BY <1>1, <1>4, <1>5, <1>7, <1>8, Zenon DEF GrepAt
<1> QED
  BY <1>2, <1>8

LEMMA PatAdded ==
  ASSUME NEW a \in OptionRecord, NEW p \in Word,
         \A j, k \in 1..Len(a.pats) : a.pats[j] = a.pats[k] => j = k
  PROVE  LET b == WithPat(a, p)
         IN  \A j, k \in 1..Len(b.pats) : b.pats[j] = b.pats[k] => j = k
<1> DEFINE b == WithPat(a, p)
<1>1. a.pats \in Seq(Word)
  BY DEF OptionRecord
<1>2. CASE \E k \in 1..Len(a.pats) : a.pats[k] = p
  BY <1>2 DEF WithPat
<1>3. CASE ~ \E k \in 1..Len(a.pats) : a.pats[k] = p
  <2>1. b = [a EXCEPT !.pats = Append(@, p)]
    BY <1>3 DEF WithPat
  <2>2. b.pats = Append(a.pats, p)
    BY <2>1 DEF OptionRecord
  <2> HIDE DEF b
  <2>3. /\ Len(b.pats) = Len(a.pats) + 1 /\ Len(a.pats) \in Nat
        /\ \A k \in 1..Len(a.pats) : b.pats[k] = a.pats[k]
        /\ b.pats[Len(a.pats) + 1] = p
    BY <1>1, <2>2, AppendProperties, LenProperties
  <2>4. \A j, k \in 1..Len(b.pats) : b.pats[j] = b.pats[k] => j = k
    <3>1. TAKE j, k \in 1..Len(b.pats)
    <3>2. /\ j \in 1..Len(a.pats) \/ j = Len(a.pats) + 1
          /\ k \in 1..Len(a.pats) \/ k = Len(a.pats) + 1
      BY <2>3
    <3> QED
      BY <1>3, <2>3, <3>2
  <2> QED
    BY <2>4 DEF b
<1> QED
  BY <1>2, <1>3

LEMMA ArgumentTaken == ASSUME ToolsInv, GrepInv, TakeArgument PROVE GrepInv'
<1>1. /\ tool = "options" /\ text' = text /\ files' = files
      /\ UNCHANGED <<fileno, lineno, matches, output>>
      /\ opts' = WithArgument(opts, Head(args))
      /\ tool' = IF Len(opts'.pats) > MaxPats THEN "overrun" ELSE tool
  BY DEF TakeArgument, UnchangedTac
<1>2. Head(args) \in Argument /\ opts \in OptionRecord
  BY DEF TakeArgument, ToolsInv
<1>3. PatsDiffer'
  <2> DEFINE g == Head(args)
             b == WithPat(opts, g.val)
  <2>1. g.val \in Word /\ g.opt \in {"v", "i", "c", "l", "L", "e", "word"}
    BY <1>2 DEF Argument
  <2>2. /\ \A j, k \in 1..Len(b.pats) : b.pats[j] = b.pats[k] => j = k
        /\ \A j, k \in 1..Len(opts.pats) : opts.pats[j] = opts.pats[k] => j = k
        /\ b \in OptionRecord
    BY <1>2, <2>1, PatAdded, PatTyped DEF GrepInv, PatsDiffer
  <2> HIDE DEF b, g
  <2>3. opts'.pats = b.pats \/ opts'.pats = opts.pats
    BY <1>1, <1>2, <2>1, <2>2 DEF WithArgument, b, g, OptionRecord
  <2> QED
    BY <2>2, <2>3 DEF PatsDiffer
<1>4. FilesTyped'
  BY <1>1 DEF GrepInv, FilesTyped
<1> QED
  BY <1>1, <1>3, <1>4 DEF GrepInv

LEMMA ArgumentsEnd == ASSUME ToolsInv, GrepInv, EndArguments PROVE GrepInv'
<1>1. /\ tool = "options" /\ text' = text /\ files' = files
      /\ UNCHANGED <<fileno, lineno, matches, output>>
      /\ fileno = 1 /\ lineno = 0 /\ matches = 0 /\ output = <<>>
      /\ tool' \in {"grep", "usage"}
  BY DEF EndArguments, UnchangedTac, GrepInv
<1>2. PatsDiffer'
  <2>1. CASE UNCHANGED opts
    BY <2>1 DEF GrepInv, PatsDiffer
  <2>2. CASE /\ opts.names # <<>>
             /\ opts' = [WithPat(opts, Head(opts.names)) EXCEPT !.names = Tail(@)]
    <3> DEFINE b == WithPat(opts, Head(opts.names))
    <3>1. Head(opts.names) \in Word /\ opts \in OptionRecord
      BY <2>2 DEF ToolsInv, OptionRecord
    <3>2. /\ \A j, k \in 1..Len(b.pats) : b.pats[j] = b.pats[k] => j = k
          /\ b \in OptionRecord
      BY <3>1, PatAdded, PatTyped DEF GrepInv, PatsDiffer
    <3> HIDE DEF b
    <3>3. opts'.pats = b.pats
      BY <2>2, <3>2 DEF OptionRecord, b
    <3> QED
      BY <3>2, <3>3 DEF PatsDiffer
  <2> QED
    BY <2>1, <2>2 DEF EndArguments
<1>3. FilesTyped'
  BY <1>1 DEF GrepInv, FilesTyped
<1>4. GrepAt(output, fileno, lineno, matches)'
  <2>1. opts'.names \in Seq(Word) /\ Len(opts'.names) \in Nat
    <3>1. opts' \in OptionRecord
      BY ToolsKeep DEF ToolsNext, ToolsInv
    <3> QED
      BY <3>1, LenProperties DEF OptionRecord
  <2>2. /\ output' = <<>> /\ lineno' = 0 /\ matches' = 0 /\ fileno' = 1 /\ 1 - 1 = 0
        /\ 0 \in Nat /\ 1 \in 1..(Len(opts'.names) + 1)
    BY <1>1, <2>1
  <2>3. /\ \A w : [m \in 1..0 |->
                       IF Selected(files[w][m]) THEN Tells(w, "line", m) ELSE <<>>]' = <<>>
        /\ [k \in 1..0 |-> Whole(opts.names[k])]' = <<>>
    OBVIOUS
  <2>4. Spoken(0)' = <<>> /\ \A w : LinesOf(w, 0)' = <<>>
    BY <2>3, FlatNothing DEF Spoken, LinesOf
  <2>5. \A w : Cardinality(Found(w) \cap (1..0))' = 0
    <3>1. \A w : (Found(w) \cap (1..0))' = {}
      OBVIOUS
    <3> QED
      BY <3>1, FS_EmptySet
  <2>6. \A w \in DOMAIN files' : 0 <= Len(files'[w])
    <3>1. TAKE w \in DOMAIN files'
    <3>2. files'[w] \in Seq(Line)
      BY <1>3 DEF FilesTyped
    <3>3. Len(files'[w]) \in Nat
      BY <3>2, LenProperties
    <3> QED
      BY <3>3
  <2>7. <<>> \o <<>> = <<>>
    BY EmptySeq, ConcatEmptySeq
  <2> QED
    BY <2>2, <2>4, <2>5, <2>6, <2>7 DEF GrepAt
<1> QED
  BY <1>1, <1>2, <1>3, <1>4 DEF GrepInv

\* Where grep is when it is at a file.
LEMMA AtFileHas ==
  ASSUME ToolsInv, GrepInv, AtFile
  PROVE  /\ FilesTyped /\ opts \in OptionRecord /\ opts.names \in Seq(Word)
         /\ fileno \in 1..Len(opts.names) /\ Name \in Word /\ fileno - 1 \in 0..Len(opts.names)
         /\ Spoken(fileno - 1) \in Seq(Item) /\ tool = "grep"
         /\ GrepAt(output, fileno, lineno, matches)
<1>1. /\ FilesTyped /\ opts \in OptionRecord /\ tool = "grep" /\ fileno <= Len(opts.names)
      /\ GrepAt(output, fileno, lineno, matches)
  BY DEF AtFile, GrepInv, ToolsInv
<1>2. opts.names \in Seq(Word)
  BY <1>1 DEF OptionRecord
<1>3. Len(opts.names) \in Nat
  BY <1>2, LenProperties
<1>4. fileno \in 1..Len(opts.names) /\ fileno - 1 \in 0..Len(opts.names)
  BY <1>1, <1>3 DEF GrepAt
<1>5. Name \in Word
  BY <1>2, <1>4, ElementOfSeq DEF Name
<1>6. Spoken(fileno - 1) \in Seq(Item)
  BY <1>1, <1>2, <1>4, SpokenGrow
<1> QED
  BY <1>1, <1>2, <1>4, <1>5, <1>6

\* The file it can read, and what it has printed of it.
LEMMA FileHas ==
  ASSUME ToolsInv, GrepInv, AtFile, Name \in DOMAIN files
  PROVE  /\ files[Name] \in Seq(Line) /\ Len(files[Name]) \in Nat
         /\ lineno \in 0..Len(files[Name])
         /\ matches = Cardinality(Found(Name) \cap (1..lineno)) /\ matches \in Nat
         /\ opts.l = "l" => matches = 0
         /\ output = Spoken(fileno - 1)
              \o (IF opts.l = "none" /\ ~opts.c THEN LinesOf(Name, lineno) ELSE <<>>)
<1>1. files[Name] \in Seq(Line)
  BY AtFileHas DEF FilesTyped
<1>2. Len(files[Name]) \in Nat
  BY <1>1, LenProperties
<1>3. fileno <= Len(opts.names) /\ Name = opts.names[fileno]
  BY DEF AtFile, Name
<1>4. /\ lineno \in Nat /\ lineno <= Len(files[Name])
      /\ matches = Cardinality(Found(Name) \cap (1..lineno))
      /\ opts.l = "l" => matches = 0
      /\ output = Spoken(fileno - 1)
           \o (IF opts.l = "none" /\ ~opts.c THEN LinesOf(Name, lineno) ELSE <<>>)
  BY <1>3, AtFileHas, Zenon DEF GrepAt
<1>5. lineno \in 0..Len(files[Name]) /\ matches \in Nat
  BY <1>2, <1>4 DEF ToolsInv
<1> QED
  BY <1>1, <1>2, <1>4, <1>5

\* To print what is left to say of a file is to be at the next.
LEMMA FileDone ==
  ASSUME ToolsInv, GrepInv, AtFile, NEW out, NextFile(out),
         out = Spoken(fileno - 1) \o Whole(Name),
         UNCHANGED <<tool, opts, files, text>>
  PROVE  GrepInv'
<1>1. GrepAt(out, fileno + 1, 0, 0)
  BY AtFileHas, FileEnds DEF Name
<1>2. GrepAt(output', fileno', lineno', matches')
  BY <1>1 DEF NextFile
<1> QED
  BY <1>2, AtFileHas, GrepStays DEF GrepInv

LEMMA FileSkipped == ASSUME ToolsInv, GrepInv, SkipFile PROVE GrepInv'
<1>1. /\ AtFile /\ ~(Name \in DOMAIN files) /\ NextFile(output)
      /\ UNCHANGED <<tool, opts, files, text>>
  BY DEF SkipFile, UnchangedTac
<1>2. output = Spoken(fileno - 1)
  BY <1>1, AtFileHas, Zenon DEF GrepAt, Name
<1>3. Whole(Name) = <<>>
  BY <1>1, AtFileHas, WholeTyped
<1>4. output = Spoken(fileno - 1) \o Whole(Name)
  BY <1>1, <1>2, <1>3, AtFileHas, ConcatEmptySeq
<1> QED
  BY <1>1, <1>4, FileDone

LEMMA FileRead == ASSUME ToolsInv, GrepInv, EndFile PROVE GrepInv'
<1>1. /\ AtFile /\ Name \in DOMAIN files /\ lineno = Len(files[Name])
      /\ NextFile(output \o Totals(matches)) /\ UNCHANGED <<tool, opts, files, text>>
  BY DEF EndFile, UnchangedTac
<1>2. matches = Cardinality(Found(Name))
  BY <1>1, FileHas, FoundIsCounted
<1>3. opts.l # "l" \/ Found(Name) = {}
  <2>1. 0 \in 0..Len(files[Name])
    BY <1>1, FileHas
  <2> QED
    BY <1>1, <1>2, <2>1, FileHas, FoundIsCounted
<1> DEFINE lines == IF opts.l = "none" /\ ~opts.c THEN LinesOf(Name, lineno) ELSE <<>>
           sums == TotalsOf(Name, matches)
<1>4. Whole(Name) = lines \o sums
  BY <1>1, <1>2, <1>3, AtFileHas, WholePrinted
<1>5. Totals(matches) = sums /\ output = Spoken(fileno - 1) \o lines
  <2>1. Totals(matches) = sums
    BY DEF Totals, TotalsOf, Out, Tells
  <2> QED
    BY <1>1, <2>1, FileHas
<1>6. lines \in Seq(Item) /\ sums \in Seq(Item)
  <2>1. lines \in Seq(Item)
    BY <1>1, AtFileHas, FileHas, LinesGrow, EmptySeq
  <2> DEFINE a == IF opts.l = "L" /\ matches = 0 THEN Tells(Name, "name", 0) ELSE <<>>
             b == IF opts.c THEN Tells(Name, "count", matches) ELSE <<>>
  <2>2. a \in Seq(Item) /\ b \in Seq(Item)
    BY <1>1, AtFileHas, FileHas, TellsTyped, EmptySeq
  <2>3. sums = a \o b
    BY DEF TotalsOf
  <2> HIDE DEF a, b
  <2> QED
    BY <2>1, <2>2, <2>3, ConcatProperties
<1> HIDE DEF lines, sums
<1>7. (Spoken(fileno - 1) \o lines) \o sums = Spoken(fileno - 1) \o (lines \o sums)
  <2> DEFINE said == Spoken(fileno - 1)
  <2>1. said \in Seq(Item)
    BY <1>1, AtFileHas
  <2> HIDE DEF said
  <2>2. (said \o lines) \o sums = said \o (lines \o sums)
    BY <1>6, <2>1, ConcatAssociative
  <2> QED
    BY <2>2 DEF said
<1> QED
  BY <1>1, <1>4, <1>5, <1>7, FileDone

LEMMA LineRead == ASSUME ToolsInv, GrepInv, ReadLine PROVE GrepInv'
<1> DEFINE n == lineno + 1
           l == files[Name][n]
<1>1. /\ AtFile /\ Name \in DOMAIN files /\ lineno < Len(files[Name])
      /\ UNCHANGED <<tool, opts, files, text>>
  BY DEF ReadLine, UnchangedTac
<1>2. /\ n \in 0..Len(files[Name]) /\ n \in 1..Len(files[Name]) /\ n \in Nat
  BY <1>1, FileHas
<1> DEFINE count == Cardinality(Found(Name) \cap (1..n))
           part(k) == IF opts.l = "none" /\ ~opts.c THEN LinesOf(Name, k) ELSE <<>>
<1>3. count = IF Selected(l) THEN matches + 1 ELSE matches
  BY <1>1, FileHas, FoundIsCounted
<1>4. output = Spoken(fileno - 1) \o part(lineno)
  BY <1>1, FileHas
<1>5. /\ part(lineno) \in Seq(Item)
      /\ ~Selected(l) => part(n) = part(lineno)
      /\ Selected(l) /\ opts.l = "none" /\ ~opts.c =>
           part(n) = part(lineno) \o Tells(Name, "line", n)
      /\ ~(opts.l = "none" /\ ~opts.c) => part(n) = <<>> /\ part(lineno) = <<>>
  <2>1. Name \in Word /\ lineno \in Nat
    BY <1>1, AtFileHas, FileHas
  <2>2. /\ LinesOf(Name, lineno) \in Seq(Item)
        /\ Selected(l) => LinesOf(Name, n) = LinesOf(Name, lineno) \o Tells(Name, "line", n)
        /\ ~Selected(l) => LinesOf(Name, n) = LinesOf(Name, lineno)
    BY <2>1, LinesGrow
  <2> HIDE DEF l
  <2> QED
    BY <2>2, EmptySeq
<1>6. ASSUME NEW out, out = Spoken(fileno - 1) \o part(n), output' = out,
             lineno' = n, matches' = count, fileno' = fileno, opts.l = "l" => count = 0
      PROVE  GrepInv'
  <2>1. GrepAt(out, fileno, n, count)
    <3>1. /\ fileno \in 1..(Len(opts.names) + 1) /\ fileno <= Len(opts.names)
          /\ opts.names[fileno] = Name /\ n <= Len(files[Name])
      <4>1. fileno \in 1..Len(opts.names) /\ Len(opts.names) \in Nat
        BY <1>1, AtFileHas, LenProperties
      <4>2. fileno \in 1..(Len(opts.names) + 1) /\ fileno <= Len(opts.names)
        BY <4>1
      <4>3. opts.names[fileno] = Name
        BY DEF Name
      <4>4. n <= Len(files[Name])
        BY <1>1, <1>2, FileHas
      <4> QED
        BY <4>2, <4>3, <4>4
    <3> HIDE DEF n
    <3> QED
      BY <1>1, <1>2, <1>6, <3>1, Zenon DEF GrepAt
  <2>2. GrepAt(output', fileno', lineno', matches')
    BY <1>6, <2>1
  <2> HIDE DEF n, count
  <2> QED
    BY <1>1, <2>2, AtFileHas, GrepStays DEF GrepInv
<1>7. CASE ~Selected(l)
  <2>1. output' = output /\ lineno' = n /\ matches' = matches /\ fileno' = fileno
    BY <1>7 DEF ReadLine
  <2>2. output = Spoken(fileno - 1) \o part(n)
    BY <1>4, <1>5, <1>7
  <2>3. count = matches /\ (opts.l = "l" => matches = 0)
    BY <1>1, <1>3, <1>7, FileHas
  <2> HIDE DEF n, l, count, part
  <2> QED
    BY <1>6, <2>1, <2>2, <2>3
<1>8. CASE Selected(l) /\ opts.l = "l"
  <2>1. NextFile(output \o Prints(n) \o Totals(matches + 1))
    BY <1>8 DEF ReadLine
  <2>2. Found(Name) # {}
    BY <1>2, <1>8 DEF Found
  <2>3. Whole(Name) = Tells(Name, "name", 0) \o TotalsOf(Name, 1)
    BY <1>1, <1>8, <2>2, AtFileHas, WholePrinted
  <2>4. matches + 1 = 1 /\ output = Spoken(fileno - 1) \o <<>>
    <3>1. part(lineno) = <<>>
      BY <1>5, <1>8
    <3> QED
      BY <1>1, <1>4, <1>8, <3>1, FileHas
  <2>5. output = Spoken(fileno - 1)
    BY <1>1, <2>4, AtFileHas, ConcatEmptySeq
  <2>6. Prints(n) = Tells(Name, "name", 0) /\ Totals(1) = TotalsOf(Name, 1)
    BY <1>8 DEF Prints, Totals, TotalsOf, Out, Tells
  <2>7. Tells(Name, "name", 0) \in Seq(Item) /\ TotalsOf(Name, 1) \in Seq(Item)
    <3> DEFINE a == IF opts.l = "L" /\ 1 = 0 THEN Tells(Name, "name", 0) ELSE <<>>
               b == IF opts.c THEN Tells(Name, "count", 1) ELSE <<>>
    <3>1. Tells(Name, "name", 0) \in Seq(Item) /\ a \in Seq(Item) /\ b \in Seq(Item)
      BY <1>1, AtFileHas, TellsTyped, EmptySeq
    <3>2. TotalsOf(Name, 1) = a \o b
      BY DEF TotalsOf
    <3> HIDE DEF a, b
    <3> QED
      BY <3>1, <3>2, ConcatProperties
  <2>8. (Spoken(fileno - 1) \o Tells(Name, "name", 0)) \o TotalsOf(Name, 1)
          = Spoken(fileno - 1) \o (Tells(Name, "name", 0) \o TotalsOf(Name, 1))
    <3> DEFINE said == Spoken(fileno - 1)
               title == Tells(Name, "name", 0)
               sums == TotalsOf(Name, 1)
    <3>1. said \in Seq(Item) /\ title \in Seq(Item) /\ sums \in Seq(Item)
      BY <1>1, <2>7, AtFileHas
    <3> HIDE DEF said, title, sums
    <3>2. (said \o title) \o sums = said \o (title \o sums)
      BY <3>1, ConcatAssociative
    <3> QED
      BY <3>2 DEF said, title, sums
  <2>9. output \o Prints(n) \o Totals(matches + 1) = Spoken(fileno - 1) \o Whole(Name)
    BY <2>3, <2>4, <2>5, <2>6, <2>8
  <2> QED
    BY <1>1, <2>1, <2>9, FileDone
<1>9. CASE Selected(l) /\ opts.l # "l"
  <2>1. /\ output' = output \o Prints(n) /\ lineno' = n
        /\ matches' = matches + 1 /\ fileno' = fileno
    BY <1>9 DEF ReadLine
  <2>2. count = matches + 1
    BY <1>3, <1>9
  <2>3. output \o Prints(n) = Spoken(fileno - 1) \o part(n)
    <3>1. CASE opts.l = "none" /\ ~opts.c
      <4>1. Prints(n) = Tells(Name, "line", n)
        BY <3>1 DEF Prints, Out, Tells
      <4>2. Tells(Name, "line", n) \in Seq(Item)
        BY <1>1, <1>2, AtFileHas, TellsTyped
      <4> DEFINE p == part(lineno)
                 s == Tells(Name, "line", n)
      <4>3. p \in Seq(Item) /\ s \in Seq(Item) /\ part(n) = p \o s
        BY <1>5, <1>9, <3>1, <4>2
      <4>4. output = Spoken(fileno - 1) \o p
        BY <1>4
      <4> DEFINE said == Spoken(fileno - 1)
      <4>5. said \in Seq(Item)
        BY <1>1, AtFileHas
      <4> HIDE DEF p, s, part, said
      <4>6. (said \o p) \o s = said \o (p \o s)
        BY <4>3, <4>5, ConcatAssociative
      <4>7. (Spoken(fileno - 1) \o p) \o s = Spoken(fileno - 1) \o (p \o s)
        BY <4>6 DEF said
      <4> QED
        BY <4>1, <4>3, <4>4, <4>7 DEF s
    <3>2. CASE ~(opts.l = "none" /\ ~opts.c)
      <4>1. Prints(n) = <<>>
        BY <1>9, <3>2 DEF Prints
      <4>2. part(n) = <<>> /\ part(lineno) = <<>>
        BY <1>5, <3>2
      <4> HIDE DEF part
      <4>3. output = Spoken(fileno - 1)
        BY <1>1, <1>4, <4>2, AtFileHas, ConcatEmptySeq
      <4> QED
        BY <1>1, <4>1, <4>2, <4>3, AtFileHas, ConcatEmptySeq
    <3> QED
      BY <3>1, <3>2
  <2> HIDE DEF n, l, count, part
  <2> QED
    BY <1>6, <1>9, <2>1, <2>2, <2>3
<1> QED
  BY <1>7, <1>8, <1>9

LEMMA GrepKeep == ASSUME ToolsInv, GrepInv, [ToolsNext]_tvars PROVE GrepInv'
<1>1. CASE TakeArgument
  BY <1>1, ArgumentTaken
<1>2. CASE EndArguments
  BY <1>2, ArgumentsEnd
<1>3. CASE SkipFile
  BY <1>3, FileSkipped
<1>4. CASE ReadLine
  BY <1>4, LineRead
<1>5. CASE EndFile
  BY <1>5, FileRead
<1>6. CASE UNCHANGED tvars
  BY <1>6, GrepStays DEF GrepInv, tvars
<1>7. CASE TakeByte \/ EndTac
  <2>1. /\ tool = "tac" /\ UNCHANGED <<opts, files, text>>
        /\ tool' \in {"tac", "overrun", "usage", "printed"}
        /\ text = <<>> => tool' # "overrun"
    <3>1. pos > 0 => text # <<>>
      BY EmptySeq DEF ToolsInv
    <3> QED
      BY <1>7, <3>1 DEF TakeByte, EndTac, Flush, UnchangedGrep
  <2> QED
    BY <2>1, GrepStays DEF GrepInv
<1> QED
  BY <1>1, <1>2, <1>3, <1>4, <1>5, <1>6, <1>7 DEF ToolsNext

LEMMA GrepIsRight == ASSUME ToolsInv, GrepInv PROVE GrepRight
<1>1. opts \in OptionRecord /\ opts.names \in Seq(Word) /\ opts.pats \in Seq(Word)
  BY DEF ToolsInv, OptionRecord
<1>2. Len(opts.names) \in Nat /\ Len(opts.pats) \in Nat
  BY <1>1, LenProperties
<1>3. GrepPrints
  <2> SUFFICES ASSUME tool = "grep", fileno > Len(opts.names)
               PROVE  output = Spoken(Len(opts.names))
    BY DEF GrepPrints, Spoken
  <2>1. GrepAt(output, fileno, lineno, matches)
    BY DEF GrepInv
  <2>2. ~(fileno <= Len(opts.names)) /\ fileno - 1 = Len(opts.names)
    BY <1>2, <2>1 DEF GrepAt
  <2> QED
    BY <2>1, <2>2, Zenon DEF GrepAt
<1>4. PatsOverrun
  <2> DEFINE D == 1..Len(opts.pats)
             R == {opts.pats[k] : k \in D}
             f == [k \in D |-> opts.pats[k]]
  <2>1. f \in [D -> R] /\ \A j, k \in D : f[j] = f[k] => j = k
    BY DEF GrepInv, PatsDiffer
  <2>2. f \in Surjection(D, R) /\ f \in Injection(D, R)
    BY <2>1, Zenon DEF Surjection, Injection, IsInjective
  <2>3. IsFiniteSet(D) /\ Cardinality(D) = Len(opts.pats)
    <3>1. 1 \in Int /\ Len(opts.pats) \in Int
      BY <1>2
    <3>2. /\ IsFiniteSet(D)
          /\ Cardinality(D) = IF 1 > Len(opts.pats) THEN 0 ELSE Len(opts.pats) - 1 + 1
      BY <3>1, FS_Interval
    <3> QED
      BY <1>2, <3>2
  <2> HIDE DEF D, R, f
  <2>4. Cardinality(R) = Len(opts.pats)
    BY <2>2, <2>3, FS_Surjection
  <2> QED
    BY <2>4 DEF GrepInv, PatsOverrun, R, D
<1> QED
  BY <1>3, <1>4 DEF GrepRight

-----------------------------------------------------------------------------
(* All programs, one of which runs *)

\* The small servers: one of them runs, or none.
ServersInv ==
  /\ LinesInv /\ HandlerTypeOK /\ PollTypeOK
  /\ left \in 0..Descriptors /\ backlog \in Seq(Conn)
  /\ program \in HandlerPrograms => HandlersInv
  /\ program \in PollPrograms => PollLines
  /\ program \notin HandlerPrograms => \A w \in Worker : worker[w].pc = "none"

LabsInv == /\ ServersInv /\ DialogueInv /\ CatInv /\ SonsInv
           /\ GamblingInv /\ NumbersInv /\ ToolsInv /\ TacInv /\ GrepInv

LEMMA OneProgram ==
  /\ HandlerPrograms \cap PollPrograms = {}
  /\ HandlerPrograms \cap OtherPrograms = {}
  /\ PollPrograms \cap OtherPrograms = {}
  BY DEF HandlerPrograms, PollPrograms, OtherPrograms

LEMMA LinesBegin == ASSUME ServiceStart PROVE LinesInv
<1>1. /\ client = [c \in Conn |-> NewClient] /\ link = [c \in Conn |-> "none"]
      /\ c2s = [c \in Conn |-> <<>>] /\ s2c = [c \in Conn |-> <<>>]
  BY DEF ServiceStart
<1>2. NewClient \in ClientState /\ "none" \in LinkState /\ up \in BOOLEAN
  BY DEF NewClient, ClientState, LinkState, ServiceStart
<1>3. <<>> \in Seq(KeyMessage) /\ <<>> \in Seq(Answer) /\ Len(<<>>) = 0
  OBVIOUS
<1>4. Boxes
  <2>1. client \in [Conn -> ClientState] /\ link \in [Conn -> LinkState]
    BY <1>1, <1>2
  <2>2. c2s \in [Conn -> Seq(KeyMessage)] /\ s2c \in [Conn -> Seq(Answer)]
    BY <1>1, <1>3, Zenon
  <2> QED
    BY <1>2, <2>1, <2>2 DEF Boxes
<1>5. \A c \in Conn : LineOf(c)
  BY <1>1, <1>3 DEF LineOf
<1> QED
  BY <1>4, <1>5 DEF LinesInv

LEMMA WorkersBegin ==
  ASSUME HandlerStart
  PROVE  /\ HandlerTypeOK
         /\ \A w \in Worker : /\ worker[w].pc \in {"none", "accept"} /\ worker[w].cl = None
                              /\ program # "pool" => worker[w].pc = "none"
<1>1. PICK n \in PoolSizes : worker = [w \in Worker |->
         IF program = "pool" /\ w <= n THEN [NoWorker EXCEPT !.pc = "accept"] ELSE NoWorker]
  BY DEF HandlerStart
<1>2. 1 \in Worker
  BY <1>1, HandlerAssumption DEF Worker
<1>3. /\ NoWorker \in WorkerState /\ [NoWorker EXCEPT !.pc = "accept"] \in WorkerState
      /\ NoWorker.pc = "none" /\ NoWorker.cl = None
      /\ [NoWorker EXCEPT !.pc = "accept"].pc = "accept"
      /\ [NoWorker EXCEPT !.pc = "accept"].cl = None
  BY <1>2 DEF NoWorker, WorkerState
<1>4. td \in [Worker -> Conn \cup {None}]
  BY DEF HandlerStart
<1> QED
  BY <1>1, <1>3, <1>4 DEF HandlerTypeOK

LEMMA HandlersBegin ==
  ASSUME program \in HandlerPrograms, ServiceStart, HandlerStart
  PROVE  HandlersInv
<1>1. LinesInv /\ HandlerTypeOK
  BY LinesBegin, WorkersBegin
<1>2. \A w \in Worker : Has(w) = None
  BY WorkersBegin DEF Has
<1>3. Owners
  BY <1>2, WorkersBegin DEF Owners
<1>4. InLine
  <2>1. backlog = <<>> /\ backlog \in Seq(Conn) /\ Len(backlog) = 0
    BY DEF ServiceStart
  <2>2. \A c \in Conn : link[c] = "none"
    BY DEF ServiceStart
  <2> QED
    BY <2>1, <2>2 DEF InLine
<1>5. left \in 0..Descriptors
  BY ServiceAssumption DEF ServiceStart
<1>6. up
  BY Zenon DEF ServiceStart
<1> QED
  BY <1>1, <1>3, <1>4, <1>5, <1>6 DEF HandlersInv

LEMMA PollLinesBegin ==
  ASSUME program \in PollPrograms, ServiceStart, PollStart
  PROVE  PollLines
<1>1. PollInv
  BY PollBegins DEF PollInit
<1>2. LinesInv
  BY LinesBegin
<1>3. Budget
  <2>1. Held = {}
    BY DEF ServiceStart, Held
  <2>2. Cardinality(Held) = 0
    BY <2>1, FS_EmptySet
  <2> QED
    BY <2>2, ServiceAssumption DEF Budget, ServiceStart
<1> QED
  BY <1>1, <1>2, <1>3 DEF PollLines

LEMMA PollTypesBegin == ASSUME PollStart PROVE PollTypeOK
<1>1. PICK n \in Sizes, rev \in BOOLEAN : fds = [j \in 1..n |->
        IF j = 1 THEN [fd |-> Listener, rev |-> FALSE] ELSE [fd |-> None, rev |-> rev]]
  <2>1. (CHOOSE m \in Sizes : TRUE) \in Sizes
    BY PollAssumption
  <2> QED
    BY <2>1 DEF PollStart
<1>2. n \in Nat \ {0}
  BY PollAssumption
<1>3. fds \in Seq(PollFd) /\ Len(fds) = n
  BY <1>1, <1>2 DEF PollFd
<1>4. nfd = 1 /\ at = 0 /\ nfd \in Entry
  <2>1. nfd = 1 /\ at = 0
    BY DEF PollStart
  <2> QED
    BY <1>2, <1>3, <2>1 DEF Entry
<1>5. sessions \in [SessionSlot -> Session]
  BY DEF PollStart, Session
<1>6. pid \in [Conn -> Pid]
  <2>1. (CHOOSE f \in PidsOf : TRUE) \in PidsOf
    BY PollAssumption
  <2>2. pid \in PidsOf
    BY <2>1 DEF PollStart
  <2> QED
    BY <2>2, PollAssumption
<1>7. at \in 0..nfd
  BY <1>4
<1> QED
  BY <1>1, <1>3, <1>4, <1>5, <1>6, <1>7 DEF PollTypeOK

LEMMA ServersBegin == ASSUME ServiceStart, HandlerStart, PollStart PROVE ServersInv
<1>1. left \in 0..Descriptors /\ backlog \in Seq(Conn)
  BY ServiceAssumption DEF ServiceStart
<1>2. program \notin HandlerPrograms => program # "pool"
  BY DEF HandlerPrograms
<1> QED
  BY <1>1, <1>2, LinesBegin, WorkersBegin, HandlersBegin, PollLinesBegin, PollTypesBegin
  DEF ServersInv

LEMMA LabsBegin == ASSUME LabsInit PROVE LabsInv
<1>1. \A p : Runs(p) \in BOOLEAN
  BY DEF Runs
<1>2. ServersInv
  BY ServersBegin DEF LabsInit
<1>3. DialogueInv
  BY <1>1, DialogueBegins DEF LabsInit
<1>4. CatInv
  BY <1>1, CatBegins DEF LabsInit
<1>5. SonsInv
  BY <1>1, SonsBegin DEF LabsInit
<1>6. GamblingInv
  BY <1>1, GamblingBegins DEF LabsInit
<1>7. NumbersInv
  BY <1>1, NumbersBegin DEF LabsInit
<1>8. ToolsInv /\ TacInv /\ GrepInv
  BY <1>1, ToolsBegin, TacBegin, GrepBegin DEF LabsInit
<1> QED
  BY <1>2, <1>3, <1>4, <1>5, <1>6, <1>7, <1>8 DEF LabsInv

LEMMA HandlersServe ==
  ASSUME ServersInv, program \in HandlerPrograms, [HandlerNext]_hvars,
         UNCHANGED <<fds, nfd, at, sessions, pid>>
  PROVE  ServersInv'
<1>1. HandlersInv'
  BY HandlersKeep DEF ServersInv
<1>2. program' = program
  BY DEF HandlerNext, Admit, WorkerStep, Spawn, Fork, PoolAccept, StartThread, Serve, Skip,
         Hangup, ClientStep, UserStep, ReadAnswer, ReadPart, ReadEof, Connect, Type, TypeNothing, Leave,
         hvars, service
<1>3. LinesInv' /\ HandlerTypeOK' /\ left' \in 0..Descriptors /\ backlog' \in Seq(Conn)
  BY <1>1 DEF HandlersInv, InLine
<1>4. PollTypeOK'
  BY DEF ServersInv, PollTypeOK, Entry
<1> QED
  BY <1>1, <1>2, <1>3, <1>4, OneProgram DEF ServersInv

LEMMA PollServes ==
  ASSUME ServersInv, program \in PollPrograms, [PollNext]_pvars, UNCHANGED <<worker, td>>
  PROVE  ServersInv'
<1>1. PollLines'
  BY PollLinesKeep DEF ServersInv
<1>2. program' \in PollPrograms
  BY <1>1 DEF PollLines, PollInv, PollTyped
<1>3. LinesInv' /\ left' \in 0..Descriptors /\ backlog' \in Seq(Conn)
  BY <1>1 DEF PollLines, Budget, PollInv, PollTyped
<1>4. PollTypeOK'
  BY <1>1 DEF PollLines, PollInv, PollTyped, FdsTyped, PollTypeOK, Sessions
<1>5. HandlerTypeOK' /\ \A w \in Worker : worker'[w].pc = "none"
  BY OneProgram DEF ServersInv, HandlerTypeOK
<1> QED
  BY <1>1, <1>2, <1>3, <1>4, <1>5, OneProgram DEF ServersInv

LEMMA ServersRest == ASSUME ServersInv, UNCHANGED <<hvars, pvars>> PROVE ServersInv'
<1>1. /\ UNCHANGED hvars /\ UNCHANGED pvars /\ UNCHANGED service /\ UNCHANGED <<worker, td>>
      /\ UNCHANGED <<fds, nfd, at, sessions, pid>>
  BY DEF hvars, pvars
<1>2. CASE program \in HandlerPrograms
  BY <1>1, <1>2, HandlersServe
<1>3. CASE program \in PollPrograms
  BY <1>1, <1>3, PollServes
<1>4. CASE program \notin HandlerPrograms /\ program \notin PollPrograms
  <2>1. LinesInv'
    BY <1>1, LinesStay DEF ServersInv, service
  <2> QED
    BY <1>1, <1>4, <2>1 DEF ServersInv, HandlerTypeOK, PollTypeOK, Entry, service
<1> QED
  BY <1>2, <1>3, <1>4

\* A step of one program is a step of it, or leaves it alone.
LEMMA LabsSteps ==
  ASSUME [LabsNext]_labs
  PROVE  /\ \/ program \in HandlerPrograms /\ [HandlerNext]_hvars
               /\ UNCHANGED <<fds, nfd, at, sessions, pid>>
            \/ program \in PollPrograms /\ [PollNext]_pvars /\ UNCHANGED <<worker, td>>
            \/ UNCHANGED <<hvars, pvars>>
         /\ [DialogueNext]_dvars /\ [CatGrepNext]_cvars /\ [SonStep]_svars
         /\ [GamblingNext]_gvars /\ [NumbersNext]_nvars /\ [ToolsNext]_tvars
<1>1. CASE program \in HandlerPrograms /\ HandlerNext /\ UNCHANGED <<others, fds, nfd, at, sessions, pid>>
  BY <1>1 DEF others
<1>2. CASE program \in PollPrograms /\ PollNext /\ UNCHANGED <<others, worker, td>>
  BY <1>2 DEF others
<1>3. CASE UNCHANGED labs
  BY <1>3 DEF labs, others
<1>4. CASE DialogueNext /\ UNCHANGED <<hvars, pvars, cvars, svars, gvars, nvars, tvars>>
  BY <1>4
<1>5. CASE CatGrepNext /\ UNCHANGED <<hvars, pvars, dvars, svars, gvars, nvars, tvars>>
  BY <1>5
<1>6. CASE SonStep /\ UNCHANGED <<hvars, pvars, dvars, cvars, gvars, nvars, tvars>>
  BY <1>6
<1>7. CASE GamblingNext /\ UNCHANGED <<hvars, pvars, dvars, cvars, svars, nvars, tvars>>
  BY <1>7
<1>8. CASE NumbersNext /\ UNCHANGED <<hvars, pvars, dvars, cvars, svars, gvars, tvars>>
  BY <1>8
<1>9. CASE ToolsNext /\ UNCHANGED <<hvars, pvars, dvars, cvars, svars, gvars, nvars>>
  BY <1>9
<1> QED
  BY <1>1, <1>2, <1>3, <1>4, <1>5, <1>6, <1>7, <1>8, <1>9 DEF LabsNext

LEMMA LabsKeep == ASSUME LabsInv, [LabsNext]_labs PROVE LabsInv'
<1>1. ServersInv'
  BY LabsSteps, HandlersServe, PollServes, ServersRest DEF LabsInv
<1>2. DialogueInv' /\ CatInv' /\ SonsInv' /\ GamblingInv' /\ NumbersInv'
  BY LabsSteps, DialogueKeeps, CatKeeps, SonsKeep, GamblingKeeps, NumbersKeep
  DEF LabsInv
<1>3. ToolsInv' /\ TacInv' /\ GrepInv'
  BY LabsSteps, ToolsKeep, TacKeep, GrepKeep DEF LabsInv
<1> QED
  BY <1>1, <1>2, <1>3 DEF LabsInv

\* The invariant of all programs, whichever is run: no fairness is needed.
THEOREM LabsInvariance == LabsSpec => []LabsInv
  BY LabsBegin, LabsKeep, PTL DEF LabsSpec

\* The variables of all programs keep their types: no server closes a
\* descriptor that was not open, no tool leaves its array with an index.
THEOREM LabsTyped == LabsSpec => []LabsTypeOK
<1>1. LabsInv => LabsTypeOK
  <2> SUFFICES ASSUME LabsInv PROVE LabsTypeOK
    OBVIOUS
  <2>1. ServiceTypeOK /\ HandlerTypeOK /\ PollTypeOK
    BY DEF LabsInv, ServersInv, LinesInv, Boxes, ServiceTypeOK, KeyMessage
  <2>2. /\ DialogueTypeOK /\ CatGrepTypeOK /\ SonsTypeOK /\ GamblingTypeOK /\ NumbersTypeOK
        /\ ToolsTypeOK
    BY DialogueRight, CatRight, SonsRight, NumbersRight, ToolsTyped DEF LabsInv, GamblingInv
  <2> QED
    BY <2>1, <2>2 DEF LabsTypeOK
<1> QED
  BY <1>1, LabsInvariance, PTL

\* Every service answers in step, as long as the client's read() returns all that
\* was asked for: no answer is on its way to a client at its prompt, and the one it
\* waits for is to the last line it typed, through empty lines, messages cut short
\* and connections closed by either side, whatever the other clients have lost.
THEOREM RepliesKept == LabsSpec => []RepliesInStep
<1>1. LabsInv => RepliesInStep
  BY DEF LabsInv, ServersInv, LinesInv, LineOf, RepliesInStep
<1> QED
  BY <1>1, LabsInvariance, PTL

\* A thread reads its thData after main has gone on, and still no connection has
\* two workers and no worker one that was not accepted, in all four programs.
THEOREM OneHandlerKept == LabsSpec => []OneHandler
<1>1. LabsInv => OneHandler
  <2> SUFFICES ASSUME LabsInv PROVE OneHandler
    OBVIOUS
  <2>1. CASE program \in HandlerPrograms
    BY <2>1, HandlersRight DEF LabsInv, ServersInv
  <2>2. CASE program \notin HandlerPrograms
    BY <2>2 DEF LabsInv, ServersInv, OneHandler
  <2> QED
    BY <2>1, <2>2
<1> QED
  BY <1>1, LabsInvariance, PTL

\* The parent of the socketpair dialogue prints an answer to an earlier request
\* after as many unknown commands as there were, in whole lines or in parts of long
\* ones, less the long lines whose end alone was sent by itself.
THEOREM LagKept == LabsSpec => []LagCounted
<1>1. LabsInv => LagCounted
  BY DialogueRight DEF LabsInv
<1> QED
  BY <1>1, LabsInvariance, PTL

\* What one process leaves for another: what grep chose of the lines that were read
\* is in the file or in a pipe, in order and once; the pipes are removed after all
\* were opened, unless an open() failed; father and sons print the lines of the
\* names asked for; kid shows its own message, or, by a file, in the two cases that
\* are named, an empty or an old one; and no two visitors have the same id.
THEOREM HandedOverKept == LabsSpec => []HandedOver
<1>1. LabsInv => HandedOver
  BY CatRight, SonsRight, NumbersRight DEF LabsInv, GamblingInv, HandedOver
<1> QED
  BY <1>1, LabsInvariance, PTL

\* grep prints of its files, one behind the other, what its options say of each
\* as a whole, although it prints, counts and skips lines one at a time; and a
\* store behind its patterns needs more different ones than there is room for.
THEOREM GrepKept == LabsSpec => []GrepRight
<1>1. LabsInv => GrepRight
  BY GrepIsRight DEF LabsInv
<1> QED
  BY <1>1, LabsInvariance, PTL

\* tac, which goes through its file byte by byte from the end, prints each line
\* that is not empty once and whole, the last one first, and stores behind its
\* buffer if and only if a line leaves no room for the 0.
THEOREM TacKept == LabsSpec => []TacRight
<1>1. LabsInv => TacRight
  BY TacIsRight DEF LabsInv
<1> QED
  BY <1>1, LabsInvariance, PTL

=============================================================================
