-------------------------- MODULE CommandLineProofs --------------------------
(***************************************************************************)
(* That EHLO, MAIL and RCPT accept exactly what the grammar of CommandLine  *)
(* has, and keep of it what was meant: for lines of any length over any     *)
(* characters.  Each parser is recursive towards the end of its text; that  *)
(* its recursion has a solution is JumpsEnd, and what it returns is by      *)
(* Downward: what holds of a place as soon as it holds of all behind it.    *)
(***************************************************************************)
EXTENDS CommandLine, SetInduction, FiniteSetTheorems, SequenceTheorems

-----------------------------------------------------------------------------
(* Recursion towards the end of a text                                      *)

(* What holds of a place as soon as it holds of all behind it holds of all. *)
LEMMA Downward ==
  ASSUME NEW n \in Nat, NEW T,
         \A j \in 0 .. n : (\A k \in j + 1 .. n : k \in T) => j \in T
  PROVE  \A j \in 0 .. n : j \in T
<1> DEFINE U == {m \in Nat : m <= n => \A k \in n - m .. n : k \in T}
<1>1. 0 \in U
  <2>1. n \in T
    OBVIOUS
  <2> QED
    BY <2>1
<1>2. ASSUME NEW m \in U PROVE m + 1 \in U
  <2> SUFFICES ASSUME m + 1 <= n PROVE \A k \in n - (m + 1) .. n : k \in T
    OBVIOUS
  <2>1. m \in Nat /\ m <= n
    OBVIOUS
  <2>2. \A k \in n - m .. n : k \in T
    BY <2>1
  <2>3. n - (m + 1) \in 0 .. n /\ \A k \in (n - (m + 1)) + 1 .. n : k \in n - m .. n
    BY <2>1
  <2>4. n - (m + 1) \in T
    BY <2>2, <2>3
  <2>5. \A k \in n - (m + 1) .. n : k = n - (m + 1) \/ k \in n - m .. n
    BY <2>1
  <2> QED
    BY <2>2, <2>4, <2>5
<1>3. n \in U
  <2> HIDE DEF U
  <2>1. U \in SUBSET Nat
    BY DEF U
  <2> QED
    BY <1>1, <1>2, <2>1, Induction
<1> QED
  BY <1>3

(* A recursion over the places from m to n.                                 *)
Jumps(m, n, V, jump, val, add) ==
  jump \in [m .. n -> 0 .. n] /\ val \in [m .. n -> V] /\ add \in [m .. n -> [V -> V]]

(* f is a solution: every place gets its value, or one that it makes of     *)
(* that of the place that it jumps to.                                      *)
Solved(f, m, n, V, jump, val, add) ==
  /\ f \in [m .. n -> V]
  /\ \A j \in m .. n : f[j] = IF jump[j] > j THEN add[j][f[jump[j]]] ELSE val[j]

(* If it goes on only at later places it has a solution.                    *)
LEMMA JumpsEnd ==
  ASSUME NEW m \in Nat, NEW n \in Nat, NEW V, NEW jump, NEW val, NEW add,
         Jumps(m, n, V, jump, val, add)
  PROVE  \E f : Solved(f, m, n, V, jump, val, add)
<1>0. jump \in [m .. n -> 0 .. n] /\ val \in [m .. n -> V] /\ add \in [m .. n -> [V -> V]]
  BY DEF Jumps
<1> DEFINE Solves(f, k) == \A j \in m .. n : j > n - k =>
                             f[j] = IF jump[j] > j THEN add[j][f[jump[j]]] ELSE val[j]
           T == {k \in Nat : \E f \in [m .. n -> V] : Solves(f, k)}
<1>1. 0 \in T
  <2>1. Solves(val, 0)
    OBVIOUS
  <2> HIDE DEF Solves
  <2> QED
    BY <1>0, <2>1
<1>2. ASSUME NEW k \in T PROVE k + 1 \in T
  <2>1. PICK f \in [m .. n -> V] : Solves(f, k)
    BY Zenon
  <2> DEFINE p == n - k
             v == IF jump[p] > p THEN add[p][f[jump[p]]] ELSE val[p]
             h == [f EXCEPT ![p] = v]
  <2>2. k \in Nat /\ p \in Int
    OBVIOUS
  <2>3. p \in m .. n => v \in V
    <3> SUFFICES ASSUME p \in m .. n PROVE v \in V
      OBVIOUS
    <3>1. CASE jump[p] > p
      <4>1. jump[p] \in m .. n
        BY <1>0, <3>1
      <4> QED
        BY <1>0, <3>1, <4>1
    <3>2. CASE ~(jump[p] > p)
      BY <1>0, <3>2
    <3> QED
      BY <3>1, <3>2
  <2> HIDE DEF v
  <2>4. h \in [m .. n -> V]
    BY <2>2, <2>3
  <2>5. \A j \in m .. n : j # p => h[j] = f[j]
    OBVIOUS
  <2>6. p \in m .. n => h[p] = v
    OBVIOUS
  <2> HIDE DEF h
  <2>7. ASSUME NEW j \in m .. n, j > n - (k + 1)
        PROVE  h[j] = IF jump[j] > j THEN add[j][h[jump[j]]] ELSE val[j]
    <3>1. j = p \/ j > p
      BY <2>2, <2>7
    <3>2. jump[j] > j => jump[j] \in m .. n /\ jump[j] # p
      BY <1>0, <2>2, <3>1
    <3>3. jump[j] > j => h[jump[j]] = f[jump[j]]
      BY <2>5, <3>2
    <3>4. h[j] = IF jump[j] > j THEN add[j][f[jump[j]]] ELSE val[j]
      <4>1. CASE j = p
        BY <2>6, <4>1 DEF v
      <4>2. CASE j > p
        <5>1. h[j] = f[j]
          BY <2>2, <2>5, <4>2
        <5> QED
          BY <2>1, <4>2, <5>1
      <4> QED
        BY <3>1, <4>1, <4>2
    <3> QED
      BY <3>3, <3>4
  <2>8. Solves(h, k + 1)
    BY <2>7
  <2> HIDE DEF Solves
  <2>9. \E g \in [m .. n -> V] : Solves(g, k + 1)
    BY <2>4, <2>8
  <2> QED
    BY <2>2, <2>9
<1>3. n + 1 \in T
  <2> HIDE DEF T
  <2>1. T \in SUBSET Nat
    BY DEF T
  <2> QED
    BY <1>1, <1>2, <2>1, Induction
<1>4. PICK f \in [m .. n -> V] : Solves(f, n + 1)
  BY <1>3
<1>5. \A j \in m .. n : j > n - (n + 1)
  OBVIOUS
<1> QED
  BY <1>4, <1>5 DEF Solved

-----------------------------------------------------------------------------
(* Texts and their places                                                   *)

(* The characters between two places.                                       *)
LEMMA Piece ==
  ASSUME NEW C, NEW s \in Seq(C), NEW i \in 1 .. Len(s) + 1, NEW e \in i .. Len(s) + 1
  PROVE  /\ SubSeq(s, i, e - 1) \in Seq(C) /\ Len(SubSeq(s, i, e - 1)) = e - i
         /\ DOMAIN SubSeq(s, i, e - 1) = 1 .. e - i
         /\ \A k \in 1 .. e - i : SubSeq(s, i, e - 1)[k] = s[k + i - 1]
         /\ \A k \in i .. e - 1 : SubSeq(s, i, e - 1)[k - i + 1] = s[k] /\ k - i + 1 \in 1 .. e - i
<1>1. Len(s) \in Nat /\ DOMAIN s = 1 .. Len(s) /\ \A k \in 1 .. Len(s) : s[k] \in C
  OBVIOUS
<1> DEFINE t == SubSeq(s, i, e - 1)
<1>2. Len(t) = e - i
  BY <1>1
<1>3. t \in Seq(C)
  BY <1>1
<1>4. \A k \in 1 .. e - i : t[k] = s[k + i - 1]
  BY <1>1, <1>2
<1>5. ASSUME NEW k \in i .. e - 1 PROVE k - i + 1 \in 1 .. e - i /\ (k - i + 1) + i - 1 = k
  BY <1>1
<1> HIDE DEF t
<1>6. \A k \in i .. e - 1 : t[k - i + 1] = s[k] /\ k - i + 1 \in 1 .. e - i
  BY <1>4, <1>5
<1>7. DOMAIN t = 1 .. e - i
  BY <1>2, <1>3
<1> QED
  BY <1>2, <1>3, <1>4, <1>6, <1>7 DEF t

(* Where a run of characters ends, and that it ends nowhere else.           *)
LEMMA RunEnds ==
  ASSUME NEW C, NEW s \in Seq(C), NEW i \in 1 .. Len(s) + 1, NEW K
  PROVE  /\ Run(s, i, K) \in i .. Len(s) + 1
         /\ Run(s, i, K) > Len(s) \/ s[Run(s, i, K)] \notin K
         /\ \A k \in i .. Run(s, i, K) - 1 : s[k] \in K
<1>1. Len(s) \in Nat
  OBVIOUS
<1> DEFINE T == {j \in i .. Len(s) + 1 : j > Len(s) \/ s[j] \notin K}
<1>2. Len(s) + 1 \in T /\ T \in SUBSET Nat
  BY <1>1
<1>3. PICK j \in T : \A k \in T : j <= k
  <2> HIDE DEF T
  <2> QED
    BY <1>2, Least
<1>4. j \in i .. Len(s) + 1 /\ (j > Len(s) \/ s[j] \notin K)
  OBVIOUS
<1>5. \A k \in i .. j - 1 : s[k] \in K
  <2> SUFFICES ASSUME NEW k \in i .. j - 1, s[k] \notin K PROVE FALSE
    OBVIOUS
  <2>1. k \in T /\ ~(j <= k)
    BY <1>1, <1>4
  <2> QED
    BY <1>3, <2>1
<1> QED
  BY <1>4, <1>5 DEF Run

(* What ends where a run ends is the run.                                   *)
LEMMA RunIs ==
  ASSUME NEW C, NEW s \in Seq(C), NEW i \in 1 .. Len(s) + 1, NEW K, NEW e \in i .. Len(s) + 1,
         e > Len(s) \/ s[e] \notin K,
         \A k \in i .. e - 1 : s[k] \in K
  PROVE  Run(s, i, K) = e
<1>1. Len(s) \in Nat
  OBVIOUS
<1> DEFINE r == Run(s, i, K)
<1>2. r \in i .. Len(s) + 1 /\ (r > Len(s) \/ s[r] \notin K) /\ \A k \in i .. r - 1 : s[k] \in K
  BY RunEnds
<1> HIDE DEF r
<1>3. ~(r < e)
  <2> SUFFICES ASSUME r < e PROVE FALSE
    OBVIOUS
  <2>1. r \in i .. e - 1 /\ ~(r > Len(s))
    BY <1>1, <1>2
  <2> QED
    BY <1>2, <2>1
<1>4. ~(e < r)
  <2> SUFFICES ASSUME e < r PROVE FALSE
    OBVIOUS
  <2>1. e \in i .. r - 1 /\ ~(e > Len(s))
    BY <1>1, <1>2
  <2> QED
    BY <1>2, <2>1
<1>5. r = e
  BY <1>1, <1>2, <1>3, <1>4
<1> QED
  BY <1>5 DEF r

-----------------------------------------------------------------------------
(* Words with dots between them                                             *)

(* The text from i ends at e, as far as the characters of K go.             *)
Stops(s, e, K) == e > Len(s) \/ s[e] \notin K

(* Dotted, of the text between two places.                                  *)
DottedAt(s, i, e, K) ==
  /\ i < e /\ s[i] # "." /\ s[e - 1] # "."
  /\ \A k \in i .. e - 1 : s[k] \in K \cup {"."}
  /\ \A k \in i + 1 .. e - 1 : ~(s[k - 1] = "." /\ s[k] = ".")

(* Dotted, of a piece of a text, in the places of the text.                 *)
LEMMA DottedPiece ==
  ASSUME NEW C, NEW s \in Seq(C), NEW i \in 1 .. Len(s) + 1, NEW e \in i .. Len(s) + 1, NEW K
  PROVE  Dotted(SubSeq(s, i, e - 1), K) <=> DottedAt(s, i, e, K)
<1>1. Len(s) \in Nat
  OBVIOUS
<1> DEFINE t == SubSeq(s, i, e - 1)
<1>2. /\ t \in Seq(C) /\ Len(t) = e - i /\ DOMAIN t = 1 .. e - i
      /\ \A k \in 1 .. e - i : t[k] = s[k + i - 1]
      /\ \A k \in i .. e - 1 : t[k - i + 1] = s[k] /\ k - i + 1 \in 1 .. e - i
  BY Piece
<1> HIDE DEF t
<1>3. CASE e = i
  <2>1. t = <<>>
    BY <1>2, <1>3
  <2> QED
    BY <1>1, <1>3, <2>1 DEF Dotted, DottedAt, t
<1>4. CASE i < e
  <2>1. 1 \in 1 .. e - i /\ e - i \in 1 .. e - i /\ 1 + i - 1 = i /\ (e - i) + i - 1 = e - 1
    BY <1>1, <1>4
  <2>2. t # <<>> /\ t[1] = s[i] /\ t[Len(t)] = s[e - 1]
    BY <1>2, <2>1
  <2>3. (\A k \in DOMAIN t : t[k] \in K \cup {"."}) <=> \A k \in i .. e - 1 : s[k] \in K \cup {"."}
    <3>1. \A k \in 1 .. e - i : k + i - 1 \in i .. e - 1
      BY <1>1
    <3> QED
      BY <1>2, <3>1
  <2>4. (\A k \in 2 .. Len(t) : ~(t[k - 1] = "." /\ t[k] = "."))
          <=> \A k \in i + 1 .. e - 1 : ~(s[k - 1] = "." /\ s[k] = ".")
    <3>1. ASSUME NEW k \in 2 .. Len(t)
          PROVE  /\ k + i - 1 \in i + 1 .. e - 1 /\ k \in 1 .. e - i /\ k - 1 \in 1 .. e - i
                 /\ (k - 1) + i - 1 = (k + i - 1) - 1
      BY <1>1, <1>2
    <3>2. ASSUME NEW k \in i + 1 .. e - 1
          PROVE  /\ k - i + 1 \in 2 .. Len(t) /\ k \in i .. e - 1 /\ k - 1 \in i .. e - 1
                 /\ (k - 1) - i + 1 = (k - i + 1) - 1
      BY <1>1, <1>2
    <3>3. \A k \in 2 .. Len(t) : t[k - 1] = s[(k + i - 1) - 1] /\ t[k] = s[k + i - 1]
      BY <1>2, <3>1
    <3>4. \A k \in i + 1 .. e - 1 : s[k - 1] = t[(k - i + 1) - 1] /\ s[k] = t[k - i + 1]
      BY <1>2, <3>2
    <3>5. ASSUME NEW k \in i + 1 .. e - 1, s[k - 1] = ".", s[k] = "."
          PROVE  \E j \in 2 .. Len(t) : t[j - 1] = "." /\ t[j] = "."
      BY <3>2, <3>4, <3>5, Zenon
    <3>6. ASSUME NEW k \in 2 .. Len(t), t[k - 1] = ".", t[k] = "."
          PROVE  \E j \in i + 1 .. e - 1 : s[j - 1] = "." /\ s[j] = "."
      BY <3>1, <3>3, <3>6, Zenon
    <3> QED
      BY <3>5, <3>6
  <2> QED
    BY <1>4, <2>2, <2>3, <2>4 DEF Dotted, DottedAt, t
<1> QED
  BY <1>1, <1>3, <1>4

(* A dotted text is a word, or a word, a dot and a dotted text.             *)
LEMMA DottedByWords ==
  ASSUME NEW C, NEW s \in Seq(C), NEW i \in 1 .. Len(s) + 1, NEW e \in 1 .. Len(s) + 1, NEW K, "." \notin K
  PROVE  LET r == Run(s, i, K)
         IN DottedAt(s, i, e, K) /\ Stops(s, e, K \cup {"."}) <=>
              /\ r > i
              /\ \/ e = r /\ ~At(s, r, ".")
                 \/ At(s, r, ".") /\ DottedAt(s, r + 1, e, K) /\ Stops(s, e, K \cup {"."})
<1>1. Len(s) \in Nat /\ DOMAIN s = 1 .. Len(s)
  OBVIOUS
<1> DEFINE r == Run(s, i, K)
<1>2. r \in i .. Len(s) + 1 /\ (r > Len(s) \/ s[r] \notin K) /\ \A k \in i .. r - 1 : s[k] \in K
  BY RunEnds
<1> HIDE DEF r
<1>3. ASSUME DottedAt(s, i, e, K), Stops(s, e, K \cup {"."})
      PROVE  /\ r > i
             /\ \/ e = r /\ ~At(s, r, ".")
                \/ At(s, r, ".") /\ DottedAt(s, r + 1, e, K)
  <2>1. r > i
    <3> SUFFICES ASSUME r = i PROVE FALSE
      BY <1>1, <1>2
    <3>1. i \in i .. e - 1 /\ i <= Len(s) /\ s[i] # "."
      BY <1>1, <1>3 DEF DottedAt
    <3> QED
      BY <1>2, <1>3, <3>1 DEF DottedAt
  <2>2. r <= e
    <3> SUFFICES ASSUME e < r PROVE FALSE
      BY <1>1, <1>2
    <3>1. e \in i .. r - 1 /\ ~(e > Len(s))
      BY <1>1, <1>2, <1>3 DEF DottedAt
    <3> QED
      BY <1>2, <1>3, <3>1 DEF Stops
  <2>3. CASE r = e
    BY <1>1, <1>3, <2>1, <2>3 DEF Stops, At
  <2>4. CASE r < e
    <3>1. r \in i .. e - 1 /\ r \in 1 .. Len(s)
      BY <1>1, <1>2, <2>4
    <3>2. s[r] = "."
      BY <1>1, <1>2, <1>3, <3>1 DEF DottedAt
    <3>3. r + 1 < e
      BY <1>1, <1>2, <1>3, <2>4, <3>2 DEF DottedAt
    <3>4. s[r + 1] # "."
      <4>1. r + 1 \in i + 1 .. e - 1 /\ (r + 1) - 1 = r
        BY <1>1, <1>2, <3>3
      <4> QED
        BY <1>3, <3>2, <4>1 DEF DottedAt
    <3>5. DottedAt(s, r + 1, e, K)
      BY <1>1, <1>2, <1>3, <3>3, <3>4 DEF DottedAt
    <3> QED
      BY <1>1, <2>1, <3>1, <3>2, <3>5 DEF At
  <2> QED
    BY <1>1, <1>2, <2>2, <2>3, <2>4
<1>4. ASSUME r > i, e = r, ~At(s, r, ".")
      PROVE  DottedAt(s, i, e, K) /\ Stops(s, e, K \cup {"."})
  <2>1. Stops(s, e, K \cup {"."})
    BY <1>1, <1>2, <1>4 DEF Stops, At
  <2>2. \A k \in i .. e - 1 : s[k] \in K /\ s[k] # "."
    BY <1>2, <1>4
  <2>3. i \in i .. e - 1 /\ e - 1 \in i .. e - 1 /\ i < e /\ \A k \in i + 1 .. e - 1 : k \in i .. e - 1
    BY <1>1, <1>2, <1>4
  <2> QED
    BY <2>1, <2>2, <2>3 DEF DottedAt
<1>5. ASSUME r > i, At(s, r, "."), DottedAt(s, r + 1, e, K)
      PROVE  DottedAt(s, i, e, K)
  <2>1. \A k \in i .. r - 1 : s[k] \in K /\ s[k] # "."
    BY <1>2
  <2>2. s[r] = "." /\ r + 1 < e /\ s[r + 1] # "."
    BY <1>5 DEF At, DottedAt
  <2>3. \A k \in i .. e - 1 : k \in i .. r - 1 \/ k = r \/ k \in r + 1 .. e - 1
    BY <1>1, <1>2
  <2>4. \A k \in i .. e - 1 : s[k] \in K \cup {"."}
    BY <1>5, <2>1, <2>2, <2>3 DEF DottedAt
  <2>5. ASSUME NEW k \in i + 1 .. e - 1, s[k - 1] = ".", s[k] = "." PROVE FALSE
    <3>1. \/ k - 1 \in i .. r - 1
          \/ k - 1 = r /\ k = r + 1
          \/ k \in (r + 1) + 1 .. e - 1
      BY <1>1, <1>2
    <3> QED
      BY <1>5, <2>1, <2>2, <2>5, <3>1 DEF DottedAt
  <2>6. i < e /\ s[i] # "." /\ s[e - 1] # "."
    <3>1. i \in i .. r - 1 /\ i < e
      BY <1>1, <1>2, <1>5, <2>2
    <3> QED
      BY <1>5, <2>1, <3>1 DEF DottedAt
  <2> QED
    BY <2>4, <2>5, <2>6 DEF DottedAt
<1> QED
  BY <1>3, <1>4, <1>5 DEF r

-----------------------------------------------------------------------------
(* Domains                                                                  *)

(* The characters that the parsers look for are in no word.                 *)
LEMMA MarksApart ==
  /\ Label \subseteq Atext /\ Atext \subseteq Printable
  /\ \A c \in Marks : c \notin Label /\ c \notin Atext
  /\ "=" \notin Label
BY CharsAssumption DEF Label, Atext

(* What labels says of a place.                                             *)
LabelsStep(s, f, j) ==
  IF LabelEnd(s, j) = j /\ j <= Len(s) THEN Bad
  ELSE IF LabelEnd(s, j) # j /\ At(s, LabelEnd(s, j), ".") THEN f[LabelEnd(s, j) + 1]
  ELSE LabelEnd(s, j)

(* The recursion of Domain has a solution, and Domain is made of one.       *)
LEMMA LabelsSolved ==
  ASSUME NEW C, NEW s \in Seq(C)
  PROVE  \E f : /\ \A j \in 1 .. Len(s) + 1 : f[j] = LabelsStep(s, f, j)
                /\ \A i : Domain(s, i) = Within(DomainMax, i, f[i])
<1>1. Len(s) \in Nat /\ DOMAIN s = 1 .. Len(s)
  OBVIOUS
<1> DEFINE n == Len(s) + 1
           jump == [j \in 1 .. n |-> IF LabelEnd(s, j) # j /\ At(s, LabelEnd(s, j), ".")
                                     THEN LabelEnd(s, j) + 1 ELSE 0]
           val == [j \in 1 .. n |-> IF LabelEnd(s, j) = j /\ j <= Len(s) THEN Bad
                                    ELSE LabelEnd(s, j)]
           same == [v \in Nat |-> v]
           add == [j \in 1 .. n |-> same]
<1>2. \A j \in 1 .. n : LabelEnd(s, j) \in j .. n
  BY RunEnds DEF LabelEnd
<1>3. jump \in [1 .. n -> 0 .. n] /\ val \in [1 .. n -> Nat]
  BY <1>1, <1>2 DEF At, Bad
<1>4. same \in [Nat -> Nat]
  OBVIOUS
<1>5. add \in [1 .. n -> [Nat -> Nat]]
  <2> HIDE DEF same
  <2> QED
    BY <1>4
<1>6. PICK f : Solved(f, 1, n, Nat, jump, val, add)
  <2> HIDE DEF jump, val, add, n
  <2>1. 1 \in Nat /\ n \in Nat
    BY <1>1 DEF n
  <2>2. Jumps(1, n, Nat, jump, val, add)
    BY <1>3, <1>5 DEF Jumps
  <2> QED
    BY <2>1, <2>2, JumpsEnd
<1>7. /\ f \in [1 .. n -> Nat]
      /\ \A j \in 1 .. n : f[j] = IF jump[j] > j THEN add[j][f[jump[j]]] ELSE val[j]
  <2> HIDE DEF jump, val, add, n
  <2> QED
    BY <1>6 DEF Solved
<1>8. ASSUME NEW j \in 1 .. n PROVE f[j] = LabelsStep(s, f, j)
  <2> DEFINE r == LabelEnd(s, j)
  <2>1. f[j] = IF jump[j] > j THEN add[j][f[jump[j]]] ELSE val[j]
    BY <1>7
  <2>2. CASE r # j /\ At(s, r, ".")
    <3>1. jump[j] = r + 1 /\ jump[j] > j /\ jump[j] \in 1 .. n
      BY <1>1, <1>2, <2>2 DEF At
    <3>2. f[r + 1] \in Nat
      BY <1>7, <3>1
    <3>3. add[j][f[r + 1]] = f[r + 1]
      BY <3>2
    <3> QED
      BY <2>1, <2>2, <3>1, <3>3 DEF LabelsStep
  <2>3. CASE ~(r # j /\ At(s, r, "."))
    <3>1. jump[j] = 0 /\ ~(jump[j] > j) /\ val[j] = IF r = j /\ j <= Len(s) THEN Bad ELSE r
      BY <2>3
    <3> HIDE DEF jump, val
    <3>2. f[j] = IF r = j /\ j <= Len(s) THEN Bad ELSE r
      BY <2>1, <3>1
    <3> QED
      BY <2>3, <3>2 DEF LabelsStep
  <2> QED
    BY <2>2, <2>3
<1> HIDE DEF jump, val, add, same
<1>9. f = [j \in 1 .. Len(s) + 1 |-> LabelsStep(s, f, j)]
  BY <1>7, <1>8
<1> DEFINE g == CHOOSE h : h = [j \in 1 .. Len(s) + 1 |->
             IF LabelEnd(s, j) = j /\ j <= Len(s) THEN Bad
             ELSE IF LabelEnd(s, j) # j /\ At(s, LabelEnd(s, j), ".") THEN h[LabelEnd(s, j) + 1]
             ELSE LabelEnd(s, j)]
<1>10. g = [j \in 1 .. Len(s) + 1 |-> LabelsStep(s, g, j)]
  <2> HIDE DEF n
  <2> QED
    BY <1>9 DEF LabelsStep
<1>11. \A i : Domain(s, i) = Within(DomainMax, i, g[i])
  BY DEF Domain
<1> HIDE DEF g
<1>12. \A j \in 1 .. Len(s) + 1 : g[j] = LabelsStep(s, g, j)
  BY <1>10
<1> QED
  BY <1>11, <1>12

(* A domain from i ends at e: words with dots between them, and behind the  *)
(* last dot nothing if the text ends there.                                 *)
DomainAt(s, i, e) ==
  \/ DottedAt(s, i, e, Label) /\ Stops(s, e, Label \cup {"."})
  \/ /\ e = Len(s) + 1
     /\ \/ i = e
        \/ At(s, e - 1, ".") /\ DottedAt(s, i, e - 1, Label)

(* One word more.                                                           *)
LEMMA DomainByWords ==
  ASSUME NEW C, NEW s \in Seq(C), NEW i \in 1 .. Len(s) + 1, NEW e \in 1 .. Len(s) + 1
  PROVE  LET r == Run(s, i, Label)
         IN DomainAt(s, i, e) <=>
              \/ e = r /\ ~At(s, r, ".") /\ (r = i => i = Len(s) + 1)
              \/ At(s, r, ".") /\ r > i /\ DomainAt(s, r + 1, e)
<1>1. Len(s) \in Nat /\ DOMAIN s = 1 .. Len(s)
  OBVIOUS
<1> DEFINE r == Run(s, i, Label)
<1>2. r \in i .. Len(s) + 1 /\ (r > Len(s) \/ s[r] \notin Label) /\ \A k \in i .. r - 1 : s[k] \in Label
  BY RunEnds
<1>3. "." \notin Label
  BY MarksApart DEF Marks
<1>4. DottedAt(s, i, e, Label) /\ Stops(s, e, Label \cup {"."}) <=>
        /\ r > i
        /\ \/ e = r /\ ~At(s, r, ".")
           \/ At(s, r, ".") /\ DottedAt(s, r + 1, e, Label) /\ Stops(s, e, Label \cup {"."})
  BY <1>3, DottedByWords
<1> DEFINE n == Len(s) + 1
           open(j) == j = n \/ (At(s, Len(s), ".") /\ DottedAt(s, j, Len(s), Label))
<1>5. open(i) <=> \/ n = r /\ i = n
                  \/ At(s, r, ".") /\ r > i /\ open(r + 1)
  <2>1. CASE i = n
    <3>1. r = n /\ ~At(s, r, ".")
      BY <1>1, <1>2, <2>1 DEF At
    <3> QED
      BY <2>1, <3>1
  <2>2. CASE i # n /\ At(s, Len(s), ".")
    <3>1. Len(s) \in 1 .. Len(s) + 1 /\ i \in 1 .. Len(s)
      BY <1>1, <2>2
    <3>2. s[Len(s)] = "." /\ Stops(s, Len(s), Label) /\ ~Stops(s, Len(s), {"."})
      BY <1>1, <1>3, <2>2 DEF At, Stops
    <3>3. r <= Len(s)
      <4> SUFFICES ASSUME r = n PROVE FALSE
        BY <1>1, <1>2
      <4> QED
        BY <1>1, <1>2, <1>3, <3>1, <3>2
    <3>4. ASSUME DottedAt(s, i, Len(s), Label)
          PROVE  At(s, r, ".") /\ r > i /\ open(r + 1)
      <4>1. i < Len(s) /\ s[i] # "." /\ s[i] \in Label \cup {"."}
        BY <1>1, <3>1, <3>4 DEF DottedAt
      <4>2. r > i
        BY <1>1, <1>2, <4>1
      <4>3. s[r] = "."
        <5>1. r = Len(s) \/ r \in i .. Len(s) - 1
          BY <1>1, <1>2, <3>3
        <5> QED
          BY <1>1, <1>2, <3>2, <3>4, <5>1 DEF DottedAt
      <4>4. CASE r = Len(s)
        BY <1>1, <2>2, <4>2, <4>4
      <4>5. CASE r < Len(s)
        <5>1. r + 1 < Len(s)
          BY <1>1, <1>2, <3>4, <4>3, <4>5 DEF DottedAt
        <5>2. s[r + 1] # "."
          <6>1. r + 1 \in i + 1 .. Len(s) - 1 /\ (r + 1) - 1 = r
            BY <1>1, <1>2, <5>1
          <6> QED
            BY <3>4, <4>3, <6>1 DEF DottedAt
        <5>3. DottedAt(s, r + 1, Len(s), Label)
          BY <1>1, <1>2, <3>4, <5>1, <5>2 DEF DottedAt
        <5> QED
          BY <1>1, <1>2, <2>2, <4>2, <4>3, <4>5, <5>3 DEF At
      <4> QED
        BY <1>1, <1>2, <3>3, <4>4, <4>5
    <3>5. ASSUME At(s, r, "."), r > i, open(r + 1)
          PROVE  DottedAt(s, i, Len(s), Label)
      <4>1. \A k \in i .. r - 1 : s[k] \in Label /\ s[k] # "."
        BY <1>2, <1>3
      <4>2. i \in i .. r - 1 /\ r - 1 \in i .. r - 1 /\ s[r] = "."
        BY <1>1, <1>2, <3>5 DEF At
      <4>3. CASE r = Len(s)
        <5>1. i < Len(s) /\ s[i] # "." /\ s[Len(s) - 1] # "."
          BY <1>1, <3>5, <4>1, <4>2, <4>3
        <5>2. \A k \in i + 1 .. Len(s) - 1 : k \in i .. r - 1
          BY <1>1, <4>3
        <5> QED
          BY <4>1, <4>3, <5>1, <5>2 DEF DottedAt
      <4>4. CASE r # Len(s)
        <5>1. DottedAt(s, r + 1, Len(s), Label) /\ r < Len(s)
          BY <1>1, <1>2, <3>3, <3>5, <4>4
        <5>2. \A k \in i .. Len(s) - 1 : k \in i .. r - 1 \/ k = r \/ k \in r + 1 .. Len(s) - 1
          BY <1>1, <1>2
        <5>3. \A k \in i .. Len(s) - 1 : s[k] \in Label \cup {"."}
          BY <4>1, <4>2, <5>1, <5>2 DEF DottedAt
        <5>4. ASSUME NEW k \in i + 1 .. Len(s) - 1, s[k - 1] = ".", s[k] = "." PROVE FALSE
          <6>1. \/ k - 1 \in i .. r - 1
                \/ k - 1 = r /\ k = r + 1
                \/ k \in (r + 1) + 1 .. Len(s) - 1
            BY <1>1, <1>2
          <6> QED
            BY <4>1, <5>1, <5>4, <6>1 DEF DottedAt
        <5>5. i < Len(s) /\ s[i] # "." /\ s[Len(s) - 1] # "."
          <6>1. s[i] # "." /\ s[Len(s) - 1] # "."
            BY <4>1, <4>2, <5>1 DEF DottedAt
          <6>2. i < Len(s)
            BY <1>1, <1>2, <3>5, <5>1
          <6> QED
            BY <6>1, <6>2
        <5> QED
          BY <5>3, <5>4, <5>5 DEF DottedAt
      <4> QED
        BY <4>3, <4>4
    <3> QED
      BY <2>2, <3>3, <3>4, <3>5, <1>1
  <2>3. CASE i # n /\ ~At(s, Len(s), ".")
    <3>1. ~(At(s, r, ".") /\ r + 1 = n)
      BY <1>1, <2>3 DEF At
    <3> QED
      BY <2>3, <3>1
  <2> QED
    BY <2>1, <2>2, <2>3
<1> DEFINE dotted(j) == DottedAt(s, j, e, Label) /\ Stops(s, e, Label \cup {"."})
<1>6. e - 1 = Len(s) <=> e = n
  BY <1>1
<1>7. \A j : DomainAt(s, j, e) <=> dotted(j) \/ (e = n /\ open(j))
  BY <1>1, <1>6 DEF DomainAt
<1>8. DottedAt(s, i, e, Label) /\ Stops(s, e, Label \cup {"."}) <=>
        /\ r > i
        /\ \/ e = r /\ ~At(s, r, ".")
           \/ At(s, r, ".") /\ dotted(r + 1)
  BY <1>4
<1>9. i = n => r = n /\ ~At(s, r, ".")
  BY <1>1, <1>2 DEF At
<1>10. r > i \/ r = i
  BY <1>1, <1>2
<1> HIDE DEF r, open, n
<1> QED
  BY <1>5, <1>7, <1>8, <1>9, <1>10 DEF n, r

(* Where a domain ends.                                                     *)
LEMMA DomainEnds ==
  ASSUME NEW C, NEW s \in Seq(C), NEW i \in 1 .. Len(s) + 1
  PROVE  /\ Domain(s, i) \in 0 .. Len(s) + 1
         /\ \A e \in 1 .. Len(s) + 1 :
              Domain(s, i) = e <=> DomainAt(s, i, e) /\ e - i <= DomainMax
<1>1. Len(s) \in Nat /\ DOMAIN s = 1 .. Len(s)
  OBVIOUS
<1>2. PICK f : /\ \A j \in 1 .. Len(s) + 1 : f[j] = LabelsStep(s, f, j)
               /\ \A j : Domain(s, j) = Within(DomainMax, j, f[j])
  BY LabelsSolved
<1> DEFINE n == Len(s) + 1
           Right(j) == f[j] \in 0 .. n /\ \A e \in 1 .. n : f[j] = e <=> DomainAt(s, j, e)
           T == {j \in 0 .. n : j = 0 \/ Right(j)}
<1>3. ASSUME NEW j \in 0 .. n, \A k \in j + 1 .. n : k \in T PROVE j \in T
  <2> SUFFICES ASSUME j # 0 PROVE Right(j)
    OBVIOUS
  <2>1. j \in 1 .. n /\ n \in Nat
    BY <1>1
  <2> DEFINE r == LabelEnd(s, j)
  <2>2. r \in j .. n
    BY <2>1, RunEnds DEF LabelEnd
  <2>3. f[j] = LabelsStep(s, f, j)
    BY <1>2, <2>1
  <2>4. \A e \in 1 .. n :
          DomainAt(s, j, e) <=>
            \/ e = r /\ ~At(s, r, ".") /\ (r = j => j = n)
            \/ At(s, r, ".") /\ r > j /\ DomainAt(s, r + 1, e)
    BY <2>1, DomainByWords DEF LabelEnd
  <2> HIDE DEF r
  <2>5. CASE r = j /\ j <= Len(s)
    <3>1. f[j] = 0
      BY <2>3, <2>5 DEF LabelsStep, Bad, r
    <3>2. \A e \in 1 .. n : ~DomainAt(s, j, e)
      BY <1>1, <2>4, <2>5
    <3> QED
      BY <1>1, <3>1, <3>2
  <2>6. CASE r # j /\ At(s, r, ".")
    <3>1. f[j] = f[r + 1]
      BY <2>3, <2>6 DEF LabelsStep, r
    <3>2. r + 1 \in j + 1 .. n /\ r + 1 # 0
      BY <1>1, <2>1, <2>2, <2>6 DEF At
    <3>3. Right(r + 1)
      <4>1. r + 1 \in T
        BY <1>3, <3>2
      <4> HIDE DEF Right
      <4> QED
        BY <3>2, <4>1
    <3>4. \A e \in 1 .. n : DomainAt(s, j, e) <=> DomainAt(s, r + 1, e)
      BY <2>1, <2>2, <2>4, <2>6
    <3> QED
      BY <3>1, <3>3, <3>4
  <2>7. CASE ~(r = j /\ j <= Len(s)) /\ ~(r # j /\ At(s, r, "."))
    <3>1. f[j] = r
      BY <2>3, <2>7 DEF LabelsStep, r
    <3>2. ~At(s, r, ".") /\ (r = j => j = n)
      BY <1>1, <2>1, <2>2, <2>7 DEF At
    <3>3. \A e \in 1 .. n : DomainAt(s, j, e) <=> e = r
      BY <2>4, <3>2
    <3> QED
      BY <2>1, <2>2, <3>1, <3>3
  <2> QED
    BY <2>5, <2>6, <2>7
<1>4. Right(i)
  <2>1. \A j \in 0 .. n : j \in T
    <3> HIDE DEF T
    <3>1. n \in Nat
      BY <1>1
    <3> HIDE DEF n
    <3> QED
      BY <1>3, <3>1, Downward
  <2>2. i \in 0 .. n /\ i # 0
    BY <1>1
  <2> HIDE DEF Right
  <2> QED
    BY <2>1, <2>2
<1>5. Domain(s, i) = IF f[i] = 0 \/ f[i] - i > DomainMax THEN 0 ELSE f[i]
  BY <1>2 DEF Within, Bad
<1>6. DomainMax \in Nat
  BY LimitsAssumption
<1> QED
  BY <1>1, <1>4, <1>5, <1>6

(* A domain is not behind its end.                                          *)
LEMMA DomainAtBehind ==
  ASSUME NEW s, NEW i \in Nat, NEW e \in Nat, DomainAt(s, i, e)
  PROVE  i <= e
BY DEF DomainAt, DottedAt

(* Before a mark a domain is one of the grammar.                            *)
LEMMA DomainBefore ==
  ASSUME NEW C, NEW s \in Seq(C), NEW i \in 1 .. Len(s) + 1, NEW e \in 1 .. Len(s),
         s[e] \in Marks, s[e] # "."
  PROVE  Domain(s, i) = e <=> i <= e /\ IsDomain(SubSeq(s, i, e - 1))
<1>1. Len(s) \in Nat /\ e \in 1 .. Len(s) + 1 /\ e # Len(s) + 1 /\ ~(e > Len(s))
  OBVIOUS
<1>2. Domain(s, i) = e <=> DomainAt(s, i, e) /\ e - i <= DomainMax
  BY <1>1, DomainEnds
<1>3. s[e] \notin Label \cup {"."}
  BY MarksApart
<1>4. DomainAt(s, i, e) <=> DottedAt(s, i, e, Label)
  BY <1>1, <1>3 DEF DomainAt, Stops
<1>5. DottedAt(s, i, e, Label) => i <= e
  BY <1>1 DEF DottedAt
<1>6. CASE i <= e
  <2>1. e \in i .. Len(s) + 1
    BY <1>1, <1>6
  <2>2. Dotted(SubSeq(s, i, e - 1), Label) <=> DottedAt(s, i, e, Label)
    BY <2>1, DottedPiece
  <2>3. Len(SubSeq(s, i, e - 1)) = e - i
    BY <2>1, Piece
  <2> QED
    BY <1>2, <1>4, <1>6, <2>2, <2>3 DEF IsDomain
<1> QED
  BY <1>2, <1>4, <1>5, <1>6

-----------------------------------------------------------------------------
(* Local parts                                                              *)

(* The step of the recursion of LocalPart.                                  *)
AtomsStep(s, f, j) == IF At(s, Atom(s, j), ".") THEN f[Atom(s, j) + 1] ELSE Atom(s, j)

(* An atom is a run of its characters that is not empty.                    *)
LEMMA AtomEnds ==
  ASSUME NEW C, NEW s \in Seq(C), NEW i \in 0 .. Len(s) + 1
  PROVE  /\ i = 0 => Atom(s, i) = 0
         /\ i # 0 => Atom(s, i) = IF Run(s, i, Atext) > i THEN Run(s, i, Atext) ELSE 0
         /\ Atom(s, i) \in 0 .. Len(s) + 1 /\ (Atom(s, i) # 0 => Atom(s, i) > i)
<1>1. Len(s) \in Nat /\ DOMAIN s = 1 .. Len(s)
  OBVIOUS
<1>2. i = 0 => Atom(s, i) = 0
  BY <1>1 DEF Atom, Among, Bad
<1>3. ASSUME i # 0
      PROVE  /\ Atom(s, i) = IF Run(s, i, Atext) > i THEN Run(s, i, Atext) ELSE 0
             /\ Run(s, i, Atext) \in 1 .. Len(s) + 1
  <2> DEFINE r == Run(s, i, Atext)
  <2>1. i \in 1 .. Len(s) + 1
    BY <1>1, <1>3
  <2>2. r \in i .. Len(s) + 1 /\ (r > Len(s) \/ s[r] \notin Atext) /\ \A k \in i .. r - 1 : s[k] \in Atext
    BY <2>1, RunEnds
  <2> HIDE DEF r
  <2>3. r > i <=> Among(s, i, Atext)
    <3>1. r > i => i \in i .. r - 1 /\ i \in 1 .. Len(s)
      BY <1>1, <2>1, <2>2
    <3>2. ~(r > i) => r = i
      BY <1>1, <2>1, <2>2
    <3> QED
      BY <1>1, <2>1, <2>2, <3>1, <3>2 DEF Among
  <2> QED
    BY <1>1, <2>1, <2>2, <2>3 DEF Atom, Bad, r
<1> QED
  BY <1>1, <1>2, <1>3

(* The recursion of LocalPart has a solution.                               *)
LEMMA AtomsSolved ==
  ASSUME NEW C, NEW s \in Seq(C)
  PROVE  \E f : /\ \A j \in 0 .. Len(s) + 1 : f[j] = AtomsStep(s, f, j)
                /\ \A i : LocalPart(s, i) =
                            Within(LocalMax, i, IF QuotedString(s, i) # Bad THEN QuotedString(s, i) ELSE f[i])
<1>1. Len(s) \in Nat /\ DOMAIN s = 1 .. Len(s)
  OBVIOUS
<1> DEFINE n == Len(s) + 1
           jump == [j \in 0 .. n |-> IF At(s, Atom(s, j), ".") THEN Atom(s, j) + 1 ELSE 0]
           val == [j \in 0 .. n |-> Atom(s, j)]
           same == [v \in Nat |-> v]
           add == [j \in 0 .. n |-> same]
<1>2. \A j \in 0 .. n : Atom(s, j) \in 0 .. n /\ (Atom(s, j) # 0 => Atom(s, j) > j)
  BY AtomEnds
<1>3. jump \in [0 .. n -> 0 .. n] /\ val \in [0 .. n -> Nat]
  BY <1>1, <1>2 DEF At
<1>4. same \in [Nat -> Nat]
  OBVIOUS
<1>5. add \in [0 .. n -> [Nat -> Nat]]
  <2> HIDE DEF same
  <2> QED
    BY <1>4
<1>6. PICK f : Solved(f, 0, n, Nat, jump, val, add)
  <2> HIDE DEF jump, val, add, n
  <2>1. 0 \in Nat /\ n \in Nat
    BY <1>1 DEF n
  <2>2. Jumps(0, n, Nat, jump, val, add)
    BY <1>3, <1>5 DEF Jumps
  <2> QED
    BY <2>1, <2>2, JumpsEnd
<1>7. /\ f \in [0 .. n -> Nat]
      /\ \A j \in 0 .. n : f[j] = IF jump[j] > j THEN add[j][f[jump[j]]] ELSE val[j]
  <2> HIDE DEF jump, val, add, n
  <2> QED
    BY <1>6 DEF Solved
<1>8. ASSUME NEW j \in 0 .. n PROVE f[j] = AtomsStep(s, f, j)
  <2> DEFINE r == Atom(s, j)
  <2>1. f[j] = IF jump[j] > j THEN add[j][f[jump[j]]] ELSE val[j]
    BY <1>7
  <2>2. CASE At(s, r, ".")
    <3>1. jump[j] = r + 1
      BY <2>2
    <3>2. r \in 1 .. Len(s) /\ r > j
      <4>1. r \in 1 .. Len(s) /\ r # 0
        BY <1>1, <2>2 DEF At
      <4> HIDE DEF r
      <4> QED
        BY <1>2, <4>1 DEF r
    <3>3. f[r + 1] \in Nat /\ r + 1 > j
      <4>1. r + 1 \in 0 .. n
        BY <1>1, <3>2
      <4> HIDE DEF r, n
      <4>2. f[r + 1] \in Nat
        BY <1>7, <4>1
      <4> QED
        BY <1>1, <3>2, <4>2
    <3>4. add[j][f[r + 1]] = f[r + 1]
      BY <3>3
    <3> HIDE DEF jump, val, add, r
    <3>5. f[j] = f[r + 1]
      BY <2>1, <3>1, <3>3, <3>4
    <3> QED
      BY <2>2, <3>5 DEF AtomsStep, r
  <2>3. CASE ~At(s, r, ".")
    <3>1. jump[j] = 0 /\ ~(jump[j] > j) /\ val[j] = r
      BY <2>3
    <3> HIDE DEF jump, val
    <3> QED
      BY <2>1, <2>3, <3>1 DEF AtomsStep
  <2> QED
    BY <2>2, <2>3
<1> HIDE DEF jump, val, add, same
<1>9. f = [j \in 0 .. Len(s) + 1 |-> AtomsStep(s, f, j)]
  BY <1>7, <1>8
<1> DEFINE g == CHOOSE h : h = [j \in 0 .. Len(s) + 1 |->
             IF At(s, Atom(s, j), ".") THEN h[Atom(s, j) + 1] ELSE Atom(s, j)]
<1>10. g = [j \in 0 .. Len(s) + 1 |-> AtomsStep(s, g, j)]
  <2> HIDE DEF n
  <2> QED
    BY <1>9 DEF AtomsStep
<1>11. \A i : LocalPart(s, i) =
                Within(LocalMax, i, IF QuotedString(s, i) # Bad THEN QuotedString(s, i) ELSE g[i])
  BY DEF LocalPart
<1> HIDE DEF g
<1>12. \A j \in 0 .. Len(s) + 1 : g[j] = AtomsStep(s, g, j)
  BY <1>10
<1> QED
  BY <1>11, <1>12

(* Atoms with dots between them.                                            *)
AtomsAt(s, i, e) == DottedAt(s, i, e, Atext) /\ Stops(s, e, Atext \cup {"."})

(* Where atoms end.                                                         *)
LEMMA AtomsEnd ==
  ASSUME NEW C, NEW s \in Seq(C), NEW f,
         \A j \in 0 .. Len(s) + 1 : f[j] = AtomsStep(s, f, j)
  PROVE  /\ f[0] = 0
         /\ \A i \in 1 .. Len(s) + 1 :
              /\ f[i] \in 0 .. Len(s) + 1
              /\ \A e \in 1 .. Len(s) + 1 : f[i] = e <=> AtomsAt(s, i, e)
<1>1. Len(s) \in Nat /\ DOMAIN s = 1 .. Len(s)
  OBVIOUS
<1> DEFINE n == Len(s) + 1
           Right(j) == f[j] \in 0 .. n /\ \A e \in 1 .. n : f[j] = e <=> AtomsAt(s, j, e)
           T == {j \in 0 .. n : j = 0 \/ Right(j)}
<1>2. ASSUME NEW j \in 0 .. n, \A k \in j + 1 .. n : k \in T PROVE j \in T
  <2> SUFFICES ASSUME j # 0 PROVE Right(j)
    OBVIOUS
  <2>1. j \in 1 .. n /\ n \in Nat
    BY <1>1
  <2> DEFINE r == Run(s, j, Atext)
             a == Atom(s, j)
  <2>2. r \in j .. n
    BY <2>1, RunEnds
  <2>3. a = IF r > j THEN r ELSE 0
    BY <2>1, AtomEnds
  <2>4. f[j] = IF At(s, a, ".") THEN f[a + 1] ELSE a
    BY <2>1 DEF AtomsStep
  <2>5. ASSUME NEW e \in 1 .. n
        PROVE  AtomsAt(s, j, e) <=>
                 /\ r > j
                 /\ \/ e = r /\ ~At(s, r, ".")
                    \/ At(s, r, ".") /\ AtomsAt(s, r + 1, e)
    <3>1. "." \notin Atext
      BY MarksApart DEF Marks
    <3> QED
      BY <2>1, <3>1, DottedByWords DEF AtomsAt
  <2> HIDE DEF r, a
  <2>6. CASE ~(r > j)
    <3>1. f[j] = 0
      BY <1>1, <2>3, <2>4, <2>6 DEF At
    <3>2. \A e \in 1 .. n : ~AtomsAt(s, j, e)
      BY <2>5, <2>6
    <3> QED
      BY <1>1, <3>1, <3>2
  <2>7. CASE r > j /\ At(s, r, ".")
    <3>1. f[j] = f[r + 1]
      BY <2>3, <2>4, <2>7
    <3>2. r + 1 \in j + 1 .. n /\ r + 1 # 0
      BY <1>1, <2>1, <2>2, <2>7 DEF At
    <3>3. Right(r + 1)
      <4>1. r + 1 \in T
        BY <1>2, <3>2
      <4> HIDE DEF Right
      <4> QED
        BY <3>2, <4>1
    <3>4. \A e \in 1 .. n : AtomsAt(s, j, e) <=> AtomsAt(s, r + 1, e)
      BY <2>5, <2>7
    <3> QED
      BY <3>1, <3>3, <3>4
  <2>8. CASE r > j /\ ~At(s, r, ".")
    <3>1. f[j] = r
      BY <2>3, <2>4, <2>8
    <3>2. \A e \in 1 .. n : AtomsAt(s, j, e) <=> e = r
      BY <2>5, <2>8
    <3> QED
      BY <2>1, <2>2, <3>1, <3>2
  <2> QED
    BY <2>6, <2>7, <2>8
<1>3. \A j \in 0 .. n : j \in T
  <2> HIDE DEF T
  <2>1. n \in Nat
    BY <1>1
  <2> HIDE DEF n
  <2> QED
    BY <1>2, <2>1, Downward
<1>4. ASSUME NEW i \in 1 .. n PROVE Right(i)
  <2>1. i \in 0 .. n /\ i # 0
    BY <1>1
  <2> HIDE DEF Right
  <2> QED
    BY <1>3, <2>1
<1>5. f[0] = 0
  <2>1. 0 \in 0 .. n /\ Atom(s, 0) = 0 /\ ~At(s, 0, ".")
    BY <1>1, AtomEnds DEF At
  <2> QED
    BY <2>1 DEF AtomsStep
<1> QED
  BY <1>4, <1>5

-----------------------------------------------------------------------------
(* Quoted strings                                                           *)

(* Escaped, of a text that starts at i: an odd number of backslashes stands *)
(* before k.                                                                *)
EscapedAt(s, i, k) ==
  \E n \in 1 .. k - i :
    /\ n % 2 = 1 /\ \A j \in k - n .. k - 1 : s[j] = Backslash
    /\ k - n = i \/ s[k - n - 1] # Backslash

(* Escaped, of a piece of a text, in the places of the text.                *)
LEMMA EscapedPiece ==
  ASSUME NEW C, NEW s \in Seq(C), NEW i \in 1 .. Len(s) + 1, NEW e \in i .. Len(s) + 1,
         NEW k \in i .. e
  PROVE  Escaped(SubSeq(s, i, e - 1), k - i + 1) <=> EscapedAt(s, i, k)
<1>1. Len(s) \in Nat
  OBVIOUS
<1> DEFINE t == SubSeq(s, i, e - 1)
           p == k - i + 1
<1>2. \A j \in 1 .. e - i : t[j] = s[j + i - 1]
  BY Piece
<1> HIDE DEF t
<1>3. p - 1 = k - i /\ p \in Nat
  BY <1>1
<1>4. ASSUME NEW n \in 1 .. k - i
      PROVE  /\ (\A j \in p - n .. p - 1 : t[j] = Backslash) <=> \A j \in k - n .. k - 1 : s[j] = Backslash
             /\ (p - n = 1 \/ t[p - n - 1] # Backslash) <=> (k - n = i \/ s[k - n - 1] # Backslash)
  <2>1. \A j \in p - n .. p - 1 : j \in 1 .. e - i /\ j + i - 1 \in k - n .. k - 1
    BY <1>1
  <2>2. \A j \in k - n .. k - 1 : j - i + 1 \in p - n .. p - 1 /\ (j - i + 1) + i - 1 = j
    BY <1>1
  <2>3. \A j \in k - n .. k - 1 : s[j] = t[j - i + 1]
    <3> SUFFICES ASSUME NEW j \in k - n .. k - 1 PROVE s[j] = t[j - i + 1]
      OBVIOUS
    <3>1. j - i + 1 \in 1 .. e - i /\ (j - i + 1) + i - 1 = j
      BY <1>1
    <3> QED
      BY <1>2, <3>1
  <2>4. (\A j \in p - n .. p - 1 : t[j] = Backslash) <=> \A j \in k - n .. k - 1 : s[j] = Backslash
    <3>1. ASSUME \A j \in p - n .. p - 1 : t[j] = Backslash, NEW j \in k - n .. k - 1
          PROVE  s[j] = Backslash
      BY <2>2, <2>3, <3>1
    <3>2. ASSUME \A j \in k - n .. k - 1 : s[j] = Backslash, NEW j \in p - n .. p - 1
          PROVE  t[j] = Backslash
      BY <1>2, <2>1, <3>2
    <3> QED
      BY <3>1, <3>2
  <2>5. p - n = 1 <=> k - n = i
    BY <1>1
  <2>6. CASE k - n # i
    <3>1. p - n - 1 \in 1 .. e - i /\ (p - n - 1) + i - 1 = k - n - 1
      BY <1>1, <2>6
    <3>2. t[p - n - 1] = s[k - n - 1]
      BY <1>2, <3>1
    <3> QED
      BY <2>4, <2>5, <3>2
  <2> QED
    BY <2>4, <2>5, <2>6
<1>5. Escaped(t, p) <=>
        \E n \in 1 .. p - 1 : /\ n % 2 = 1 /\ \A j \in p - n .. p - 1 : t[j] = Backslash
                              /\ p - n = 1 \/ t[p - n - 1] # Backslash
  BY DEF Escaped
<1> HIDE DEF p
<1> QED
  BY <1>3, <1>4, <1>5 DEF EscapedAt, t, p

(* The first place is not escaped, and every other one is if an unescaped   *)
(* backslash stands before it.                                              *)
LEMMA EscapedStep ==
  ASSUME NEW s, NEW i \in Nat, NEW k \in Nat, i <= k
  PROVE  /\ ~EscapedAt(s, i, i)
         /\ EscapedAt(s, i, k + 1) <=> s[k] = Backslash /\ ~EscapedAt(s, i, k)
<1>1. ~EscapedAt(s, i, i)
  BY DEF EscapedAt
<1> DEFINE B(j) == s[j] = Backslash
           From0(m, p) == /\ \A j \in p - m .. p - 1 : B(j)
                          /\ p - m = i \/ ~B(p - m - 1)
<1>2. \A p : EscapedAt(s, i, p) <=> \E m \in 1 .. p - i : m % 2 = 1 /\ From0(m, p)
  BY DEF EscapedAt
<1>3. ASSUME NEW m \in 0 .. k - i, NEW q \in 0 .. k - i, From0(m, k), From0(q, k)
      PROVE  m = q
  <2>1. ~(m < q)
    <3> SUFFICES ASSUME m < q PROVE FALSE
      OBVIOUS
    <3>1. k - m - 1 \in k - q .. k - 1 /\ k - m # i
      OBVIOUS
    <3> QED
      BY <1>3, <3>1
  <2>2. ~(q < m)
    <3> SUFFICES ASSUME q < m PROVE FALSE
      OBVIOUS
    <3>1. k - q - 1 \in k - m .. k - 1 /\ k - q # i
      OBVIOUS
    <3> QED
      BY <1>3, <3>1
  <2> QED
    BY <2>1, <2>2
<1>4. PICK m \in 0 .. k - i : From0(m, k)
  <2> DEFINE T == {q \in Nat : q <= k - i /\ (k - q = i \/ ~B(k - q - 1))}
  <2>1. k - i \in T /\ T \in SUBSET Nat
    OBVIOUS
  <2>2. PICK q \in T : \A x \in T : q <= x
    <3> HIDE DEF T
    <3> QED
      BY <2>1, Least
  <2>3. ASSUME NEW j \in k - q .. k - 1, ~B(j) PROVE FALSE
    <3>1. k - 1 - j \in Nat /\ k - 1 - j < q /\ k - 1 - j <= k - i /\ k - (k - 1 - j) - 1 = j
      BY <2>2
    <3>2. k - 1 - j \in T
      BY <2>3, <3>1
    <3> DEFINE x == k - 1 - j
    <3>3. q \in Nat /\ x \in Nat /\ x < q /\ x \in T
      BY <2>2, <3>1, <3>2
    <3> HIDE DEF T, x
    <3>4. q <= x
      BY <2>2, <3>3
    <3> QED
      BY <3>3, <3>4
  <2>4. q \in 0 .. k - i /\ From0(q, k)
    BY <2>2, <2>3
  <2> QED
    BY <2>4
<1>5. EscapedAt(s, i, k) <=> m % 2 = 1
  <2>1. ASSUME EscapedAt(s, i, k) PROVE m % 2 = 1
    <3>1. PICK q \in 1 .. k - i : q % 2 = 1 /\ From0(q, k)
      BY <1>2, <2>1
    <3>2. q \in 0 .. k - i
      OBVIOUS
    <3> HIDE DEF From0
    <3>3. m = q
      BY <1>3, <1>4, <3>1, <3>2
    <3> QED
      BY <3>1, <3>3
  <2>2. ASSUME m % 2 = 1 PROVE EscapedAt(s, i, k)
    <3>1. m \in 1 .. k - i
      BY <2>2
    <3> HIDE DEF From0
    <3> QED
      BY <1>2, <1>4, <2>2, <3>1
  <2> QED
    BY <2>1, <2>2
<1>6. ASSUME EscapedAt(s, i, k + 1) PROVE B(k) /\ m % 2 = 0
  <2>1. PICK q \in 1 .. (k + 1) - i : q % 2 = 1 /\ From0(q, k + 1)
    BY <1>2, <1>6
  <2>2. k \in (k + 1) - q .. (k + 1) - 1
    OBVIOUS
  <2>3. B(k)
    BY <2>1, <2>2
  <2>4. q - 1 \in 0 .. k - i /\ k - (q - 1) = (k + 1) - q /\ k - (q - 1) - 1 = (k + 1) - q - 1
    OBVIOUS
  <2>5. From0(q - 1, k)
    <3>1. \A j \in k - (q - 1) .. k - 1 : j \in (k + 1) - q .. (k + 1) - 1
      OBVIOUS
    <3> QED
      BY <2>1, <2>4, <3>1
  <2>6. q - 1 = m
    <3> HIDE DEF From0
    <3> QED
      BY <1>3, <1>4, <2>4, <2>5
  <2>7. m % 2 = 0
    BY <2>1, <2>6
  <2> QED
    BY <2>3, <2>7
<1>7. ASSUME B(k), m % 2 # 1 PROVE EscapedAt(s, i, k + 1)
  <2>1. m + 1 \in 1 .. (k + 1) - i /\ (k + 1) - (m + 1) = k - m /\ (m + 1) % 2 = 1
    BY <1>7
  <2>2. From0(m + 1, k + 1)
    <3>1. \A j \in k - m .. (k + 1) - 1 : j = k \/ j \in k - m .. k - 1
      OBVIOUS
    <3> QED
      BY <1>4, <1>7, <2>1, <3>1
  <2> HIDE DEF From0
  <2> QED
    BY <1>2, <2>1, <2>2
<1>8. m % 2 = 0 \/ m % 2 = 1
  OBVIOUS
<1> HIDE DEF From0
<1> QED
  BY <1>1, <1>5, <1>6, <1>7, <1>8

(* From the place j, which is not escaped, a quoted string that starts at i *)
(* ends at e.                                                               *)
InsideAt(s, i, j, e) ==
  /\ j < e
  /\ \A k \in j .. e - 1 : s[k] \in Printable
  /\ \A k \in j .. e - 1 : k = e - 1 <=> s[k] = Quote /\ ~EscapedAt(s, i, k)

(* IsQuoted, of the text from i to e.                                       *)
QuotedAt(s, i, e) == s[i] = Quote /\ InsideAt(s, i, i + 1, e)

(* The same of the piece.                                                   *)
LEMMA QuotedPiece ==
  ASSUME NEW C, NEW s \in Seq(C), NEW i \in 1 .. Len(s) + 1, NEW e \in i .. Len(s) + 1
  PROVE  IsQuoted(SubSeq(s, i, e - 1)) <=> QuotedAt(s, i, e)
<1>1. Len(s) \in Nat /\ Quote \in Printable
  BY CharsAssumption
<1> DEFINE t == SubSeq(s, i, e - 1)
<1>2. /\ Len(t) = e - i /\ DOMAIN t = 1 .. e - i
      /\ \A k \in 1 .. e - i : t[k] = s[k + i - 1]
      /\ \A k \in i .. e - 1 : t[k - i + 1] = s[k] /\ k - i + 1 \in 1 .. e - i
  BY Piece
<1>3. \A k \in i .. e : Escaped(t, k - i + 1) <=> EscapedAt(s, i, k)
  BY EscapedPiece
<1> HIDE DEF t
<1>4. Len(t) > 1 <=> i + 1 < e
  BY <1>1, <1>2
<1>5. CASE i + 1 < e
  <2>1. t[1] = s[i]
    <3>1. 1 \in 1 .. e - i /\ 1 + i - 1 = i
      BY <1>1, <1>5
    <3> QED
      BY <1>2, <3>1
  <2>2. s[i] = Quote =>
          ((\A k \in DOMAIN t : t[k] \in Printable) <=> \A k \in i + 1 .. e - 1 : s[k] \in Printable)
    <3> SUFFICES ASSUME s[i] = Quote
                 PROVE  (\A k \in DOMAIN t : t[k] \in Printable) <=> \A k \in i + 1 .. e - 1 : s[k] \in Printable
      OBVIOUS
    <3>1. ASSUME \A k \in DOMAIN t : t[k] \in Printable, NEW k \in i + 1 .. e - 1
          PROVE  s[k] \in Printable
      <4>1. k \in i .. e - 1
        BY <1>1
      <4> QED
        BY <1>2, <3>1, <4>1
    <3>2. ASSUME \A k \in i + 1 .. e - 1 : s[k] \in Printable, NEW k \in DOMAIN t
          PROVE  t[k] \in Printable
      <4>1. k + i - 1 = i \/ k + i - 1 \in i + 1 .. e - 1
        BY <1>1, <1>2
      <4> QED
        BY <1>1, <1>2, <3>2, <4>1
    <3> QED
      BY <3>1, <3>2
  <2> DEFINE Last(k) == k = e - 1 <=> s[k] = Quote /\ ~EscapedAt(s, i, k)
             End(k) == k = Len(t) <=> t[k] = Quote /\ ~Escaped(t, k)
  <2>3. ASSUME NEW k \in i + 1 .. e - 1
        PROVE  k - i + 1 \in 2 .. Len(t) /\ (End(k - i + 1) <=> Last(k))
    <3>1. k \in i .. e - 1 /\ k \in i .. e /\ k - i + 1 \in 2 .. Len(t)
      BY <1>1, <1>2
    <3>2. k - i + 1 = Len(t) <=> k = e - 1
      BY <1>1, <1>2
    <3> QED
      BY <1>2, <1>3, <3>1, <3>2
  <2>4. ASSUME NEW k \in 2 .. Len(t)
        PROVE  k + i - 1 \in i + 1 .. e - 1 /\ (k + i - 1) - i + 1 = k
    BY <1>1, <1>2
  <2> HIDE DEF Last, End
  <2>5. (\A k \in 2 .. Len(t) : End(k)) <=> \A k \in i + 1 .. e - 1 : Last(k)
    <3>1. ASSUME \A k \in 2 .. Len(t) : End(k), NEW k \in i + 1 .. e - 1 PROVE Last(k)
      BY <2>3, <3>1
    <3>2. ASSUME \A k \in i + 1 .. e - 1 : Last(k), NEW k \in 2 .. Len(t) PROVE End(k)
      <4> DEFINE q == k + i - 1
      <4>1. q \in i + 1 .. e - 1 /\ q - i + 1 = k
        BY <2>4
      <4> HIDE DEF q
      <4>2. End(q - i + 1)
        BY <2>3, <3>2, <4>1
      <4> QED
        BY <4>1, <4>2
    <3> QED
      BY <3>1, <3>2
  <2>6. QuotedAt(s, i, e) <=> /\ s[i] = Quote /\ \A k \in i + 1 .. e - 1 : s[k] \in Printable
                              /\ \A k \in i + 1 .. e - 1 : Last(k)
    BY <1>5 DEF QuotedAt, InsideAt, Last
  <2>7. IsQuoted(t) <=> /\ t[1] = Quote /\ \A k \in DOMAIN t : t[k] \in Printable
                        /\ \A k \in 2 .. Len(t) : End(k)
    BY <1>4, <1>5 DEF IsQuoted, End
  <2> QED
    BY <2>1, <2>2, <2>5, <2>6, <2>7 DEF t
<1>6. CASE ~(i + 1 < e)
  BY <1>4, <1>6 DEF QuotedAt, InsideAt, IsQuoted, t
<1> QED
  BY <1>5, <1>6

(* The step of the recursion of QuotedString.                               *)
InsideStep(s, f, j) ==
  IF At(s, j, Quote) THEN j + 1
  ELSE IF At(s, j, Backslash) /\ Among(s, j + 1, Printable) THEN f[j + 2]
  ELSE IF Among(s, j, Qtext) THEN f[j + 1]
  ELSE Bad

(* The recursion of QuotedString has a solution.                            *)
LEMMA InsideSolved ==
  ASSUME NEW C, NEW s \in Seq(C)
  PROVE  \E f : /\ \A j \in 1 .. Len(s) + 2 : f[j] = InsideStep(s, f, j)
                /\ \A i : QuotedString(s, i) = IF At(s, i, Quote) THEN f[i + 1] ELSE Bad
<1>1. Len(s) \in Nat /\ DOMAIN s = 1 .. Len(s)
  OBVIOUS
<1> DEFINE n == Len(s) + 2
           two(j) == At(s, j, Backslash) /\ Among(s, j + 1, Printable)
           jump == [j \in 1 .. n |-> IF At(s, j, Quote) THEN 0
                                     ELSE IF two(j) THEN j + 2
                                     ELSE IF Among(s, j, Qtext) THEN j + 1 ELSE 0]
           val == [j \in 1 .. n |-> IF At(s, j, Quote) THEN j + 1 ELSE 0]
           same == [v \in Nat |-> v]
           add == [j \in 1 .. n |-> same]
<1>2. jump \in [1 .. n -> 0 .. n] /\ val \in [1 .. n -> Nat]
  BY <1>1 DEF At, Among
<1>3. same \in [Nat -> Nat]
  OBVIOUS
<1>4. add \in [1 .. n -> [Nat -> Nat]]
  <2> HIDE DEF same
  <2> QED
    BY <1>3
<1>5. PICK f : Solved(f, 1, n, Nat, jump, val, add)
  <2> HIDE DEF jump, val, add, n
  <2>1. 1 \in Nat /\ n \in Nat
    BY <1>1 DEF n
  <2>2. Jumps(1, n, Nat, jump, val, add)
    BY <1>2, <1>4 DEF Jumps
  <2> QED
    BY <2>1, <2>2, JumpsEnd
<1>6. /\ f \in [1 .. n -> Nat]
      /\ \A j \in 1 .. n : f[j] = IF jump[j] > j THEN add[j][f[jump[j]]] ELSE val[j]
  <2> HIDE DEF jump, val, add, n
  <2> QED
    BY <1>5 DEF Solved
<1>7. ASSUME NEW j \in 1 .. n PROVE f[j] = InsideStep(s, f, j)
  <2>1. f[j] = IF jump[j] > j THEN add[j][f[jump[j]]] ELSE val[j]
    BY <1>6
  <2>2. ASSUME NEW k \in {j + 1, j + 2}, jump[j] = k PROVE f[j] = f[k]
    <3>1. k \in 1 .. n /\ k > j
      BY <1>2, <2>2
    <3>2. f[k] \in Nat
      BY <1>6, <3>1
    <3>3. add[j][f[k]] = f[k]
      BY <3>2
    <3> HIDE DEF jump, val, add
    <3> QED
      BY <2>1, <2>2, <3>1, <3>3
  <2>3. jump[j] = 0 => f[j] = val[j]
    <3> HIDE DEF jump, val, add
    <3> QED
      BY <1>1, <2>1
  <2>4. CASE At(s, j, Quote)
    <3>1. jump[j] = 0 /\ val[j] = j + 1
      BY <2>4
    <3> QED
      BY <2>3, <2>4, <3>1 DEF InsideStep
  <2>5. CASE ~At(s, j, Quote) /\ two(j)
    <3>1. jump[j] = j + 2
      BY <2>5
    <3> QED
      BY <2>2, <2>5, <3>1 DEF InsideStep
  <2>6. CASE ~At(s, j, Quote) /\ ~two(j) /\ Among(s, j, Qtext)
    <3>1. jump[j] = j + 1
      BY <2>6
    <3> QED
      BY <2>2, <2>6, <3>1 DEF InsideStep
  <2>7. CASE ~At(s, j, Quote) /\ ~two(j) /\ ~Among(s, j, Qtext)
    <3>1. jump[j] = 0 /\ val[j] = 0
      BY <2>7
    <3> QED
      BY <2>3, <2>7, <3>1 DEF InsideStep, Bad
  <2> HIDE DEF two
  <2> QED
    BY <2>4, <2>5, <2>6, <2>7
<1> HIDE DEF jump, val, add, same
<1>8. f = [j \in 1 .. Len(s) + 2 |-> InsideStep(s, f, j)]
  BY <1>6, <1>7
<1> DEFINE g == CHOOSE h : h = [j \in 1 .. Len(s) + 2 |->
             IF At(s, j, Quote) THEN j + 1
             ELSE IF At(s, j, Backslash) /\ Among(s, j + 1, Printable) THEN h[j + 2]
             ELSE IF Among(s, j, Qtext) THEN h[j + 1]
             ELSE Bad]
<1>9. g = [j \in 1 .. Len(s) + 2 |-> InsideStep(s, g, j)]
  <2> HIDE DEF n
  <2> QED
    BY <1>8 DEF InsideStep
<1>10. \A i : QuotedString(s, i) = IF At(s, i, Quote) THEN g[i + 1] ELSE Bad
  BY DEF QuotedString
<1> HIDE DEF g
<1>11. \A j \in 1 .. Len(s) + 2 : g[j] = InsideStep(s, g, j)
  BY <1>9
<1> QED
  BY <1>10, <1>11

(* Where the inside of a quoted string ends.                                *)
LEMMA InsideEnds ==
  ASSUME NEW C, NEW s \in Seq(C), NEW f,
         \A j \in 1 .. Len(s) + 2 : f[j] = InsideStep(s, f, j),
         NEW i \in 1 .. Len(s), NEW q \in i + 1 .. Len(s) + 1, ~EscapedAt(s, i, q)
  PROVE  /\ f[q] \in 0 .. Len(s) + 1
         /\ \A e \in 1 .. Len(s) + 1 : f[q] = e <=> InsideAt(s, i, q, e)
<1>1. Len(s) \in Nat /\ DOMAIN s = 1 .. Len(s)
  OBVIOUS
<1> DEFINE n == Len(s) + 2
           E(j) == EscapedAt(s, i, j)
           Right(j) == /\ f[j] \in 0 .. Len(s) + 1
                       /\ \A e \in 1 .. Len(s) + 1 : f[j] = e <=> InsideAt(s, i, j, e)
           T == {j \in 0 .. n : j > i /\ ~E(j) => Right(j)}
<1>2. ASSUME NEW j \in 0 .. n, \A k \in j + 1 .. n : k \in T PROVE j \in T
  <2> SUFFICES ASSUME j > i, ~E(j) PROVE Right(j)
    OBVIOUS
  <2>1. j \in 1 .. n /\ j \in Nat /\ i \in Nat /\ i <= j /\ i <= j + 1
    BY <1>1
  <2>2. f[j] = InsideStep(s, f, j)
    BY <2>1
  <2>3. E(j + 1) <=> s[j] = Backslash
    BY <2>1, EscapedStep
  <2>4. E(j + 2) <=> s[j + 1] = Backslash /\ ~E(j + 1)
    <3>1. E((j + 1) + 1) <=> s[j + 1] = Backslash /\ ~E(j + 1)
      <4>1. j + 1 \in Nat
        BY <2>1
      <4> QED
        BY <2>1, <4>1, EscapedStep
    <3> QED
      BY <2>1, <3>1
  <2>5. \A k \in {j + 1, j + 2} : k \in 0 .. n /\ ~E(k) => Right(k)
    <3> SUFFICES ASSUME NEW k \in {j + 1, j + 2}, k \in 0 .. n, ~E(k) PROVE Right(k)
      OBVIOUS
    <3>1. k \in j + 1 .. n /\ k > i
      BY <1>1, <2>1
    <3>2. k \in T
      BY <1>2, <3>1
    <3> HIDE DEF Right, E
    <3> QED
      BY <3>1, <3>2
  <2>6. Quote # Backslash /\ Quote \in Printable /\ Backslash \in Printable
    BY CharsAssumption DEF Quote, Backslash
  <2> HIDE DEF E
  <2>7. CASE At(s, j, Quote)
    <3>1. f[j] = j + 1 /\ j \in 1 .. Len(s) /\ s[j] = Quote
      BY <1>1, <2>2, <2>7 DEF InsideStep, At
    <3>2. ASSUME NEW e \in 1 .. Len(s) + 1, InsideAt(s, i, j, e) PROVE e = j + 1
      <4>1. j \in j .. e - 1
        BY <1>1, <2>1, <3>2 DEF InsideAt
      <4>2. j = e - 1
        BY <3>1, <3>2, <4>1 DEF InsideAt, E
      <4> QED
        BY <2>1, <4>2
    <3>3. InsideAt(s, i, j, j + 1)
      <4>1. \A k \in j .. (j + 1) - 1 : k = j /\ k = (j + 1) - 1
        BY <2>1
      <4> QED
        BY <2>1, <2>6, <3>1, <4>1 DEF InsideAt, E
    <3> QED
      BY <1>1, <3>1, <3>2, <3>3
  <2>8. CASE At(s, j, Backslash) /\ Among(s, j + 1, Printable)
    <3>1. /\ f[j] = f[j + 2] /\ j \in 1 .. Len(s) /\ s[j] = Backslash
          /\ j + 1 \in 1 .. Len(s) /\ s[j + 1] \in Printable
      BY <1>1, <2>1, <2>2, <2>6, <2>8 DEF InsideStep, At, Among
    <3>2. E(j + 1) /\ ~E(j + 2)
      BY <2>3, <2>4, <3>1
    <3>3. Right(j + 2)
      <4>1. j + 2 \in {j + 1, j + 2} /\ j + 2 \in 0 .. n
        BY <1>1, <3>1
      <4> HIDE DEF Right
      <4> QED
        BY <2>5, <3>2, <4>1
    <3>4. ASSUME NEW e \in 1 .. Len(s) + 1 PROVE InsideAt(s, i, j, e) <=> InsideAt(s, i, j + 2, e)
      <4>1. ASSUME InsideAt(s, i, j, e) PROVE InsideAt(s, i, j + 2, e)
        <5>1. j \in j .. e - 1
          BY <1>1, <2>1, <4>1 DEF InsideAt
        <5>2. j # e - 1
          BY <2>6, <3>1, <4>1, <5>1 DEF InsideAt
        <5>3. j + 1 \in j .. e - 1
          BY <2>1, <5>1, <5>2
        <5>4. j + 1 # e - 1
          BY <3>2, <4>1, <5>3 DEF InsideAt, E
        <5>5. j + 2 < e /\ \A k \in j + 2 .. e - 1 : k \in j .. e - 1
          BY <2>1, <5>3, <5>4
        <5> QED
          BY <4>1, <5>5 DEF InsideAt
      <4>2. ASSUME InsideAt(s, i, j + 2, e) PROVE InsideAt(s, i, j, e)
        <5>1. j + 2 < e /\ j < e
          BY <2>1, <4>2 DEF InsideAt
        <5>2. \A k \in j .. e - 1 : \/ k \in j + 2 .. e - 1
                                    \/ k = j /\ k # e - 1
                                    \/ k = j + 1 /\ k # e - 1
          BY <2>1, <5>1
        <5>3. \A k \in j .. e - 1 : s[k] \in Printable
          BY <2>6, <3>1, <4>2, <5>2 DEF InsideAt
        <5>4. \A k \in j .. e - 1 : k = e - 1 <=> s[k] = Quote /\ ~EscapedAt(s, i, k)
          BY <2>6, <3>1, <3>2, <4>2, <5>2 DEF InsideAt, E
        <5> QED
          BY <5>1, <5>3, <5>4 DEF InsideAt
      <4> QED
        BY <4>1, <4>2
    <3> QED
      BY <3>1, <3>3, <3>4
  <2>9. CASE ~At(s, j, Quote) /\ ~At(s, j, Backslash) /\ Among(s, j, Qtext)
    <3>1. /\ f[j] = f[j + 1] /\ j \in 1 .. Len(s) /\ s[j] # Backslash /\ s[j] # Quote
          /\ s[j] \in Printable
      BY <1>1, <2>1, <2>2, <2>9 DEF InsideStep, At, Among, Qtext
    <3>2. ~E(j + 1)
      BY <2>3, <3>1
    <3>3. Right(j + 1)
      <4>1. j + 1 \in {j + 1, j + 2} /\ j + 1 \in 0 .. n
        BY <1>1, <3>1
      <4> HIDE DEF Right
      <4> QED
        BY <2>5, <3>2, <4>1
    <3>4. ASSUME NEW e \in 1 .. Len(s) + 1 PROVE InsideAt(s, i, j, e) <=> InsideAt(s, i, j + 1, e)
      <4>1. ASSUME InsideAt(s, i, j, e) PROVE InsideAt(s, i, j + 1, e)
        <5>1. j \in j .. e - 1
          BY <1>1, <2>1, <4>1 DEF InsideAt
        <5>2. j # e - 1
          BY <3>1, <4>1, <5>1 DEF InsideAt
        <5>3. j + 1 < e /\ \A k \in j + 1 .. e - 1 : k \in j .. e - 1
          BY <2>1, <5>1, <5>2
        <5> QED
          BY <4>1, <5>3 DEF InsideAt
      <4>2. ASSUME InsideAt(s, i, j + 1, e) PROVE InsideAt(s, i, j, e)
        <5>1. j + 1 < e /\ j < e
          BY <2>1, <4>2 DEF InsideAt
        <5>2. \A k \in j .. e - 1 : k \in j + 1 .. e - 1 \/ (k = j /\ k # e - 1)
          BY <2>1, <5>1
        <5>3. \A k \in j .. e - 1 : s[k] \in Printable
          BY <3>1, <4>2, <5>2 DEF InsideAt
        <5>4. \A k \in j .. e - 1 : k = e - 1 <=> s[k] = Quote /\ ~EscapedAt(s, i, k)
          BY <3>1, <4>2, <5>2 DEF InsideAt
        <5> QED
          BY <5>1, <5>3, <5>4 DEF InsideAt
      <4> QED
        BY <4>1, <4>2
    <3> QED
      BY <3>1, <3>3, <3>4
  <2>10. CASE /\ ~At(s, j, Quote) /\ ~(At(s, j, Backslash) /\ Among(s, j + 1, Printable))
              /\ ~Among(s, j, Qtext)
    <3>1. f[j] = 0
      BY <2>2, <2>10 DEF InsideStep, Bad
    <3>2. ASSUME NEW e \in 1 .. Len(s) + 1, InsideAt(s, i, j, e) PROVE FALSE
      <4>1. j \in j .. e - 1 /\ j \in 1 .. Len(s)
        BY <1>1, <2>1, <3>2 DEF InsideAt
      <4>2. s[j] \in Printable
        BY <3>2, <4>1 DEF InsideAt
      <4>3. s[j] = Backslash /\ s[j] # Quote
        BY <1>1, <2>10, <4>1, <4>2 DEF At, Among, Qtext
      <4>4. j # e - 1
        BY <3>2, <4>1, <4>3 DEF InsideAt
      <4>5. j + 1 \in j .. e - 1 /\ j + 1 \in 1 .. Len(s)
        BY <1>1, <4>1, <4>4
      <4>6. s[j + 1] \in Printable
        BY <3>2, <4>5 DEF InsideAt
      <4> QED
        BY <1>1, <2>10, <4>1, <4>3, <4>5, <4>6 DEF At, Among
    <3> QED
      BY <1>1, <3>1, <3>2
  <2>11. ~(At(s, j, Backslash) /\ Among(s, j, Qtext))
    BY DEF At, Among, Qtext
  <2> HIDE DEF Right
  <2> QED
    BY <2>7, <2>8, <2>9, <2>10, <2>11
<1>3. \A j \in 0 .. n : j \in T
  <2> HIDE DEF T
  <2>1. n \in Nat
    BY <1>1
  <2> HIDE DEF n
  <2> QED
    BY <1>2, <2>1, Downward
<1>4. q \in 0 .. n /\ q > i /\ ~E(q)
  BY <1>1
<1> HIDE DEF Right
<1>5. Right(q)
  BY <1>3, <1>4
<1> QED
  BY <1>5 DEF Right

(* Where a quoted string ends.                                              *)
LEMMA QuotedEnds ==
  ASSUME NEW C, NEW s \in Seq(C), NEW i \in 0 .. Len(s) + 1
  PROVE  /\ QuotedString(s, i) \in 0 .. Len(s) + 1
         /\ i = 0 => QuotedString(s, i) = 0
         /\ i # 0 => \A e \in 1 .. Len(s) + 1 :
                       QuotedString(s, i) = e <=> i <= Len(s) /\ QuotedAt(s, i, e)
<1>1. Len(s) \in Nat /\ DOMAIN s = 1 .. Len(s)
  OBVIOUS
<1>2. PICK f : /\ \A j \in 1 .. Len(s) + 2 : f[j] = InsideStep(s, f, j)
               /\ \A j : QuotedString(s, j) = IF At(s, j, Quote) THEN f[j + 1] ELSE Bad
  BY InsideSolved
<1>3. QuotedString(s, i) = IF At(s, i, Quote) THEN f[i + 1] ELSE 0
  BY <1>2 DEF Bad
<1>4. CASE At(s, i, Quote)
  <2>1. i \in 1 .. Len(s) /\ s[i] = Quote /\ i + 1 \in i + 1 .. Len(s) + 1
    BY <1>1, <1>4 DEF At
  <2>2. ~EscapedAt(s, i, i + 1)
    <3>1. Quote # Backslash
      BY DEF Quote, Backslash
    <3>2. i \in Nat /\ i <= i
      BY <2>1
    <3> QED
      BY <2>1, <3>1, <3>2, EscapedStep
  <2>3. /\ f[i + 1] \in 0 .. Len(s) + 1
        /\ \A e \in 1 .. Len(s) + 1 : f[i + 1] = e <=> InsideAt(s, i, i + 1, e)
    BY <1>2, <2>1, <2>2, InsideEnds
  <2> QED
    BY <1>1, <1>3, <1>4, <2>1, <2>3 DEF QuotedAt
<1>5. CASE ~At(s, i, Quote)
  <2>1. i # 0 /\ i <= Len(s) => s[i] # Quote
    BY <1>1, <1>5 DEF At
  <2> QED
    BY <1>1, <1>3, <1>5, <2>1 DEF QuotedAt
<1> QED
  BY <1>4, <1>5

(* Where a local part ends.                                                 *)
LEMMA LocalEnds ==
  ASSUME NEW C, NEW s \in Seq(C), NEW i \in 0 .. Len(s) + 1
  PROVE  /\ LocalPart(s, i) \in 0 .. Len(s) + 1
         /\ i = 0 => LocalPart(s, i) = 0
         /\ i # 0 => \A e \in 1 .. Len(s) + 1 :
                       LocalPart(s, i) = e <=>
                         /\ (i <= Len(s) /\ QuotedAt(s, i, e)) \/ AtomsAt(s, i, e)
                         /\ e - i <= LocalMax
<1>1. Len(s) \in Nat /\ DOMAIN s = 1 .. Len(s) /\ LocalMax \in Nat
  BY LimitsAssumption
<1>2. PICK f : /\ \A j \in 0 .. Len(s) + 1 : f[j] = AtomsStep(s, f, j)
               /\ \A j : LocalPart(s, j) =
                           Within(LocalMax, j, IF QuotedString(s, j) # Bad THEN QuotedString(s, j) ELSE f[j])
  BY AtomsSolved
<1>3. /\ f[0] = 0
      /\ i # 0 => /\ f[i] \in 0 .. Len(s) + 1
                  /\ \A e \in 1 .. Len(s) + 1 : f[i] = e <=> AtomsAt(s, i, e)
  <2>1. i # 0 => i \in 1 .. Len(s) + 1
    BY <1>1
  <2> QED
    BY <1>2, <2>1, AtomsEnd
<1> DEFINE q == QuotedString(s, i)
           x == IF q # 0 THEN q ELSE f[i]
<1>4. LocalPart(s, i) = IF x = 0 \/ x - i > LocalMax THEN 0 ELSE x
  BY <1>2 DEF Within, Bad
<1>5. /\ q \in 0 .. Len(s) + 1
      /\ i = 0 => q = 0
      /\ i # 0 => \A e \in 1 .. Len(s) + 1 : q = e <=> i <= Len(s) /\ QuotedAt(s, i, e)
  BY QuotedEnds
<1> HIDE DEF q
<1>6. CASE i = 0
  BY <1>1, <1>3, <1>4, <1>5, <1>6
<1>7. CASE i # 0
  <2>1. x \in 0 .. Len(s) + 1
    BY <1>3, <1>5, <1>7
  <2>2. ASSUME NEW e \in 1 .. Len(s) + 1
        PROVE  x = e <=> (i <= Len(s) /\ QuotedAt(s, i, e)) \/ AtomsAt(s, i, e)
    <3>1. CASE q = 0
      BY <1>3, <1>5, <1>7, <3>1
    <3>2. CASE q # 0
      <4>1. i <= Len(s) /\ QuotedAt(s, i, q) /\ q \in 1 .. Len(s) + 1
        BY <1>1, <1>5, <1>7, <3>2
      <4>2. s[i] = Quote
        BY <4>1 DEF QuotedAt
      <4>3. Quote \notin Atext \cup {"."}
        BY MarksApart DEF Marks, Quote
      <4>4. ~AtomsAt(s, i, e)
        <5> SUFFICES ASSUME AtomsAt(s, i, e) PROVE FALSE
          OBVIOUS
        <5>1. i \in i .. e - 1
          BY <1>1, <1>7 DEF AtomsAt, DottedAt
        <5> QED
          BY <4>2, <4>3, <5>1 DEF AtomsAt, DottedAt
      <4> QED
        BY <1>5, <1>7, <3>2, <4>4
    <3> QED
      BY <3>1, <3>2
  <2> HIDE DEF x
  <2> QED
    BY <1>1, <1>4, <1>7, <2>1, <2>2
<1> QED
  BY <1>6, <1>7

(* Before an at sign a local part is one of the grammar.                    *)
LEMMA LocalBefore ==
  ASSUME NEW C, NEW s \in Seq(C), NEW i \in 1 .. Len(s) + 1, NEW e \in 1 .. Len(s), s[e] = "@"
  PROVE  LocalPart(s, i) = e <=> i <= e /\ IsLocal(SubSeq(s, i, e - 1))
<1>1. Len(s) \in Nat /\ e \in 1 .. Len(s) + 1 /\ ~(e > Len(s)) /\ i \in 0 .. Len(s) + 1 /\ i # 0
  OBVIOUS
<1>2. LocalPart(s, i) = e <=>
        /\ (i <= Len(s) /\ QuotedAt(s, i, e)) \/ AtomsAt(s, i, e)
        /\ e - i <= LocalMax
  BY <1>1, LocalEnds
<1>3. "@" \notin Atext \cup {"."}
  BY MarksApart DEF Marks
<1>4. AtomsAt(s, i, e) <=> DottedAt(s, i, e, Atext)
  BY <1>1, <1>3 DEF AtomsAt, Stops
<1>5. DottedAt(s, i, e, Atext) \/ QuotedAt(s, i, e) => i <= e /\ i <= Len(s)
  BY <1>1 DEF DottedAt, QuotedAt, InsideAt
<1>6. CASE i <= e
  <2>1. e \in i .. Len(s) + 1
    BY <1>1, <1>6
  <2>2. Dotted(SubSeq(s, i, e - 1), Atext) <=> DottedAt(s, i, e, Atext)
    BY <2>1, DottedPiece
  <2>3. IsQuoted(SubSeq(s, i, e - 1)) <=> QuotedAt(s, i, e)
    BY <2>1, QuotedPiece
  <2>4. Len(SubSeq(s, i, e - 1)) = e - i
    BY <2>1, Piece
  <2> QED
    BY <1>2, <1>4, <1>5, <1>6, <2>2, <2>3, <2>4 DEF IsLocal
<1> QED
  BY <1>2, <1>4, <1>5, <1>6

-----------------------------------------------------------------------------
(* Source routes                                                            *)

(* A piece of a piece is a piece.                                           *)
LEMMA PieceOfPiece ==
  ASSUME NEW C, NEW s \in Seq(C), NEW i \in 1 .. Len(s) + 1, NEW e \in i .. Len(s) + 1,
         NEW p \in 1 .. e - i + 1, NEW q \in p .. e - i + 1
  PROVE  SubSeq(SubSeq(s, i, e - 1), p, q - 1) = SubSeq(s, p + i - 1, q + i - 2)
<1>1. Len(s) \in Nat
  OBVIOUS
<1> DEFINE t == SubSeq(s, i, e - 1)
           u == SubSeq(t, p, q - 1)
           a == p + i - 1
           b == q + i - 1
           v == SubSeq(s, a, b - 1)
<1>2. t \in Seq(C) /\ Len(t) = e - i /\ \A k \in 1 .. e - i : t[k] = s[k + i - 1]
  BY Piece
<1> HIDE DEF t
<1>3. u \in Seq(C) /\ Len(u) = q - p /\ DOMAIN u = 1 .. q - p /\ \A k \in 1 .. q - p : u[k] = t[k + p - 1]
  <2>1. p \in 1 .. Len(t) + 1 /\ q \in p .. Len(t) + 1
    BY <1>2
  <2> QED
    BY <1>2, <2>1, Piece
<1>4. v \in Seq(C) /\ Len(v) = b - a /\ DOMAIN v = 1 .. b - a /\ \A k \in 1 .. b - a : v[k] = s[k + a - 1]
  <2>1. a \in 1 .. Len(s) + 1 /\ b \in a .. Len(s) + 1
    BY <1>1
  <2> HIDE DEF a, b
  <2> QED
    BY <2>1, Piece
<1> HIDE DEF u, v
<1>5. b - a = q - p /\ b - 1 = q + i - 2
  BY <1>1
<1>6. \A k \in 1 .. q - p : k + p - 1 \in 1 .. e - i /\ (k + p - 1) + i - 1 = k + a - 1
  BY <1>1
<1>7. \A k \in 1 .. q - p : u[k] = v[k]
  BY <1>2, <1>3, <1>4, <1>5, <1>6
<1>8. u = v
  BY <1>3, <1>4, <1>5, <1>7, SeqEqual
<1> QED
  BY <1>5, <1>8 DEF u, v, t

(* An at sign and a domain, from i to b.                                    *)
Hop(s, i, b) == At(s, i, "@") /\ i + 1 < b /\ IsDomain(SubSeq(s, i + 1, b - 1))

(* What cuts the text from i to e into hops: the commas and both ends.      *)
Cuts(s, i, e) == {i - 1, e - 1} \cup {k \in i .. e - 1 : s[k] = Comma}

(* IsRoute, of the text between two places.                                 *)
RouteAt(s, i, e) ==
  /\ i < e /\ s[e - 1] = ":"
  /\ \A a, b \in Cuts(s, i, e) :
       a < b /\ (\A c \in Cuts(s, i, e) : c <= a \/ c >= b) => Hop(s, a + 1, b)

(* A domain is not empty.                                                   *)
LEMMA DomainNotEmpty ==
  ASSUME NEW C, NEW s \in Seq(C), NEW i \in 1 .. Len(s) + 1, NEW e \in i .. Len(s) + 1,
         IsDomain(SubSeq(s, i, e - 1))
  PROVE  i < e /\ \A k \in i .. e - 1 : s[k] \in Label \cup {"."}
<1>1. DottedAt(s, i, e, Label)
  BY DottedPiece DEF IsDomain
<1> QED
  BY <1>1 DEF DottedAt

(* A route of the grammar is empty or a RouteAt.                            *)
LEMMA RoutePiece ==
  ASSUME NEW C, NEW s \in Seq(C), NEW i \in 1 .. Len(s) + 1, NEW e \in i .. Len(s) + 1
  PROVE  IsRoute(SubSeq(s, i, e - 1)) <=> e = i \/ RouteAt(s, i, e)
<1>1. Len(s) \in Nat /\ DOMAIN s = 1 .. Len(s)
  OBVIOUS
<1> DEFINE t == SubSeq(s, i, e - 1)
<1>2. /\ t \in Seq(C) /\ Len(t) = e - i /\ DOMAIN t = 1 .. e - i
      /\ \A k \in 1 .. e - i : t[k] = s[k + i - 1]
      /\ \A k \in i .. e - 1 : t[k - i + 1] = s[k] /\ k - i + 1 \in 1 .. e - i
  BY Piece, SMTT(30)
<1>3. \A p, q : p \in 1 .. e - i + 1 /\ q \in p .. e - i + 1 =>
                  SubSeq(t, p, q - 1) = SubSeq(s, p + i - 1, q + i - 2)
  BY PieceOfPiece
<1> HIDE DEF t
<1>4. CASE e = i
  <2>1. t = <<>>
    BY <1>2, <1>4
  <2> QED
    BY <1>1, <1>4, <2>1 DEF IsRoute, t
<1>5. CASE i < e
  <2> DEFINE cuts == {0, Len(t)} \cup {k \in DOMAIN t : t[k] = Comma}
             here == Cuts(s, i, e)
             good(a, b) == b > a + 1 /\ t[a + 1] = "@" /\ IsDomain(SubSeq(t, a + 2, b - 1))
  <2>1. t # <<>> /\ (t[Len(t)] = ":" <=> s[e - 1] = ":")
    <3>1. e - i \in 1 .. e - i /\ (e - i) + i - 1 = e - 1
      BY <1>1, <1>5
    <3> QED
      BY <1>2, <3>1
  <2>2. \A a : a \in cuts <=> a \in Int /\ a + i - 1 \in here
    <3>1. ASSUME NEW a \in cuts PROVE a \in Int /\ a + i - 1 \in here
      <4>1. a = 0 \/ a = e - i \/ (a \in 1 .. e - i /\ t[a] = Comma)
        BY <1>2
      <4>2. CASE a = 0
        BY <1>1, <4>2 DEF Cuts
      <4>3. CASE a = e - i
        <5>1. a + i - 1 = e - 1
          BY <1>1, <4>3
        <5> QED
          BY <1>1, <4>3, <5>1 DEF Cuts
      <4>4. CASE a \in 1 .. e - i /\ t[a] = Comma
        <5>1. a + i - 1 \in i .. e - 1 /\ s[a + i - 1] = Comma
          BY <1>1, <1>2, <4>4
        <5> QED
          BY <4>4, <5>1 DEF Cuts
      <4> QED
        BY <4>1, <4>2, <4>3, <4>4
    <3>2. ASSUME NEW a \in Int, a + i - 1 \in here PROVE a \in cuts
      <4>1. a = 0 \/ a = e - i \/ (a + i - 1 \in i .. e - 1 /\ s[a + i - 1] = Comma)
        BY <1>1, <3>2 DEF Cuts
      <4>2. CASE a + i - 1 \in i .. e - 1 /\ s[a + i - 1] = Comma
        <5>1. a \in 1 .. e - i
          BY <1>1, <4>2
        <5> QED
          BY <1>2, <4>2, <5>1
      <4> QED
        BY <1>2, <4>1, <4>2
    <3> QED
      BY <3>1, <3>2
  <2>3. \A a \in cuts : a \in 0 .. e - i
    BY <1>1, <1>2
  <2>4. \A a \in here : a \in i - 1 .. e - 1
    BY <1>1, <1>5 DEF Cuts
  <2> HIDE DEF cuts, here
  <2>5. ASSUME NEW a \in cuts, NEW b \in cuts, a < b
        PROVE  good(a, b) <=> Hop(s, (a + i - 1) + 1, b + i - 1)
    <3>1. a \in 0 .. e - i /\ b \in 0 .. e - i
      BY <2>3
    <3>2. a + 1 \in 1 .. e - i /\ a + i \in 1 .. Len(s) /\ (a + 1) + i - 1 = a + i
      BY <1>1, <2>5, <3>1
    <3>3. t[a + 1] = s[a + i]
      BY <1>2, <3>2
    <3>4. CASE b > a + 1
      <4>1. a + 2 \in 1 .. e - i + 1 /\ b \in a + 2 .. e - i + 1
        BY <1>1, <3>1, <3>4
      <4>2. SubSeq(t, a + 2, b - 1) = SubSeq(s, (a + 2) + i - 1, b + i - 2)
        BY <1>3, <4>1
      <4>3. (a + 2) + i - 1 = ((a + i - 1) + 1) + 1 /\ b + i - 2 = (b + i - 1) - 1
        BY <1>1, <3>1
      <4>4. (a + i - 1) + 1 = a + i
        BY <1>1, <3>1
      <4>5. IsDomain(SubSeq(s, (a + i) + 1, (b + i - 1) - 1)) => (a + i) + 1 < b + i - 1
        <5>1. (a + i) + 1 \in 1 .. Len(s) + 1 /\ b + i - 1 \in (a + i) + 1 .. Len(s) + 1
          BY <1>1, <3>1, <3>4
        <5> QED
          BY <5>1, DomainNotEmpty
      <4> QED
        BY <1>1, <3>2, <3>3, <3>4, <4>2, <4>3, <4>4, <4>5 DEF Hop, At
    <3>5. CASE ~(b > a + 1)
      <4>1. ~(((a + i - 1) + 1) + 1 < b + i - 1)
        BY <1>1, <3>1, <3>5
      <4> QED
        BY <3>5, <4>1 DEF Hop
    <3> QED
      BY <3>4, <3>5
  <2> DEFINE next(a, b) == a < b /\ \A c \in cuts : c <= a \/ c >= b
             nextHere(a, b) == a < b /\ \A c \in here : c <= a \/ c >= b
  <2>6. ASSUME NEW a \in cuts, NEW b \in cuts
        PROVE  next(a, b) <=> nextHere(a + i - 1, b + i - 1)
    <3>1. a \in Int /\ b \in Int /\ i \in Int
      BY <2>3
    <3>2. ASSUME next(a, b), NEW c \in here PROVE c <= a + i - 1 \/ c >= b + i - 1
      <4>1. c \in Int /\ (c - i + 1) + i - 1 = c /\ c - i + 1 \in Int
        BY <2>4
      <4>2. c - i + 1 \in cuts
        BY <2>2, <4>1
      <4>3. c - i + 1 <= a \/ c - i + 1 >= b
        BY <3>2, <4>2
      <4> QED
        BY <3>1, <4>1, <4>3
    <3>3. ASSUME nextHere(a + i - 1, b + i - 1), NEW c \in cuts PROVE c <= a \/ c >= b
      <4>1. c \in Int /\ c + i - 1 \in here
        BY <2>2, <2>3
      <4>2. c + i - 1 <= a + i - 1 \/ c + i - 1 >= b + i - 1
        BY <3>3, <4>1
      <4> QED
        BY <3>1, <4>1, <4>2
    <3>4. a < b <=> a + i - 1 < b + i - 1
      BY <3>1
    <3> QED
      BY <3>2, <3>3, <3>4
  <2> HIDE DEF next, nextHere
  <2> DEFINE whole == \A a, b \in cuts : next(a, b) => good(a, b)
             wholeHere == \A a, b \in here : nextHere(a, b) => Hop(s, a + 1, b)
  <2>7. whole <=> wholeHere
    <3>1. ASSUME whole, NEW a \in here, NEW b \in here, nextHere(a, b)
          PROVE  Hop(s, a + 1, b)
      <4> DEFINE x == a - i + 1
                 y == b - i + 1
      <4>1. x \in Int /\ y \in Int /\ x + i - 1 = a /\ y + i - 1 = b /\ a \in Int /\ b \in Int
        BY <2>4
      <4> HIDE DEF x, y
      <4>2. x \in cuts /\ y \in cuts
        BY <2>2, <4>1
      <4>3. next(x, y)
        BY <2>6, <3>1, <4>1, <4>2
      <4>4. x < y
        BY <4>3 DEF next
      <4>5. good(x, y) <=> Hop(s, a + 1, b)
        BY <2>5, <4>1, <4>2, <4>4
      <4> HIDE DEF good
      <4> QED
        BY <3>1, <4>2, <4>3, <4>5
    <3>2. ASSUME wholeHere, NEW a \in cuts, NEW b \in cuts, next(a, b)
          PROVE  good(a, b)
      <4> HIDE DEF good
      <4>1. a < b
        BY <3>2 DEF next
      <4>2. a + i - 1 \in here /\ b + i - 1 \in here /\ nextHere(a + i - 1, b + i - 1)
        BY <2>2, <2>6, <3>2
      <4>3. Hop(s, (a + i - 1) + 1, b + i - 1)
        BY <3>2, <4>2
      <4> QED
        BY <2>5, <4>1, <4>3
    <3> HIDE DEF good
    <3> QED
      BY <3>1, <3>2
  <2>8. IsRoute(t) <=> t = <<>> \/ (t[Len(t)] = ":" /\ whole)
    BY DEF IsRoute, next, cuts
  <2>9. RouteAt(s, i, e) <=> i < e /\ s[e - 1] = ":" /\ wholeHere
    BY DEF RouteAt, nextHere, here
  <2> HIDE DEF whole, wholeHere
  <2> QED
    BY <1>1, <1>5, <2>1, <2>7, <2>8, <2>9 DEF t
<1> QED
  BY <1>1, <1>4, <1>5

(* The hops of a route end at commas and colons.                            *)
LEMMA RouteMarks ==
  /\ Comma \in Marks /\ ":" \in Marks /\ "@" \in Marks /\ ">" \in Marks
  /\ Comma # "." /\ Comma # ":" /\ Comma # "@"
<1>1. Comma # "." /\ Comma # ":" /\ Comma # "@"
  BY Zenon DEF Comma
<1> QED
  BY <1>1 DEF Marks

(* No hop has a comma in it.                                                *)
LEMMA HopPlain ==
  ASSUME NEW C, NEW s \in Seq(C), NEW i \in 1 .. Len(s) + 1, NEW b \in 1 .. Len(s), Hop(s, i, b)
  PROVE  i + 1 < b /\ \A k \in i .. b - 1 : s[k] # Comma
<1>1. Len(s) \in Nat
  OBVIOUS
<1>2. i + 1 < b /\ s[i] = "@" /\ IsDomain(SubSeq(s, i + 1, b - 1))
  BY DEF Hop, At
<1>3. i + 1 \in 1 .. Len(s) + 1 /\ b \in i + 1 .. Len(s) + 1
  BY <1>1, <1>2
<1>4. \A k \in i + 1 .. b - 1 : s[k] \in Label \cup {"."}
  BY <1>2, <1>3, DomainNotEmpty
<1>5. Comma \notin Label \cup {"."} /\ Comma # "@"
  BY RouteMarks, MarksApart
<1>6. \A k \in i .. b - 1 : k = i \/ k \in i + 1 .. b - 1
  BY <1>1
<1> QED
  BY <1>2, <1>4, <1>5, <1>6

(* A route is a hop and a colon, or a hop, a comma and a route.             *)
LEMMA RouteStep ==
  ASSUME NEW C, NEW s \in Seq(C), NEW i \in 1 .. Len(s) + 1, NEW e \in 1 .. Len(s) + 1
  PROVE  RouteAt(s, i, e) <=>
           \E b \in 1 .. Len(s) :
             /\ Hop(s, i, b)
             /\ \/ s[b] = ":" /\ e = b + 1
                \/ s[b] = Comma /\ RouteAt(s, b + 1, e)
<1>1. Len(s) \in Nat
  OBVIOUS
<1> DEFINE here == Cuts(s, i, e)
           next(a, b) == a < b /\ \A c \in here : c <= a \/ c >= b
<1>2. RouteAt(s, i, e) <=> /\ i < e /\ s[e - 1] = ":"
                           /\ \A a, b \in here : next(a, b) => Hop(s, a + 1, b)
  BY DEF RouteAt
<1>3. i < e => \A a \in here : a \in i - 1 .. e - 1
  BY <1>1 DEF Cuts
(* Behind a comma at b.                                                     *)
<1>4. ASSUME NEW b \in 1 .. Len(s), i < b, b + 1 < e, \A k \in i .. b - 1 : s[k] # Comma, s[b] = Comma
      PROVE  here = {i - 1} \cup Cuts(s, b + 1, e)
  <2>1. \A c : c \in i .. e - 1 /\ s[c] = Comma <=> c = b \/ (c \in b + 1 .. e - 1 /\ s[c] = Comma)
    <3>1. \A c \in i .. e - 1 : c \in i .. b - 1 \/ c = b \/ c \in b + 1 .. e - 1
      BY <1>1
    <3>2. b \in i .. e - 1 /\ \A c \in b + 1 .. e - 1 : c \in i .. e - 1
      BY <1>1, <1>4
    <3> QED
      BY <1>4, <3>1, <3>2
  <2>2. (b + 1) - 1 = b
    OBVIOUS
  <2> QED
    BY <2>1, <2>2 DEF Cuts
<1>5. ASSUME RouteAt(s, i, e)
      PROVE  \E b \in 1 .. Len(s) :
               /\ Hop(s, i, b)
               /\ \/ s[b] = ":" /\ e = b + 1
                  \/ s[b] = Comma /\ RouteAt(s, b + 1, e)
  <2>1. i < e /\ s[e - 1] = ":" /\ \A a, b \in here : next(a, b) => Hop(s, a + 1, b)
    BY <1>2, <1>5
  <2> DEFINE later == {k \in i .. e - 1 : k \in here}
  <2>2. e - 1 \in later /\ later \in SUBSET Nat
    BY <1>1, <2>1 DEF Cuts
  <2>3. PICK b \in later : \A k \in later : b <= k
    <3> HIDE DEF later
    <3> QED
      BY <2>2, Least
  <2>4. b \in 1 .. Len(s) /\ b \in i .. e - 1 /\ i - 1 \in here /\ b \in here
    BY <1>1, <2>2 DEF Cuts
  <2>5. next(i - 1, b)
    <3>1. \A c \in here : c = i - 1 \/ c \in later
      BY <1>1, <1>3, <2>1
    <3>2. i - 1 < b
      BY <1>1, <2>4
    <3> HIDE DEF later, here
    <3>3. \A c \in here : c <= i - 1 \/ c >= b
      <4> SUFFICES ASSUME NEW c \in here PROVE c <= i - 1 \/ c >= b
        OBVIOUS
      <4>1. CASE c = i - 1
        BY <4>1
      <4>2. CASE c \in later
        <5>1. b <= c
          BY <2>3, <4>2
        <5> QED
          BY <5>1
      <4> QED
        BY <3>1, <4>1, <4>2
    <3> QED
      BY <3>2, <3>3
  <2> HIDE DEF later
  <2>6. Hop(s, i, b)
    <3>1. Hop(s, (i - 1) + 1, b)
      BY <2>1, <2>4, <2>5
    <3>2. (i - 1) + 1 = i
      OBVIOUS
    <3> QED
      BY <3>1, <3>2
  <2>7. i + 1 < b /\ \A k \in i .. b - 1 : s[k] # Comma
    BY <2>4, <2>6, HopPlain
  <2>8. CASE b = e - 1
    <3>1. s[b] = ":" /\ e = b + 1
      BY <1>1, <2>1, <2>8
    <3> QED
      BY <2>4, <2>6, <3>1
  <2>9. CASE b # e - 1
    <3>1. s[b] = Comma /\ i < b /\ b + 1 < e /\ b < e /\ b # i - 1
      BY <1>1, <2>4, <2>7, <2>9 DEF Cuts
    <3>2. here = {i - 1} \cup Cuts(s, b + 1, e)
      BY <1>4, <2>4, <2>7, <3>1
    <3>3. ASSUME NEW x \in Cuts(s, b + 1, e), NEW y \in Cuts(s, b + 1, e), x < y,
                 \A c \in Cuts(s, b + 1, e) : c <= x \/ c >= y
          PROVE  Hop(s, x + 1, y)
      <4>1. x \in here /\ y \in here
        BY <3>2
      <4>2. i - 1 <= x
        BY <1>1, <1>3, <2>1, <4>1
      <4>3. next(x, y)
        BY <3>2, <3>3, <4>2
      <4> QED
        BY <2>1, <4>1, <4>3
    <3>4. RouteAt(s, b + 1, e)
      BY <2>1, <3>1, <3>3 DEF RouteAt
    <3> QED
      BY <2>4, <2>6, <3>1, <3>4
  <2> QED
    BY <2>8, <2>9
<1>6. ASSUME NEW b \in 1 .. Len(s), Hop(s, i, b), s[b] = ":", e = b + 1
      PROVE  RouteAt(s, i, e)
  <2>1. i + 1 < b /\ \A k \in i .. b - 1 : s[k] # Comma
    BY <1>6, HopPlain
  <2>2. e - 1 = b /\ i < e /\ (i - 1) + 1 = i /\ i - 1 < b
    BY <1>1, <1>6, <2>1
  <2>3. here = {i - 1, b}
    <3>1. \A k \in i .. b : k \in i .. b - 1 \/ k = b
      BY <1>1
    <3>2. s[b] # Comma
      BY <1>6, RouteMarks
    <3> QED
      BY <2>1, <2>2, <3>1, <3>2 DEF Cuts
  <2>4. ASSUME NEW x \in here, NEW y \in here, next(x, y) PROVE Hop(s, x + 1, y)
    <3>1. x = i - 1 /\ y = b
      BY <1>1, <2>2, <2>3, <2>4
    <3> QED
      BY <1>6, <2>2, <3>1
  <2> HIDE DEF next, here
  <2> QED
    BY <1>2, <1>6, <2>2, <2>4
<1>7. ASSUME NEW b \in 1 .. Len(s), Hop(s, i, b), s[b] = Comma, RouteAt(s, b + 1, e)
      PROVE  RouteAt(s, i, e)
  <2>1. i + 1 < b /\ \A k \in i .. b - 1 : s[k] # Comma
    BY <1>7, HopPlain
  <2> DEFINE rest == Cuts(s, b + 1, e)
  <2>2. /\ b + 1 < e /\ s[e - 1] = ":"
        /\ \A x, y \in rest :
             x < y /\ (\A c \in rest : c <= x \/ c >= y) => Hop(s, x + 1, y)
    BY <1>7 DEF RouteAt
  <2>3. here = {i - 1} \cup rest
    BY <1>1, <1>4, <1>7, <2>1, <2>2
  <2>4. i < e /\ b \in rest /\ \A c \in rest : c >= b /\ c \in Int
    BY <1>1, <2>1, <2>2 DEF Cuts
  <2> HIDE DEF rest, here
  <2>5. ASSUME NEW x \in here, NEW y \in here, next(x, y) PROVE Hop(s, x + 1, y)
    <3>1. CASE x = i - 1
      <4>1. y \in rest
        BY <2>3, <2>5, <3>1
      <4>2. b \in here /\ y \in here
        BY <2>3, <2>4
      <4>3. b <= x \/ b >= y
        BY <2>5, <4>2
      <4>4. y = b /\ x + 1 = i
        BY <2>1, <2>4, <3>1, <4>1, <4>3
      <4> QED
        BY <1>7, <4>4
    <3>2. CASE x \in rest
      <4>1. y \in rest
        <5> SUFFICES ASSUME y = i - 1 PROVE FALSE
          BY <2>3
        <5>1. x < i - 1 /\ x >= b /\ x \in Int
          BY <2>4, <2>5, <3>2
        <5> QED
          BY <2>1, <5>1
      <4>2. x < y /\ \A c \in rest : c <= x \/ c >= y
        BY <2>3, <2>5
      <4> QED
        BY <2>2, <3>2, <4>1, <4>2
    <3> QED
      BY <2>3, <3>1, <3>2
  <2> HIDE DEF next
  <2> QED
    BY <1>2, <2>2, <2>4, <2>5
<1> HIDE DEF here, next
<1> QED
  BY <1>5, <1>6, <1>7

(* Where an at sign and a domain end, and when that is a hop.               *)
LEMMA AtDomainEnds ==
  ASSUME NEW C, NEW s \in Seq(C), NEW i \in 1 .. Len(s) + 1
  PROVE  /\ AtDomain(s, i) \in 0 .. Len(s) + 1
         /\ AtDomain(s, i) # 0 => AtDomain(s, i) > i /\ At(s, i, "@")
         /\ \A b \in 1 .. Len(s) :
              s[b] \in {Comma, ":"} => (AtDomain(s, i) = b <=> Hop(s, i, b))
<1>1. Len(s) \in Nat /\ DOMAIN s = 1 .. Len(s)
  OBVIOUS
<1>2. CASE At(s, i, "@")
  <2>1. i \in 1 .. Len(s) /\ i + 1 \in 1 .. Len(s) + 1
    BY <1>1, <1>2 DEF At
  <2>2. AtDomain(s, i) = Domain(s, i + 1)
    BY <1>2 DEF AtDomain
  <2>3. Domain(s, i + 1) \in 0 .. Len(s) + 1
    BY <2>1, DomainEnds
  <2>4. ASSUME Domain(s, i + 1) # 0 PROVE Domain(s, i + 1) > i
    <3> DEFINE d == Domain(s, i + 1)
    <3>1. d \in 1 .. Len(s) + 1
      BY <1>1, <2>3, <2>4
    <3>2. DomainAt(s, i + 1, d)
      BY <2>1, <3>1, DomainEnds
    <3> HIDE DEF d
    <3>3. i + 1 <= d
      <4>1. i + 1 \in Nat /\ d \in Nat
        BY <2>1, <3>1
      <4> QED
        BY <3>2, <4>1, DomainAtBehind
    <3>4. d > i
      BY <2>1, <3>1, <3>3
    <3> QED
      BY <3>4 DEF d
  <2>5. ASSUME NEW b \in 1 .. Len(s), s[b] \in {Comma, ":"}
        PROVE  AtDomain(s, i) = b <=> Hop(s, i, b)
    <3>1. s[b] \in Marks /\ s[b] # "."
      BY <2>5, RouteMarks
    <3>2. Domain(s, i + 1) = b <=> i + 1 <= b /\ IsDomain(SubSeq(s, i + 1, b - 1))
      BY <2>1, <3>1, DomainBefore
    <3>3. i + 1 <= b /\ IsDomain(SubSeq(s, i + 1, b - 1)) => i + 1 < b
      <4>1. i + 1 <= b => b \in i + 1 .. Len(s) + 1
        BY <1>1, <2>1
      <4> QED
        BY <2>1, <4>1, DomainNotEmpty
    <3>4. i + 1 < b => i + 1 <= b
      BY <2>1
    <3> QED
      BY <1>2, <2>2, <3>2, <3>3, <3>4 DEF Hop
  <2> QED
    BY <1>2, <2>2, <2>3, <2>4, <2>5
<1>3. CASE ~At(s, i, "@")
  BY <1>1, <1>3 DEF AtDomain, Hop, Bad
<1> QED
  BY <1>2, <1>3

(* What hops says of a place.                                               *)
HopsStep(s, f, j) ==
  IF At(s, AtDomain(s, j), Comma) THEN f[AtDomain(s, j) + 1]
  ELSE IF At(s, AtDomain(s, j), ":") THEN AtDomain(s, j) + 1
  ELSE Bad

(* The recursion of ADL has a solution, and ADL is made of one.             *)
LEMMA HopsSolved ==
  ASSUME NEW C, NEW s \in Seq(C)
  PROVE  \E f : /\ \A j \in 1 .. Len(s) + 1 : f[j] = HopsStep(s, f, j)
                /\ \A i : ADL(s, i) = IF AtDomain(s, i) = Bad THEN i ELSE f[i]
<1>1. Len(s) \in Nat /\ DOMAIN s = 1 .. Len(s)
  OBVIOUS
<1> DEFINE n == Len(s) + 1
           d(j) == AtDomain(s, j)
           jump == [j \in 1 .. n |-> IF At(s, d(j), Comma) THEN d(j) + 1 ELSE 0]
           val == [j \in 1 .. n |-> IF At(s, d(j), ":") THEN d(j) + 1 ELSE 0]
           same == [v \in Nat |-> v]
           add == [j \in 1 .. n |-> same]
<1>2. \A j \in 1 .. n : d(j) \in 0 .. n /\ (d(j) # 0 => d(j) > j)
  BY AtDomainEnds
<1> HIDE DEF d
<1>3. jump \in [1 .. n -> 0 .. n] /\ val \in [1 .. n -> Nat]
  BY <1>1, <1>2 DEF At
<1>4. same \in [Nat -> Nat]
  OBVIOUS
<1>5. add \in [1 .. n -> [Nat -> Nat]]
  <2> HIDE DEF same
  <2> QED
    BY <1>4
<1>6. PICK f : Solved(f, 1, n, Nat, jump, val, add)
  <2> HIDE DEF jump, val, add, n
  <2>1. 1 \in Nat /\ n \in Nat
    BY <1>1 DEF n
  <2>2. Jumps(1, n, Nat, jump, val, add)
    BY <1>3, <1>5 DEF Jumps
  <2> QED
    BY <2>1, <2>2, JumpsEnd
<1>7. /\ f \in [1 .. n -> Nat]
      /\ \A j \in 1 .. n : f[j] = IF jump[j] > j THEN add[j][f[jump[j]]] ELSE val[j]
  <2> HIDE DEF jump, val, add, n
  <2> QED
    BY <1>6 DEF Solved
<1>8. ASSUME NEW j \in 1 .. n PROVE f[j] = HopsStep(s, f, j)
  <2> DEFINE r == d(j)
  <2>1. f[j] = IF jump[j] > j THEN add[j][f[jump[j]]] ELSE val[j]
    BY <1>7
  <2>2. CASE At(s, r, Comma)
    <3>1. jump[j] = r + 1
      BY <2>2
    <3>2. r + 1 \in 1 .. n /\ r + 1 > j
      <4>1. r \in 1 .. Len(s) /\ r # 0
        BY <1>1, <2>2 DEF At
      <4>2. r > j
        BY <1>2, <4>1
      <4> HIDE DEF r
      <4> QED
        BY <1>1, <4>1, <4>2
    <3>3. f[r + 1] \in Nat
      <4> HIDE DEF r
      <4> QED
        BY <1>7, <3>2
    <3>4. add[j][f[r + 1]] = f[r + 1]
      BY <3>3
    <3> HIDE DEF jump, val, add, r
    <3>5. f[j] = f[r + 1]
      BY <2>1, <3>1, <3>2, <3>4
    <3> QED
      BY <2>2, <3>5 DEF HopsStep, r, d
  <2>3. CASE ~At(s, r, Comma)
    <3>1. jump[j] = 0 /\ ~(jump[j] > j) /\ val[j] = IF At(s, r, ":") THEN r + 1 ELSE 0
      BY <2>3
    <3> HIDE DEF jump, val
    <3>2. f[j] = IF At(s, r, ":") THEN r + 1 ELSE 0
      BY <2>1, <3>1
    <3> QED
      BY <2>3, <3>2 DEF HopsStep, d, Bad
  <2> QED
    BY <2>2, <2>3
<1> HIDE DEF jump, val, add, same
<1>9. f = [j \in 1 .. Len(s) + 1 |-> HopsStep(s, f, j)]
  BY <1>7, <1>8
<1> DEFINE g == CHOOSE h : h = [j \in 1 .. Len(s) + 1 |->
             IF At(s, AtDomain(s, j), Comma) THEN h[AtDomain(s, j) + 1]
             ELSE IF At(s, AtDomain(s, j), ":") THEN AtDomain(s, j) + 1
             ELSE Bad]
<1>10. g = [j \in 1 .. Len(s) + 1 |-> HopsStep(s, g, j)]
  <2> HIDE DEF n
  <2> QED
    BY <1>9 DEF HopsStep
<1>11. \A i : ADL(s, i) = IF AtDomain(s, i) = Bad THEN i ELSE g[i]
  BY DEF ADL
<1> HIDE DEF g
<1>12. \A j \in 1 .. Len(s) + 1 : g[j] = HopsStep(s, g, j)
  BY <1>10
<1> QED
  BY <1>11, <1>12

(* Where a route ends.                                                      *)
LEMMA HopsEnd ==
  ASSUME NEW C, NEW s \in Seq(C), NEW f,
         \A j \in 1 .. Len(s) + 1 : f[j] = HopsStep(s, f, j)
  PROVE  \A i \in 1 .. Len(s) + 1 :
           /\ f[i] \in 0 .. Len(s) + 1
           /\ \A e \in 1 .. Len(s) + 1 : f[i] = e <=> RouteAt(s, i, e)
<1>1. Len(s) \in Nat /\ DOMAIN s = 1 .. Len(s)
  OBVIOUS
<1> DEFINE n == Len(s) + 1
           Right(j) == f[j] \in 0 .. n /\ \A e \in 1 .. n : f[j] = e <=> RouteAt(s, j, e)
           T == {j \in 0 .. n : j = 0 \/ Right(j)}
<1>2. ASSUME NEW j \in 0 .. n, \A k \in j + 1 .. n : k \in T PROVE j \in T
  <2> SUFFICES ASSUME j # 0 PROVE Right(j)
    OBVIOUS
  <2>1. j \in 1 .. n /\ n \in Nat
    BY <1>1
  <2> DEFINE d == AtDomain(s, j)
  <2>2. /\ d \in 0 .. n /\ (d # 0 => d > j)
        /\ \A b \in 1 .. Len(s) : s[b] \in {Comma, ":"} => (d = b <=> Hop(s, j, b))
    BY <2>1, AtDomainEnds
  <2>3. f[j] = HopsStep(s, f, j)
    BY <2>1
  <2>4. ASSUME NEW e \in 1 .. n
        PROVE  RouteAt(s, j, e) <=>
                 \E b \in 1 .. Len(s) :
                   /\ Hop(s, j, b)
                   /\ \/ s[b] = ":" /\ e = b + 1
                      \/ s[b] = Comma /\ RouteAt(s, b + 1, e)
    BY <2>1, RouteStep
  <2> HIDE DEF d
  <2>5. ASSUME NEW e \in 1 .. n
        PROVE  RouteAt(s, j, e) <=>
                 /\ d \in 1 .. Len(s)
                 /\ \/ s[d] = ":" /\ e = d + 1
                    \/ s[d] = Comma /\ RouteAt(s, d + 1, e)
    <3>1. ASSUME NEW b \in 1 .. Len(s), Hop(s, j, b),
                 \/ s[b] = ":" /\ e = b + 1
                 \/ s[b] = Comma /\ RouteAt(s, b + 1, e)
          PROVE  d = b
      BY <2>2, <3>1
    <3>2. ASSUME d \in 1 .. Len(s), s[d] \in {Comma, ":"}
          PROVE  Hop(s, j, d)
      BY <2>2, <3>2
    <3> QED
      BY <2>4, <3>1, <3>2
  <2>6. Comma # ":"
    BY RouteMarks
  <2>7. CASE At(s, d, Comma)
    <3>1. f[j] = f[d + 1] /\ d \in 1 .. Len(s) /\ s[d] = Comma
      BY <1>1, <2>3, <2>7 DEF HopsStep, d, At
    <3>2. d + 1 \in j + 1 .. n /\ d + 1 # 0
      BY <1>1, <2>1, <2>2, <3>1
    <3>3. Right(d + 1)
      <4>1. d + 1 \in T
        BY <1>2, <3>2
      <4> HIDE DEF Right
      <4> QED
        BY <3>2, <4>1
    <3>4. \A e \in 1 .. n : RouteAt(s, j, e) <=> RouteAt(s, d + 1, e)
      BY <2>5, <2>6, <3>1
    <3> QED
      BY <3>1, <3>3, <3>4
  <2>8. CASE At(s, d, ":")
    <3>1. f[j] = d + 1 /\ d \in 1 .. Len(s) /\ s[d] = ":"
      BY <1>1, <2>3, <2>6, <2>8 DEF HopsStep, d, At
    <3>2. \A e \in 1 .. n : RouteAt(s, j, e) <=> e = d + 1
      BY <2>5, <2>6, <3>1
    <3> QED
      BY <1>1, <3>1, <3>2
  <2>9. CASE ~At(s, d, Comma) /\ ~At(s, d, ":")
    <3>1. f[j] = 0
      BY <2>3, <2>9 DEF HopsStep, d, Bad
    <3>2. \A e \in 1 .. n : ~RouteAt(s, j, e)
      BY <1>1, <2>5, <2>9 DEF At
    <3> QED
      BY <1>1, <3>1, <3>2
  <2> QED
    BY <2>7, <2>8, <2>9
<1>3. \A j \in 0 .. n : j \in T
  <2> HIDE DEF T
  <2>1. n \in Nat
    BY <1>1
  <2> HIDE DEF n
  <2> QED
    BY <1>2, <2>1, Downward
<1>4. ASSUME NEW i \in 1 .. n PROVE Right(i)
  <2>1. i \in 0 .. n /\ i # 0
    BY <1>1
  <2> HIDE DEF Right
  <2> QED
    BY <1>3, <2>1
<1> QED
  BY <1>4

(* Where the route of a mailbox ends, and when it ends where the local part *)
(* starts.                                                                  *)
LEMMA ADLEnds ==
  ASSUME NEW C, NEW s \in Seq(C), NEW i \in 1 .. Len(s) + 1
  PROVE  /\ ADL(s, i) \in 0 .. Len(s) + 1
         /\ \A l \in 1 .. Len(s) :
              s[l] # "@" => (ADL(s, i) = l <=> l = i \/ RouteAt(s, i, l))
<1>1. Len(s) \in Nat /\ DOMAIN s = 1 .. Len(s)
  OBVIOUS
<1>2. PICK f : /\ \A j \in 1 .. Len(s) + 1 : f[j] = HopsStep(s, f, j)
               /\ \A j : ADL(s, j) = IF AtDomain(s, j) = Bad THEN j ELSE f[j]
  BY HopsSolved
<1>3. f[i] \in 0 .. Len(s) + 1 /\ \A e \in 1 .. Len(s) + 1 : f[i] = e <=> RouteAt(s, i, e)
  BY <1>2, HopsEnd
<1>4. ADL(s, i) = IF AtDomain(s, i) = 0 THEN i ELSE f[i]
  BY <1>2 DEF Bad
<1>5. ASSUME NEW l \in 1 .. Len(s), s[l] # "@"
      PROVE  ADL(s, i) = l <=> l = i \/ RouteAt(s, i, l)
  <2>1. l \in 1 .. Len(s) + 1
    BY <1>1
  <2>2. AtDomain(s, i) # 0 => l # i
    BY <1>5, AtDomainEnds DEF At
  <2>3. RouteAt(s, i, l) => AtDomain(s, i) # 0
    <3> SUFFICES ASSUME RouteAt(s, i, l) PROVE AtDomain(s, i) # 0
      OBVIOUS
    <3>1. PICK b \in 1 .. Len(s) : Hop(s, i, b) /\ s[b] \in {Comma, ":"}
      BY <2>1, RouteStep
    <3>2. AtDomain(s, i) = b
      BY <3>1, AtDomainEnds
    <3> QED
      BY <3>2
  <2> QED
    BY <1>3, <1>4, <2>1, <2>2, <2>3
<1> QED
  BY <1>1, <1>3, <1>4, <1>5

-----------------------------------------------------------------------------
(* Mailboxes and paths                                                      *)

(* Parts, of the text from i to e: the local part starts at l, the at sign  *)
(* is at a.                                                                 *)
MailboxAt(s, i, l, a, e) ==
  /\ i <= l /\ l <= a /\ a < e /\ s[a] = "@"
  /\ IsDomain(SubSeq(s, a + 1, e - 1))
  /\ IsLocal(SubSeq(s, l, a - 1))
  /\ IsRoute(SubSeq(s, i, l - 1))

(* A local part is not empty and starts with no mark that ends another part.*)
LEMMA LocalStart ==
  ASSUME NEW C, NEW s \in Seq(C), NEW l \in 1 .. Len(s) + 1, NEW a \in l .. Len(s) + 1,
         IsLocal(SubSeq(s, l, a - 1))
  PROVE  l < a /\ s[l] # "@" /\ s[l] # ">"
<1>1. Len(s) \in Nat
  OBVIOUS
<1>2. DottedAt(s, l, a, Atext) \/ QuotedAt(s, l, a)
  BY DottedPiece, QuotedPiece DEF IsLocal
<1>3. l < a
  BY <1>1, <1>2 DEF DottedAt, QuotedAt, InsideAt
<1>4. \A c \in {"@", ">"} : c \notin Atext \cup {"."} /\ c # Quote
  <2>1. \A c \in {"@", ">"} : c # Quote
    BY DEF Quote
  <2> QED
    BY <2>1, MarksApart DEF Marks
<1>5. s[l] \in Atext \cup {"."} \/ s[l] = Quote
  BY <1>1, <1>2, <1>3 DEF DottedAt, QuotedAt
<1> QED
  BY <1>3, <1>4, <1>5

(* The parts of a path of the grammar.                                      *)
LEMMA PartsPiece ==
  ASSUME NEW C, NEW s \in Seq(C), NEW e \in 2 .. Len(s)
  PROVE  /\ \A p \in Parts(Inside(Upto(s, e))) :
              /\ p \in Nat \X Nat
              /\ From(Inside(Upto(s, e)), p[1] + 1) = SubSeq(s, p[1] + 2, e - 1)
              /\ MailboxAt(s, 2, p[1] + 2, p[2] + 2, e)
         /\ \A l, a \in Nat :
              MailboxAt(s, 2, l, a, e) =>
                \E p \in Parts(Inside(Upto(s, e))) : p[1] = l - 2 /\ p[2] = a - 2
<1>1. Len(s) \in Nat
  OBVIOUS
<1> DEFINE v == Upto(s, e)
           w == Inside(v)
           u == SubSeq(s, 2, e - 1)
<1>2. v \in Seq(C) /\ Len(v) = e
  <2>1. v = SubSeq(s, 1, (e + 1) - 1)
    BY <1>1 DEF Upto
  <2>2. 1 \in 1 .. Len(s) + 1 /\ e + 1 \in 1 .. Len(s) + 1 /\ (e + 1) - 1 = e
    BY <1>1
  <2> QED
    BY <2>1, <2>2, Piece
<1>3. w = u
  <2>1. w = SubSeq(v, 2, e - 1)
    BY <1>2 DEF Inside
  <2>2. 1 \in 1 .. Len(s) + 1 /\ e + 1 \in 1 .. Len(s) + 1
    BY <1>1
  <2>3. 2 \in 1 .. (e + 1) - 1 + 1 /\ e \in 2 .. (e + 1) - 1 + 1
    BY <1>1
  <2>4. SubSeq(SubSeq(s, 1, (e + 1) - 1), 2, e - 1) = SubSeq(s, 2 + 1 - 1, e + 1 - 2)
    BY <2>2, <2>3, PieceOfPiece
  <2>5. (e + 1) - 1 = e /\ 2 + 1 - 1 = 2 /\ e + 1 - 2 = e - 1
    BY <1>1
  <2> QED
    BY <2>1, <2>4, <2>5 DEF Upto
<1>4. /\ u \in Seq(C) /\ Len(u) = e - 2
      /\ \A k \in 1 .. e - 2 : u[k] = s[k + 1]
  <2>1. 2 \in 1 .. Len(s) + 1 /\ e \in 2 .. Len(s) + 1
    BY <1>1
  <2>2. \A k \in 1 .. e - 2 : k + 2 - 1 = k + 1
    OBVIOUS
  <2> QED
    BY <2>1, <2>2, Piece
<1>5. ASSUME NEW p \in Nat, NEW q \in Nat, 1 <= p, p <= q, q <= e - 1
      PROVE  SubSeq(u, p, q - 1) = SubSeq(s, p + 1, q)
  <2>1. 2 \in 1 .. Len(s) + 1 /\ e \in 2 .. Len(s) + 1 /\ p \in 1 .. e - 2 + 1 /\ q \in p .. e - 2 + 1
    BY <1>1, <1>5
  <2>2. SubSeq(u, p, q - 1) = SubSeq(s, p + 2 - 1, q + 2 - 2)
    BY <2>1, PieceOfPiece
  <2>3. p + 2 - 1 = p + 1 /\ q + 2 - 2 = q
    BY <1>5
  <2> QED
    BY <2>2, <2>3
<1> HIDE DEF w, u, v
<1>6. ASSUME NEW x \in Nat, NEW y \in Nat, x <= y, y < e - 2
      PROVE  /\ u[y + 1] = s[y + 2]
             /\ From(u, y + 2) = SubSeq(s, (y + 2) + 1, e - 1)
             /\ SubSeq(u, x + 1, y) = SubSeq(s, x + 2, (y + 2) - 1)
             /\ Upto(u, x) = SubSeq(s, 2, (x + 2) - 1)
             /\ From(u, x + 1) = SubSeq(s, x + 2, e - 1)
  <2>1. u[y + 1] = s[y + 2]
    <3>1. y + 1 \in 1 .. e - 2 /\ (y + 1) + 1 = y + 2
      BY <1>1, <1>6
    <3> QED
      BY <1>4, <3>1
  <2>2. From(u, y + 2) = SubSeq(s, (y + 2) + 1, e - 1)
    <3>1. y + 2 \in Nat /\ e - 1 \in Nat /\ 1 <= y + 2 /\ y + 2 <= e - 1 /\ e - 1 <= e - 1
      BY <1>1, <1>6
    <3>2. SubSeq(u, y + 2, (e - 1) - 1) = SubSeq(s, (y + 2) + 1, e - 1)
      BY <1>5, <3>1
    <3>3. (e - 1) - 1 = e - 2
      BY <1>1
    <3> QED
      BY <1>4, <3>2, <3>3 DEF From
  <2>3. SubSeq(u, x + 1, y) = SubSeq(s, x + 2, (y + 2) - 1)
    <3>1. x + 1 \in Nat /\ y + 1 \in Nat /\ 1 <= x + 1 /\ x + 1 <= y + 1 /\ y + 1 <= e - 1
      BY <1>1, <1>6
    <3>2. SubSeq(u, x + 1, (y + 1) - 1) = SubSeq(s, (x + 1) + 1, y + 1)
      BY <1>5, <3>1
    <3>3. (y + 1) - 1 = y /\ (x + 1) + 1 = x + 2 /\ (y + 2) - 1 = y + 1
      BY <1>6
    <3> QED
      BY <3>2, <3>3
  <2>4. Upto(u, x) = SubSeq(s, 2, (x + 2) - 1)
    <3>1. 1 \in Nat /\ x + 1 \in Nat /\ 1 <= 1 /\ 1 <= x + 1 /\ x + 1 <= e - 1
      BY <1>1, <1>6
    <3>2. SubSeq(u, 1, (x + 1) - 1) = SubSeq(s, 1 + 1, x + 1)
      BY <1>5, <3>1
    <3>3. (x + 1) - 1 = x /\ 1 + 1 = 2 /\ (x + 2) - 1 = x + 1
      BY <1>6
    <3> QED
      BY <3>2, <3>3 DEF Upto
  <2>5. From(u, x + 1) = SubSeq(s, x + 2, e - 1)
    <3>1. x + 1 \in Nat /\ e - 1 \in Nat /\ 1 <= x + 1 /\ x + 1 <= e - 1 /\ e - 1 <= e - 1
      BY <1>1, <1>6
    <3>2. SubSeq(u, x + 1, (e - 1) - 1) = SubSeq(s, (x + 1) + 1, e - 1)
      BY <1>5, <3>1
    <3>3. (e - 1) - 1 = e - 2 /\ (x + 1) + 1 = x + 2
      BY <1>1, <1>6
    <3> QED
      BY <1>4, <3>2, <3>3 DEF From
  <2> QED
    BY <2>1, <2>2, <2>3, <2>4, <2>5
<1> DEFINE Right(x, y) == /\ u[y + 1] = "@" /\ IsDomain(From(u, y + 2))
                          /\ IsLocal(SubSeq(u, x + 1, y)) /\ IsRoute(Upto(u, x))
<1>7. ASSUME NEW x \in Nat, NEW y \in Nat, x <= y, y < e - 2
      PROVE  Right(x, y) <=> MailboxAt(s, 2, x + 2, y + 2, e)
  <2>1. 2 <= x + 2 /\ x + 2 <= y + 2 /\ y + 2 < e
    BY <1>1, <1>7
  <2> QED
    BY <1>6, <1>7, <2>1 DEF MailboxAt
<1>8. Parts(u) = {p \in (0 .. e - 2) \X (0 .. e - 2) : p[1] <= p[2] /\ p[2] < e - 2 /\ Right(p[1], p[2])}
  BY <1>4 DEF Parts
<1> HIDE DEF Right
<1>9. ASSUME NEW p \in Parts(u)
      PROVE  /\ p \in Nat \X Nat
             /\ From(u, p[1] + 1) = SubSeq(s, p[1] + 2, e - 1)
             /\ MailboxAt(s, 2, p[1] + 2, p[2] + 2, e)
  <2>1. p[1] \in Nat /\ p[2] \in Nat /\ p \in Nat \X Nat /\ p[1] <= p[2] /\ p[2] < e - 2 /\ Right(p[1], p[2])
    BY <1>8
  <2> QED
    BY <1>6, <1>7, <2>1
<1>10. ASSUME NEW l \in Nat, NEW a \in Nat, MailboxAt(s, 2, l, a, e)
       PROVE  \E p \in Parts(u) : p[1] = l - 2 /\ p[2] = a - 2
  <2> DEFINE x == l - 2
             y == a - 2
  <2>1. x \in Nat /\ y \in Nat /\ x <= y /\ y < e - 2 /\ x + 2 = l /\ y + 2 = a
    BY <1>1, <1>10 DEF MailboxAt
  <2> HIDE DEF x, y
  <2>2. Right(x, y)
    BY <1>7, <1>10, <2>1
  <2>3. <<x, y>> \in (0 .. e - 2) \X (0 .. e - 2)
    BY <1>1, <2>1
  <2>4. <<x, y>> \in Parts(u)
    BY <1>8, <2>1, <2>2, <2>3
  <2> QED
    BY <2>4 DEF x, y
<1>11. Inside(Upto(s, e)) = u
  BY <1>3 DEF w, v
<1> QED
  BY <1>9, <1>10, <1>11

(* A mailbox before a > is one of the grammar, and it is found.             *)
LEMMA MailboxEnds ==
  ASSUME NEW C, NEW s \in Seq(C), NEW i \in 1 .. Len(s) + 1
  PROVE  LET m == Mailbox(s, i)
         IN /\ m = NoMailbox \/ m \in [{"local", "at", "rest"} -> 1 .. Len(s) + 1]
            /\ \A e \in 1 .. Len(s) :
                 s[e] = ">" =>
                   /\ m.rest = e => MailboxAt(s, i, m.local, m.at, e)
                   /\ \A l, a \in Nat :
                        MailboxAt(s, i, l, a, e) => m = [local |-> l, at |-> a, rest |-> e]
<1>1. Len(s) \in Nat /\ DOMAIN s = 1 .. Len(s)
  OBVIOUS
<1> DEFINE m == Mailbox(s, i)
           l0 == ADL(s, i)
           a0 == LocalPart(s, l0)
           r0 == IF At(s, a0, "@") THEN Domain(s, a0 + 1) ELSE 0
<1>2. m = IF r0 = 0 THEN NoMailbox ELSE [local |-> l0, at |-> a0, rest |-> r0]
  BY DEF Mailbox, Bad
<1>3. /\ l0 \in 0 .. Len(s) + 1
      /\ \A l \in 1 .. Len(s) : s[l] # "@" => (l0 = l <=> l = i \/ RouteAt(s, i, l))
  BY ADLEnds
<1> HIDE DEF l0
<1>4. /\ a0 \in 0 .. Len(s) + 1 /\ (l0 = 0 => a0 = 0)
      /\ \A a \in 1 .. Len(s) :
           l0 # 0 /\ s[a] = "@" => (a0 = a <=> l0 <= a /\ IsLocal(SubSeq(s, l0, a - 1)))
  <2>1. l0 # 0 => l0 \in 1 .. Len(s) + 1
    BY <1>1, <1>3
  <2> QED
    BY <1>3, <2>1, LocalEnds, LocalBefore
<1> HIDE DEF a0
<1>5. /\ r0 \in 0 .. Len(s) + 1 /\ (r0 # 0 => a0 \in 1 .. Len(s) /\ s[a0] = "@" /\ l0 # 0)
      /\ \A e \in 1 .. Len(s) :
           s[e] = ">" =>
             (r0 = e <=> At(s, a0, "@") /\ a0 + 1 <= e /\ IsDomain(SubSeq(s, a0 + 1, e - 1)))
  <2>1. At(s, a0, "@") => a0 \in 1 .. Len(s) /\ s[a0] = "@" /\ l0 # 0 /\ a0 + 1 \in 1 .. Len(s) + 1
    BY <1>1, <1>4 DEF At
  <2>2. At(s, a0, "@") => Domain(s, a0 + 1) \in 0 .. Len(s) + 1
    BY <2>1, DomainEnds
  <2>3. ASSUME NEW e \in 1 .. Len(s), s[e] = ">"
        PROVE  r0 = e <=> At(s, a0, "@") /\ a0 + 1 <= e /\ IsDomain(SubSeq(s, a0 + 1, e - 1))
    <3>1. s[e] \in Marks /\ s[e] # "."
      BY <2>3 DEF Marks
    <3>2. At(s, a0, "@") => (Domain(s, a0 + 1) = e <=> a0 + 1 <= e /\ IsDomain(SubSeq(s, a0 + 1, e - 1)))
      BY <2>1, <3>1, DomainBefore
    <3>3. e # 0
      BY <1>1
    <3> QED
      BY <3>2, <3>3
  <2> QED
    BY <1>1, <2>1, <2>2, <2>3
<1> HIDE DEF r0
<1>6. m = NoMailbox \/ m \in [{"local", "at", "rest"} -> 1 .. Len(s) + 1]
  <2> SUFFICES ASSUME r0 # 0 PROVE m \in [{"local", "at", "rest"} -> 1 .. Len(s) + 1]
    BY <1>2
  <2>1. l0 \in 1 .. Len(s) + 1 /\ a0 \in 1 .. Len(s) + 1 /\ r0 \in 1 .. Len(s) + 1
    BY <1>1, <1>3, <1>5
  <2>2. m = [local |-> l0, at |-> a0, rest |-> r0]
    BY <1>2
  <2> HIDE DEF m
  <2> QED
    BY <2>1, <2>2
<1>7. ASSUME NEW e \in 1 .. Len(s), s[e] = ">", m.rest = e
      PROVE  MailboxAt(s, i, m.local, m.at, e)
  <2>1. r0 # 0
    BY <1>1, <1>2, <1>7 DEF NoMailbox, Bad
  <2>2. m.local = l0 /\ m.at = a0 /\ r0 = e
    BY <1>2, <1>7, <2>1
  <2> HIDE DEF m
  <2>3. /\ a0 \in 1 .. Len(s) /\ s[a0] = "@" /\ l0 # 0
        /\ a0 + 1 <= e /\ IsDomain(SubSeq(s, a0 + 1, e - 1))
    BY <1>5, <1>7, <2>1, <2>2
  <2>4. l0 <= a0 /\ IsLocal(SubSeq(s, l0, a0 - 1))
    BY <1>4, <2>3
  <2>5. l0 \in 1 .. Len(s) + 1 /\ a0 \in l0 .. Len(s) + 1
    BY <1>1, <1>3, <2>3, <2>4
  <2>6. l0 < a0 /\ s[l0] # "@"
    BY <2>4, <2>5, LocalStart
  <2>7. l0 \in 1 .. Len(s)
    BY <1>1, <2>3, <2>5, <2>6
  <2>8. l0 = i \/ RouteAt(s, i, l0)
    BY <1>3, <2>6, <2>7
  <2>9. i <= l0
    BY <1>1, <2>7, <2>8 DEF RouteAt
  <2>10. IsRoute(SubSeq(s, i, l0 - 1))
    <3>1. l0 \in i .. Len(s) + 1
      BY <1>1, <2>7, <2>9
    <3> QED
      BY <2>8, <3>1, RoutePiece
  <2>11. a0 < e
    BY <2>3
  <2> QED
    BY <2>2, <2>3, <2>4, <2>9, <2>10, <2>11 DEF MailboxAt
<1>8. ASSUME NEW e \in 1 .. Len(s), s[e] = ">", NEW l \in Nat, NEW a \in Nat, MailboxAt(s, i, l, a, e)
      PROVE  m = [local |-> l, at |-> a, rest |-> e]
  <2>1. /\ i <= l /\ l <= a /\ a < e /\ s[a] = "@" /\ IsDomain(SubSeq(s, a + 1, e - 1))
        /\ IsLocal(SubSeq(s, l, a - 1)) /\ IsRoute(SubSeq(s, i, l - 1))
    BY <1>8 DEF MailboxAt
  <2>2. l \in 1 .. Len(s) + 1 /\ a \in l .. Len(s) + 1 /\ a \in 1 .. Len(s) /\ l \in i .. Len(s) + 1 /\ l \in 1 .. Len(s)
    BY <1>1, <2>1
  <2>3. s[l] # "@"
    BY <2>1, <2>2, LocalStart
  <2>4. l = i \/ RouteAt(s, i, l)
    BY <2>1, <2>2, RoutePiece
  <2>5. l0 = l
    BY <1>3, <2>2, <2>3, <2>4
  <2>6. a0 = a
    <3>1. l0 # 0
      BY <2>2, <2>5
    <3> QED
      BY <1>4, <2>1, <2>2, <2>5, <3>1
  <2>7. r0 = e
    <3>1. At(s, a0, "@") /\ a0 + 1 <= e
      BY <1>1, <2>1, <2>2, <2>6 DEF At
    <3> QED
      BY <1>5, <1>8, <2>1, <2>6, <3>1
  <2>8. e # 0
    BY <1>1
  <2> QED
    BY <1>2, <2>5, <2>6, <2>7, <2>8
<1> HIDE DEF m
<1> QED
  BY <1>6, <1>7, <1>8 DEF m

(* A place of the grammar's paths is where a mailbox between brackets ends. *)
LEMMA PathsOfAre ==
  ASSUME NEW C, NEW s \in Seq(C), NEW e \in Nat
  PROVE  e \in PathsOf(s) <=>
           /\ e \in 2 .. Len(s) /\ s[1] = "<" /\ s[e] = ">"
           /\ \E l, a \in Nat : MailboxAt(s, 2, l, a, e)
<1>1. Len(s) \in Nat
  OBVIOUS
<1>2. ASSUME e \in 0 .. Len(s)
      PROVE  Len(Upto(s, e)) = e /\ \A k \in 1 .. e : Upto(s, e)[k] = s[k]
  BY <1>1, <1>2 DEF Upto
<1>3. ASSUME e \in PathsOf(s)
      PROVE  /\ e \in 2 .. Len(s) /\ s[1] = "<" /\ s[e] = ">"
             /\ \E l, a \in Nat : MailboxAt(s, 2, l, a, e)
  <2>1. e \in 0 .. Len(s) /\ IsPath(Upto(s, e))
    BY <1>3 DEF PathsOf
  <2>2. /\ Len(Upto(s, e)) > 1 /\ Upto(s, e)[1] = "<" /\ Upto(s, e)[Len(Upto(s, e))] = ">"
        /\ Parts(Inside(Upto(s, e))) # {}
    BY <2>1 DEF IsPath
  <2>3. e \in 2 .. Len(s) /\ 1 \in 1 .. e /\ e \in 1 .. e
    BY <1>2, <2>1, <2>2
  <2>4. s[1] = "<" /\ s[e] = ">"
    BY <1>2, <2>1, <2>2, <2>3
  <2>5. PICK p \in Parts(Inside(Upto(s, e))) : TRUE
    BY <2>2
  <2>6. p \in Nat \X Nat /\ MailboxAt(s, 2, p[1] + 2, p[2] + 2, e)
    BY <2>3, PartsPiece
  <2>7. p[1] + 2 \in Nat /\ p[2] + 2 \in Nat
    BY <2>6
  <2> QED
    BY <2>3, <2>4, <2>6, <2>7
<1>4. ASSUME e \in 2 .. Len(s), s[1] = "<", s[e] = ">",
             NEW l \in Nat, NEW a \in Nat, MailboxAt(s, 2, l, a, e)
      PROVE  e \in PathsOf(s)
  <2>1. Parts(Inside(Upto(s, e))) # {}
    BY <1>4, PartsPiece
  <2>2. e \in 0 .. Len(s) /\ 1 \in 1 .. e /\ e \in 1 .. e
    BY <1>1, <1>4
  <2>3. IsPath(Upto(s, e))
    <3>1. Len(Upto(s, e)) = e /\ Upto(s, e)[1] = "<" /\ Upto(s, e)[e] = ">"
      BY <1>2, <1>4, <2>2
    <3> QED
      BY <1>4, <2>1, <3>1 DEF IsPath
  <2> QED
    BY <2>2, <2>3 DEF PathsOf
<1> QED
  BY <1>3, <1>4

(* The parser of a path accepts what the grammar does, and keeps its parts. *)
LEMMA PathEnds ==
  ASSUME NEW C, NEW s \in Seq(C)
  PROVE  LET r == Path(s, 1)
         IN /\ \/ r = NoMailbox
               \/ /\ r \in [{"local", "at", "rest"} -> 1 .. Len(s) + 1]
                  /\ r.rest - 1 \in PathsOf(s)
                  /\ MailboxAt(s, 2, r.local, r.at, r.rest - 1)
            /\ \A e \in PathsOf(s) : r.rest = e + 1
<1>1. Len(s) \in Nat /\ DOMAIN s = 1 .. Len(s)
  OBVIOUS
<1> DEFINE r == Path(s, 1)
           m == IF At(s, 1, "<") THEN Mailbox(s, 2) ELSE NoMailbox
<1>2. r = IF At(s, m.rest, ">") THEN [m EXCEPT !.rest = @ + 1] ELSE NoMailbox
  BY DEF Path
<1>3. At(s, 1, "<") =>
        /\ m = NoMailbox \/ m \in [{"local", "at", "rest"} -> 1 .. Len(s) + 1]
        /\ \A e \in 1 .. Len(s) :
             s[e] = ">" =>
               /\ m.rest = e => MailboxAt(s, 2, m.local, m.at, e)
               /\ \A l, a \in Nat :
                    MailboxAt(s, 2, l, a, e) => m = [local |-> l, at |-> a, rest |-> e]
  <2> SUFFICES ASSUME At(s, 1, "<")
               PROVE  /\ Mailbox(s, 2) = NoMailbox \/ Mailbox(s, 2) \in [{"local", "at", "rest"} -> 1 .. Len(s) + 1]
                      /\ \A e \in 1 .. Len(s) :
                           s[e] = ">" =>
                             /\ Mailbox(s, 2).rest = e => MailboxAt(s, 2, Mailbox(s, 2).local, Mailbox(s, 2).at, e)
                             /\ \A l, a \in Nat :
                                  MailboxAt(s, 2, l, a, e) =>
                                    Mailbox(s, 2) = [local |-> l, at |-> a, rest |-> e]
    BY Zenon
  <2>1. 2 \in 1 .. Len(s) + 1
    BY <1>1 DEF At
  <2> QED
    BY <2>1, MailboxEnds
<1>4. ~At(s, 1, "<") => m = NoMailbox
  OBVIOUS
<1> HIDE DEF m, r
<1>5. ASSUME At(s, m.rest, ">")
      PROVE  /\ r \in [{"local", "at", "rest"} -> 1 .. Len(s) + 1]
             /\ r.rest - 1 \in PathsOf(s)
             /\ MailboxAt(s, 2, r.local, r.at, r.rest - 1)
  <2> DEFINE e == m.rest
  <2>1. e \in 1 .. Len(s) /\ s[e] = ">"
    BY <1>1, <1>5 DEF At
  <2>2. m # NoMailbox
    BY <1>1, <2>1 DEF NoMailbox, Bad
  <2>3. At(s, 1, "<")
    BY <1>4, <2>2
  <2>4. m \in [{"local", "at", "rest"} -> 1 .. Len(s) + 1] /\ MailboxAt(s, 2, m.local, m.at, e)
    BY <1>3, <2>1, <2>2, <2>3
  <2>5. /\ r = [m EXCEPT !.rest = @ + 1] /\ m.local \in 1 .. Len(s) + 1 /\ m.at \in 1 .. Len(s) + 1
    BY <1>2, <1>5, <2>4
  <2>6. r.local = m.local /\ r.at = m.at /\ r.rest = e + 1 /\ DOMAIN r = {"local", "at", "rest"}
    BY <2>4, <2>5
  <2>7. r \in [{"local", "at", "rest"} -> 1 .. Len(s) + 1]
    <3>1. e + 1 \in 1 .. Len(s) + 1
      BY <1>1, <2>1
    <3> QED
      BY <2>4, <2>5, <3>1
  <2>8. r.rest - 1 = e
    BY <2>1, <2>6
  <2>9. e \in PathsOf(s)
    <3>1. 2 <= m.local /\ m.local <= m.at /\ m.at < e
      BY <2>4 DEF MailboxAt
    <3>2. e \in 2 .. Len(s) /\ e \in Nat /\ m.local \in Nat /\ m.at \in Nat /\ s[1] = "<"
      BY <1>1, <2>1, <2>3, <2>5, <3>1 DEF At
    <3> HIDE DEF e
    <3> QED
      BY <2>1, <2>4, <3>2, PathsOfAre
  <2> QED
    BY <2>4, <2>6, <2>7, <2>8, <2>9
<1>6. ASSUME NEW e \in PathsOf(s) PROVE r.rest = e + 1
  <2>0. e \in Nat
    BY <1>1 DEF PathsOf
  <2>1. e \in 2 .. Len(s) /\ s[1] = "<" /\ s[e] = ">" /\ \E l, a \in Nat : MailboxAt(s, 2, l, a, e)
    BY <2>0, PathsOfAre
  <2>2. PICK l, a \in Nat : MailboxAt(s, 2, l, a, e)
    BY <2>1
  <2>3. At(s, 1, "<") /\ e \in 1 .. Len(s)
    BY <1>1, <2>1 DEF At
  <2>4. m = [local |-> l, at |-> a, rest |-> e]
    BY <1>3, <2>1, <2>2, <2>3
  <2>5. At(s, m.rest, ">")
    BY <1>1, <2>1, <2>3, <2>4 DEF At
  <2>6. r = [m EXCEPT !.rest = @ + 1]
    BY <1>2, <2>5
  <2> QED
    BY <2>4, <2>6
<1>7. ~At(s, m.rest, ">") => r = NoMailbox
  BY <1>2
<1> QED
  BY <1>5, <1>6, <1>7 DEF r

(* No path of the grammar starts like the empty one.                        *)
LEMMA EmptyIsNoPath ==
  ASSUME NEW C, NEW s \in Seq(C), StartsEmpty(s)
  PROVE  PathsOf(s) = {}
<1> SUFFICES ASSUME NEW e \in PathsOf(s) PROVE FALSE
  OBVIOUS
<1>1. Len(s) \in Nat /\ DOMAIN s = 1 .. Len(s)
  OBVIOUS
<1>2. e \in Nat
  BY <1>1 DEF PathsOf
<1>3. e \in 2 .. Len(s) /\ \E l, a \in Nat : MailboxAt(s, 2, l, a, e)
  BY <1>2, PathsOfAre
<1>4. PICK l, a \in Nat : MailboxAt(s, 2, l, a, e)
  BY <1>3
<1>5. 2 \in 1 .. Len(s) /\ 2 \in 1 .. Len(s) + 1 /\ s[2] = ">"
  BY <1>1 DEF StartsEmpty, At
<1>6. /\ 2 <= l /\ l <= a /\ a < e
      /\ IsLocal(SubSeq(s, l, a - 1)) /\ IsRoute(SubSeq(s, 2, l - 1))
  BY <1>4 DEF MailboxAt
<1>7. l \in 1 .. Len(s) + 1 /\ l \in 2 .. Len(s) + 1 /\ a \in l .. Len(s) + 1
  BY <1>1, <1>3, <1>6
<1>8. s[l] # ">"
  BY <1>6, <1>7, LocalStart
<1>9. RouteAt(s, 2, l)
  <2>1. l = 2 \/ RouteAt(s, 2, l)
    BY <1>5, <1>6, <1>7, RoutePiece
  <2> QED
    BY <1>5, <1>8, <2>1
<1>10. \E b \in 1 .. Len(s) : Hop(s, 2, b)
  BY <1>5, <1>7, <1>9, RouteStep
<1>11. s[2] = "@"
  BY <1>10 DEF Hop, At
<1> QED
  BY <1>5, <1>11

(* The same of the path that MAIL takes, which may be empty.                *)
LEMMA ReversePathEnds ==
  ASSUME NEW C, NEW s \in Seq(C)
  PROVE  LET r == ReversePath(s, 1)
         IN IF StartsEmpty(s)
            THEN r = [NoMailbox EXCEPT !.rest = 3] /\ Len(s) >= 2 /\ PathsOf(s) = {}
            ELSE r = Path(s, 1)
<1>1. Len(s) \in Nat /\ DOMAIN s = 1 .. Len(s)
  OBVIOUS
<1>2. StartsEmpty(s) <=> At(s, 1, "<") /\ At(s, 1 + 1, ">")
  BY DEF StartsEmpty
<1>3. StartsEmpty(s) => Len(s) >= 2
  BY <1>1 DEF StartsEmpty, At
<1>4. ReversePath(s, 1) = IF StartsEmpty(s) THEN [NoMailbox EXCEPT !.rest = 1 + 2] ELSE Path(s, 1)
  BY <1>2 DEF ReversePath
<1> QED
  BY <1>3, <1>4, EmptyIsNoPath

-----------------------------------------------------------------------------
(* The parameters of MAIL                                                   *)

(* IsParams, of the text from c.                                            *)
Spaces(s, c) == {k \in c .. Len(s) : s[k] = Space} \cup {Len(s) + 1}

(* Every piece from c on that starts with a space is a parameter.           *)
ParamsAt(s, c) ==
  /\ c <= Len(s) => s[c] = Space
  /\ \A a, b \in Spaces(s, c) :
       a < b /\ (\A k \in Spaces(s, c) : k <= a \/ k >= b) => IsParam(SubSeq(s, a + 1, b - 1))

(* The same of the piece.                                                   *)
LEMMA ParamsPiece ==
  ASSUME NEW C, NEW s \in Seq(C), NEW c \in 1 .. Len(s) + 1
  PROVE  IsParams(From(s, c)) <=> ParamsAt(s, c)
<1>1. Len(s) \in Nat
  OBVIOUS
<1> DEFINE n == Len(s) + 1
           t == SubSeq(s, c, n - 1)
<1>2. /\ t \in Seq(C) /\ Len(t) = n - c /\ DOMAIN t = 1 .. n - c
      /\ \A k \in 1 .. n - c : t[k] = s[k + c - 1]
  <2>1. n \in c .. Len(s) + 1
    BY <1>1
  <2> HIDE DEF n
  <2> QED
    BY <2>1, Piece, SMTT(30)
<1>3. \A p, q : p \in 1 .. n - c + 1 /\ q \in p .. n - c + 1 =>
                  SubSeq(t, p, q - 1) = SubSeq(s, p + c - 1, q + c - 2)
  <2>1. n \in c .. Len(s) + 1
    BY <1>1
  <2> HIDE DEF n
  <2> QED
    BY <2>1, PieceOfPiece
<1>4. From(s, c) = t
  <2>1. n - 1 = Len(s)
    BY <1>1
  <2> QED
    BY <2>1 DEF From
<1> HIDE DEF t
<1> DEFINE cuts == {k \in DOMAIN t : t[k] = Space} \cup {Len(t) + 1}
           here == Spaces(s, c)
<1>5. \A a : a \in cuts <=> a \in Int /\ a + c - 1 \in here
  <2>1. ASSUME NEW a \in cuts PROVE a \in Int /\ a + c - 1 \in here
    <3>1. CASE a = n - c + 1
      <4>1. a + c - 1 = n
        BY <1>1, <3>1
      <4> QED
        BY <1>1, <3>1, <4>1 DEF Spaces
    <3>2. CASE a \in 1 .. n - c /\ t[a] = Space
      <4>1. a + c - 1 \in c .. Len(s) /\ s[a + c - 1] = Space
        BY <1>1, <1>2, <3>2
      <4> QED
        BY <3>2, <4>1 DEF Spaces
    <3> QED
      BY <1>2, <3>1, <3>2
  <2>2. ASSUME NEW a \in Int, a + c - 1 \in here PROVE a \in cuts
    <3>1. CASE a + c - 1 = n
      <4>1. a = n - c + 1
        BY <1>1, <3>1
      <4> QED
        BY <1>2, <4>1
    <3>2. CASE a + c - 1 \in c .. Len(s) /\ s[a + c - 1] = Space
      <4>1. a \in 1 .. n - c
        BY <1>1, <3>2
      <4> QED
        BY <1>2, <3>2, <4>1
    <3> QED
      BY <2>2, <3>1, <3>2 DEF Spaces
  <2> QED
    BY <2>1, <2>2
<1>6. /\ \A a \in cuts : a \in 1 .. n - c + 1
      /\ \A a \in here : a \in c .. n
  BY <1>1, <1>2 DEF Spaces
<1> HIDE DEF cuts, here
<1> DEFINE next(a, b) == a < b /\ \A k \in cuts : k <= a \/ k >= b
           nextHere(a, b) == a < b /\ \A k \in here : k <= a \/ k >= b
<1>7. ASSUME NEW a \in cuts, NEW b \in cuts
      PROVE  next(a, b) <=> nextHere(a + c - 1, b + c - 1)
  <2>1. a \in Int /\ b \in Int /\ c \in Int
    BY <1>6
  <2>2. ASSUME next(a, b), NEW k \in here PROVE k <= a + c - 1 \/ k >= b + c - 1
    <3>1. k \in Int /\ (k - c + 1) + c - 1 = k /\ k - c + 1 \in Int
      BY <1>6
    <3>2. k - c + 1 \in cuts
      BY <1>5, <3>1
    <3>3. k - c + 1 <= a \/ k - c + 1 >= b
      BY <2>2, <3>2
    <3> QED
      BY <2>1, <3>1, <3>3
  <2>3. ASSUME nextHere(a + c - 1, b + c - 1), NEW k \in cuts PROVE k <= a \/ k >= b
    <3>1. k \in Int /\ k + c - 1 \in here
      BY <1>5, <1>6
    <3>2. k + c - 1 <= a + c - 1 \/ k + c - 1 >= b + c - 1
      BY <2>3, <3>1
    <3> QED
      BY <2>1, <3>1, <3>2
  <2>4. a < b <=> a + c - 1 < b + c - 1
    BY <2>1
  <2> QED
    BY <2>2, <2>3, <2>4
<1>8. ASSUME NEW a \in cuts, NEW b \in cuts, a < b
      PROVE  SubSeq(t, a + 1, b - 1) = SubSeq(s, (a + c - 1) + 1, (b + c - 1) - 1)
  <2>1. a + 1 \in 1 .. n - c + 1 /\ b \in a + 1 .. n - c + 1
    BY <1>1, <1>6, <1>8
  <2>2. SubSeq(t, a + 1, b - 1) = SubSeq(s, (a + 1) + c - 1, b + c - 2)
    BY <1>3, <2>1
  <2>3. (a + 1) + c - 1 = (a + c - 1) + 1 /\ b + c - 2 = (b + c - 1) - 1
    BY <1>6
  <2> QED
    BY <2>2, <2>3
<1> DEFINE whole == \A a, b \in cuts : next(a, b) => IsParam(SubSeq(t, a + 1, b - 1))
           wholeHere == \A a, b \in here : nextHere(a, b) => IsParam(SubSeq(s, a + 1, b - 1))
<1>9. whole <=> wholeHere
  <2>1. ASSUME whole, NEW a \in here, NEW b \in here, nextHere(a, b)
        PROVE  IsParam(SubSeq(s, a + 1, b - 1))
    <3> DEFINE x == a - c + 1
               y == b - c + 1
    <3>1. x \in Int /\ y \in Int /\ x + c - 1 = a /\ y + c - 1 = b
      <4>1. a \in Int /\ b \in Int /\ c \in Int
        BY <1>6
      <4>2. \A k, m \in Int : k - m + 1 \in Int /\ (k - m + 1) + m - 1 = k
        OBVIOUS
      <4> QED
        BY <4>1, <4>2, Zenon
    <3> HIDE DEF x, y
    <3>2. x \in cuts /\ y \in cuts
      BY <1>5, <3>1
    <3> HIDE DEF nextHere
    <3>3. next(x, y)
      BY <1>7, <2>1, <3>1, <3>2
    <3>4. x < y
      BY <3>3
    <3> HIDE DEF next
    <3> QED
      BY <1>8, <2>1, <3>1, <3>2, <3>3, <3>4
  <2>2. ASSUME wholeHere, NEW a \in cuts, NEW b \in cuts, next(a, b)
        PROVE  IsParam(SubSeq(t, a + 1, b - 1))
    <3>1. a < b
      BY <2>2
    <3> HIDE DEF next, nextHere
    <3>2. a + c - 1 \in here /\ b + c - 1 \in here /\ nextHere(a + c - 1, b + c - 1)
      BY <1>5, <1>7, <2>2
    <3> QED
      BY <1>8, <2>2, <3>1, <3>2
  <2> HIDE DEF next, nextHere
  <2> QED
    BY <2>1, <2>2
<1>10. (t # <<>> => t[1] = Space) <=> (c <= Len(s) => s[c] = Space)
  <2>1. t # <<>> <=> c <= Len(s)
    BY <1>1, <1>2
  <2>2. c <= Len(s) => 1 \in 1 .. n - c /\ 1 + c - 1 = c
    BY <1>1
  <2> QED
    BY <1>2, <2>1, <2>2
<1>11. IsParams(t) <=> (t # <<>> => t[1] = Space) /\ whole
  BY DEF IsParams, cuts, next
<1>12. ParamsAt(s, c) <=> (c <= Len(s) => s[c] = Space) /\ wholeHere
  BY DEF ParamsAt, nextHere, here
<1> HIDE DEF whole, wholeHere
<1> QED
  BY <1>4, <1>9, <1>10, <1>11, <1>12

(* Parameters are a space, one parameter and parameters.                    *)
LEMMA ParamsStep ==
  ASSUME NEW C, NEW s \in Seq(C), NEW c \in 1 .. Len(s)
  PROVE  ParamsAt(s, c) <=>
           /\ s[c] = Space
           /\ \E b \in c + 1 .. Len(s) + 1 :
                /\ b = Len(s) + 1 \/ s[b] = Space
                /\ \A k \in c + 1 .. b - 1 : s[k] # Space
                /\ IsParam(SubSeq(s, c + 1, b - 1)) /\ ParamsAt(s, b)
<1>1. Len(s) \in Nat
  OBVIOUS
<1> DEFINE n == Len(s) + 1
           here == Spaces(s, c)
           next(a, b) == a < b /\ \A k \in here : k <= a \/ k >= b
<1>2. ParamsAt(s, c) <=> /\ s[c] = Space
                         /\ \A a, b \in here : next(a, b) => IsParam(SubSeq(s, a + 1, b - 1))
  BY <1>1 DEF ParamsAt
<1>3. \A k \in here : k \in c .. n
  BY <1>1 DEF Spaces
<1>4. ASSUME NEW b \in c + 1 .. n, b = n \/ s[b] = Space, \A k \in c + 1 .. b - 1 : s[k] # Space, s[c] = Space
      PROVE  here = {c} \cup Spaces(s, b) /\ \A k \in Spaces(s, b) : k >= b /\ k \in Int
  <2>1. \A k \in c .. Len(s) : k = c \/ k \in c + 1 .. b - 1 \/ k \in b .. Len(s)
    BY <1>1
  <2>2. \A k \in b .. Len(s) : k \in c .. Len(s)
    BY <1>1
  <2>3. c \in c .. Len(s)
    BY <1>1
  <2> QED
    BY <1>1, <1>4, <2>1, <2>2, <2>3 DEF Spaces
<1>5. ASSUME ParamsAt(s, c)
      PROVE  \E b \in c + 1 .. n :
               /\ b = n \/ s[b] = Space
               /\ \A k \in c + 1 .. b - 1 : s[k] # Space
               /\ IsParam(SubSeq(s, c + 1, b - 1)) /\ ParamsAt(s, b)
  <2>1. s[c] = Space /\ \A a, b \in here : next(a, b) => IsParam(SubSeq(s, a + 1, b - 1))
    BY <1>2, <1>5
  <2> DEFINE later == {k \in c + 1 .. n : k \in here}
  <2>2. n \in later /\ later \in SUBSET Nat
    BY <1>1 DEF Spaces
  <2>3. PICK b \in later : \A k \in later : b <= k
    <3> HIDE DEF later
    <3> QED
      BY <2>2, Least
  <2>4. b \in c + 1 .. n /\ b \in here /\ (b = n \/ s[b] = Space) /\ c \in here
    BY <1>1, <2>1 DEF Spaces
  <2>5. \A k \in c + 1 .. b - 1 : s[k] # Space
    <3> SUFFICES ASSUME NEW k \in c + 1 .. b - 1, s[k] = Space PROVE FALSE
      OBVIOUS
    <3>1. k \in later /\ ~(b <= k)
      BY <1>1, <2>4 DEF Spaces
    <3> QED
      BY <2>3, <3>1
  <2> HIDE DEF later
  <2>6. here = {c} \cup Spaces(s, b) /\ \A k \in Spaces(s, b) : k >= b /\ k \in Int
    BY <1>4, <2>1, <2>4, <2>5
  <2>7. c < b /\ b \in Int /\ c \in Int
    BY <1>1, <2>4
  <2>8. next(c, b)
    BY <2>6, <2>7
  <2>9. IsParam(SubSeq(s, c + 1, b - 1))
    BY <2>1, <2>4, <2>8
  <2>10. ASSUME NEW x \in Spaces(s, b), NEW y \in Spaces(s, b), x < y,
                \A k \in Spaces(s, b) : k <= x \/ k >= y
         PROVE  IsParam(SubSeq(s, x + 1, y - 1))
    <3>1. x \in here /\ y \in here /\ next(x, y)
      BY <2>6, <2>7, <2>10
    <3> QED
      BY <2>1, <3>1
  <2>11. b <= Len(s) => s[b] = Space
    BY <1>1, <2>4
  <2>12. ParamsAt(s, b)
    BY <2>10, <2>11 DEF ParamsAt
  <2> QED
    BY <2>4, <2>5, <2>9, <2>12
<1>6. ASSUME s[c] = Space, NEW b \in c + 1 .. n, b = n \/ s[b] = Space,
             \A k \in c + 1 .. b - 1 : s[k] # Space,
             IsParam(SubSeq(s, c + 1, b - 1)), ParamsAt(s, b)
      PROVE  ParamsAt(s, c)
  <2> DEFINE rest == Spaces(s, b)
  <2>1. here = {c} \cup rest /\ \A k \in rest : k >= b /\ k \in Int
    BY <1>4, <1>6
  <2>2. b \in rest /\ c < b /\ c \in Int /\ b \in Int
    BY <1>1, <1>6 DEF Spaces
  <2>3. \A x, y \in rest : x < y /\ (\A k \in rest : k <= x \/ k >= y) => IsParam(SubSeq(s, x + 1, y - 1))
    BY <1>6 DEF ParamsAt
  <2> HIDE DEF rest, here
  <2>4. ASSUME NEW x \in here, NEW y \in here, next(x, y) PROVE IsParam(SubSeq(s, x + 1, y - 1))
    <3>1. CASE x = c
      <4>1. y \in rest /\ b \in here
        BY <2>1, <2>2, <2>4, <3>1
      <4>2. b <= x \/ b >= y
        BY <2>4, <4>1
      <4>3. y = b
        BY <2>1, <2>2, <3>1, <4>1, <4>2
      <4> QED
        BY <1>6, <3>1, <4>3
    <3>2. CASE x \in rest
      <4>1. y \in rest
        BY <2>1, <2>2, <2>4, <3>2
      <4>2. x < y /\ \A k \in rest : k <= x \/ k >= y
        BY <2>1, <2>4
      <4> QED
        BY <2>3, <3>2, <4>1, <4>2
    <3> QED
      BY <2>1, <3>1, <3>2
  <2> HIDE DEF next
  <2> QED
    BY <1>2, <1>6, <2>4
<1> HIDE DEF here, next
<1> QED
  BY <1>2, <1>5, <1>6

(* Nothing is no parameter too many.                                        *)
LEMMA NoParams ==
  ASSUME NEW C, NEW s \in Seq(C)
  PROVE  ParamsAt(s, Len(s) + 1)
<1>1. Len(s) \in Nat
  OBVIOUS
<1>2. Spaces(s, Len(s) + 1) = {Len(s) + 1}
  BY <1>1 DEF Spaces
<1> QED
  BY <1>1, <1>2 DEF ParamsAt

(* IsParam, of the text from i to b: the equals sign is at q.               *)
ParamAt(s, i, q, b) ==
  /\ s[q] = "=" /\ Same(SubSeq(s, i, q - 1), BodyKey)
  /\ SubSeq(s, q + 1, b - 1) \in BodyValues

(* The same of the piece.                                                   *)
LEMMA ParamPiece ==
  ASSUME NEW C, NEW s \in Seq(C), NEW i \in 1 .. Len(s) + 1, NEW b \in i .. Len(s) + 1
  PROVE  IsParam(SubSeq(s, i, b - 1)) <=> \E q \in i .. b - 1 : ParamAt(s, i, q, b)
<1>1. Len(s) \in Nat
  OBVIOUS
<1> DEFINE u == SubSeq(s, i, b - 1)
<1>2. /\ u \in Seq(C) /\ Len(u) = b - i /\ DOMAIN u = 1 .. b - i
      /\ \A k \in 1 .. b - i : u[k] = s[k + i - 1]
  BY Piece, SMTT(30)
<1>3. \A p, q : p \in 1 .. b - i + 1 /\ q \in p .. b - i + 1 =>
                  SubSeq(u, p, q - 1) = SubSeq(s, p + i - 1, q + i - 2)
  BY PieceOfPiece
<1> HIDE DEF u
<1> DEFINE Right(k) == u[k] = "=" /\ Same(Upto(u, k - 1), BodyKey) /\ From(u, k + 1) \in BodyValues
<1>4. ASSUME NEW k \in 1 .. b - i, NEW q \in Int, q = k + i - 1
      PROVE  Right(k) <=> ParamAt(s, i, q, b)
  <2>1. u[k] = s[q]
    BY <1>2, <1>4
  <2>2. Upto(u, k - 1) = SubSeq(s, i, q - 1)
    <3>1. 1 \in 1 .. b - i + 1 /\ k \in 1 .. b - i + 1
      BY <1>1
    <3>2. SubSeq(u, 1, k - 1) = SubSeq(s, 1 + i - 1, k + i - 2)
      BY <1>3, <3>1
    <3>3. 1 + i - 1 = i /\ k + i - 2 = q - 1
      BY <1>1, <1>4
    <3> QED
      BY <3>2, <3>3 DEF Upto
  <2>3. From(u, k + 1) = SubSeq(s, q + 1, b - 1)
    <3> DEFINE d == b - i + 1
    <3>1. k + 1 \in 1 .. b - i + 1 /\ d \in k + 1 .. b - i + 1
      BY <1>1
    <3>2. SubSeq(u, k + 1, d - 1) = SubSeq(s, (k + 1) + i - 1, d + i - 2)
      BY <1>3, <3>1
    <3>3. d - 1 = b - i /\ (k + 1) + i - 1 = q + 1 /\ d + i - 2 = b - 1
      BY <1>1, <1>4
    <3> HIDE DEF d
    <3> QED
      BY <1>2, <3>2, <3>3 DEF From
  <2> QED
    BY <2>1, <2>2, <2>3 DEF ParamAt
<1>5. IsParam(u) <=> \E k \in 1 .. b - i : Right(k)
  BY <1>2 DEF IsParam
<1> HIDE DEF Right
<1>6. ASSUME NEW k \in 1 .. b - i, Right(k) PROVE \E q \in i .. b - 1 : ParamAt(s, i, q, b)
  <2>1. k + i - 1 \in i .. b - 1 /\ k + i - 1 \in Int
    BY <1>1
  <2> QED
    BY <1>4, <1>6, <2>1
<1>7. ASSUME NEW q \in i .. b - 1, ParamAt(s, i, q, b) PROVE \E k \in 1 .. b - i : Right(k)
  <2>1. q - i + 1 \in 1 .. b - i /\ q \in Int /\ q = (q - i + 1) + i - 1
    BY <1>1
  <2> QED
    BY <1>4, <1>7, <2>1
<1> QED
  BY <1>5, <1>6, <1>7 DEF u

(* The characters of a parameter.                                           *)
LEMMA ParamChars ==
  ASSUME NEW s \in Seq(DOMAIN Lower), NEW i \in 1 .. Len(s) + 1, NEW b \in i .. Len(s) + 1,
         NEW q \in i .. b - 1, ParamAt(s, i, q, b)
  PROVE  /\ i < q /\ \A k \in i .. q - 1 : s[k] \in Alnum
         /\ q + 1 < b /\ \A k \in q + 1 .. b - 1 : s[k] \in ParamValue
<1>1. Len(s) \in Nat /\ DOMAIN s = 1 .. Len(s)
  OBVIOUS
<1> DEFINE key == SubSeq(s, i, q - 1)
           value == SubSeq(s, q + 1, b - 1)
<1>2. /\ Len(key) = q - i /\ DOMAIN key = 1 .. q - i
      /\ \A k \in i .. q - 1 : key[k - i + 1] = s[k] /\ k - i + 1 \in 1 .. q - i
  <2>1. q \in i .. Len(s) + 1
    BY <1>1
  <2> QED
    BY <2>1, Piece
<1>3. /\ Len(value) = b - (q + 1)
      /\ \A k \in q + 1 .. b - 1 : value[k - (q + 1) + 1] = s[k] /\ k - (q + 1) + 1 \in 1 .. b - (q + 1)
  <2>1. q + 1 \in 1 .. Len(s) + 1 /\ b \in q + 1 .. Len(s) + 1
    BY <1>1
  <2> QED
    BY <2>1, Piece
<1>4. Same(key, BodyKey) /\ value \in BodyValues
  BY DEF ParamAt
<1> HIDE DEF key, value
<1>5. BodyKey \in Seq(DOMAIN Lower) /\ Len(BodyKey) > 0 /\ DOMAIN BodyKey = 1 .. Len(BodyKey)
  BY BodyAssumption
<1>6. Len(key) = Len(BodyKey) /\ \A k \in DOMAIN key : Lower[key[k]] = Lower[BodyKey[k]]
  BY <1>4 DEF Same
<1>7. i < q
  BY <1>1, <1>2, <1>5, <1>6
<1>8. ASSUME NEW k \in i .. q - 1 PROVE s[k] \in Alnum
  <2> DEFINE j == k - i + 1
  <2>1. key[j] = s[k] /\ j \in DOMAIN key /\ j \in DOMAIN BodyKey
    BY <1>2, <1>5, <1>6
  <2> HIDE DEF j
  <2>2. Lower[s[k]] = Lower[BodyKey[j]]
    BY <1>6, <2>1
  <2>3. s[k] \in DOMAIN Lower
    BY <1>1
  <2> QED
    BY <2>1, <2>2, <2>3, BodyAssumption
<1>9. value \in Seq(ParamValue) /\ value # <<>>
  BY <1>4, BodyAssumption
<1>10. q + 1 < b
  <2>1. Len(value) > 0
    BY <1>9
  <2> QED
    BY <1>1, <1>3, <2>1
<1>11. ASSUME NEW k \in q + 1 .. b - 1 PROVE s[k] \in ParamValue
  <2>1. k - (q + 1) + 1 \in 1 .. Len(value) /\ value[k - (q + 1) + 1] = s[k]
    BY <1>3
  <2>2. \A j \in 1 .. Len(value) : value[j] \in ParamValue
    BY <1>9
  <2> QED
    BY <2>1, <2>2
<1> QED
  BY <1>7, <1>8, <1>10, <1>11

(* What separates the parts of a parameter.                                 *)
LEMMA ParamMarks ==
  /\ Alnum \subseteq Label
  /\ Space \notin Label /\ "=" \notin Label /\ Space \notin ParamValue /\ Space # "="
<1>1. Space # "="
  BY Zenon DEF Space
<1> QED
  BY <1>1, MarksApart DEF Marks, Label, ParamValue

(* What the parser of a parameter takes, and that it finds one that the     *)
(* grammar finds.                                                           *)
LEMMA ParamEnds ==
  ASSUME NEW s \in Seq(DOMAIN Lower), NEW i \in 1 .. Len(s) + 1
  PROVE  LET p == ESMTPParam(s, i)
         IN /\ p.rest = 0 \/ /\ p.equals \in i + 1 .. Len(s) /\ s[p.equals] = "="
                             /\ p.rest \in p.equals + 2 .. Len(s) + 1
                             /\ \A k \in i .. p.rest - 1 : s[k] # Space
            /\ \A b \in i .. Len(s) + 1 : \A q \in i .. b - 1 :
                 ParamAt(s, i, q, b) /\ (b = Len(s) + 1 \/ s[b] = Space) =>
                   p = [equals |-> q, rest |-> b]
<1>1. Len(s) \in Nat /\ DOMAIN s = 1 .. Len(s)
  OBVIOUS
<1> DEFINE p == ESMTPParam(s, i)
           e0 == IF Among(s, i, Alnum) THEN Run(s, i, Label) ELSE 0
           r0 == IF At(s, e0, "=") /\ Among(s, e0 + 1, ParamValue) THEN Run(s, e0 + 1, ParamValue) ELSE 0
<1>2. p = IF r0 = 0 THEN [equals |-> 0, rest |-> 0] ELSE [equals |-> e0, rest |-> r0]
  BY DEF ESMTPParam, Bad
<1>3. /\ Run(s, i, Label) \in i .. Len(s) + 1
      /\ \A k \in i .. Run(s, i, Label) - 1 : s[k] \in Label
      /\ Run(s, i, Label) > Len(s) \/ s[Run(s, i, Label)] \notin Label
  BY RunEnds
<1>4. ASSUME r0 # 0
      PROVE  /\ e0 \in i + 1 .. Len(s) /\ s[e0] = "=" /\ r0 \in e0 + 2 .. Len(s) + 1
             /\ \A k \in i .. r0 - 1 : s[k] # Space
  <2>1. At(s, e0, "=") /\ Among(s, e0 + 1, ParamValue) /\ r0 = Run(s, e0 + 1, ParamValue)
    BY <1>4
  <2> HIDE DEF r0
  <2>2. e0 # 0 /\ e0 \in 1 .. Len(s) /\ s[e0] = "=" /\ e0 + 1 \in 1 .. Len(s) /\ s[e0 + 1] \in ParamValue
    BY <1>1, <2>1 DEF At, Among
  <2>3. Among(s, i, Alnum) /\ e0 = Run(s, i, Label)
    BY <2>2
  <2> HIDE DEF e0
  <2>4. e0 \in i .. Len(s) /\ \A k \in i .. e0 - 1 : s[k] \in Label
    BY <1>1, <1>3, <2>2, <2>3
  <2>5. e0 # i
    BY <1>1, <2>2, <2>3, ParamMarks DEF Among
  <2>6. e0 + 1 \in 1 .. Len(s) + 1
    BY <1>1, <2>2
  <2>7. /\ r0 \in e0 + 1 .. Len(s) + 1 /\ \A k \in e0 + 1 .. r0 - 1 : s[k] \in ParamValue
        /\ r0 > Len(s) \/ s[r0] \notin ParamValue
    BY <2>1, <2>6, RunEnds
  <2>8. r0 # e0 + 1
    BY <1>1, <2>2, <2>7
  <2>9. \A k \in i .. r0 - 1 : k \in i .. e0 - 1 \/ k = e0 \/ k \in e0 + 1 .. r0 - 1
    BY <1>1, <2>4, <2>7
  <2>10. \A k \in i .. r0 - 1 : s[k] # Space
    BY <2>2, <2>4, <2>7, <2>9, ParamMarks
  <2>11. e0 \in i + 1 .. Len(s) /\ r0 \in e0 + 2 .. Len(s) + 1
    BY <1>1, <2>4, <2>5, <2>7, <2>8
  <2> QED
    BY <2>2, <2>10, <2>11
<1>5. ASSUME NEW b \in i .. Len(s) + 1, NEW q \in i .. b - 1,
             ParamAt(s, i, q, b), b = Len(s) + 1 \/ s[b] = Space
      PROVE  p = [equals |-> q, rest |-> b]
  <2>1. /\ i < q /\ \A k \in i .. q - 1 : s[k] \in Alnum
        /\ q + 1 < b /\ \A k \in q + 1 .. b - 1 : s[k] \in ParamValue
    BY <1>5, ParamChars
  <2>2. s[q] = "="
    BY <1>5 DEF ParamAt
  <2>3. /\ i \in i .. q - 1 /\ i \in 1 .. Len(s) /\ q \in i .. Len(s) + 1 /\ q \in 1 .. Len(s)
        /\ q + 1 \in 1 .. Len(s) + 1 /\ b \in q + 1 .. Len(s) + 1 /\ q + 1 \in q + 1 .. b - 1
        /\ q + 1 \in 1 .. Len(s)
    BY <1>1, <2>1
  <2>4. e0 = q
    <3>1. Among(s, i, Alnum)
      BY <1>1, <2>1, <2>3 DEF Among
    <3>2. \A k \in i .. q - 1 : s[k] \in Label
      BY <2>1, ParamMarks
    <3>3. s[q] \notin Label
      BY <2>2, ParamMarks
    <3>4. Run(s, i, Label) = q
      BY <2>3, <3>2, <3>3, RunIs
    <3> QED
      BY <3>1, <3>4
  <2> HIDE DEF e0
  <2>5. r0 = b
    <3>1. At(s, q, "=") /\ Among(s, q + 1, ParamValue)
      BY <1>1, <2>1, <2>2, <2>3 DEF At, Among
    <3>2. b > Len(s) \/ s[b] \notin ParamValue
      BY <1>1, <1>5, ParamMarks
    <3>3. Run(s, q + 1, ParamValue) = b
      BY <2>1, <2>3, <3>2, RunIs
    <3> QED
      BY <2>4, <3>1, <3>3
  <2>6. b # 0
    BY <1>1
  <2> QED
    BY <1>2, <2>4, <2>5, <2>6
<1> HIDE DEF p, e0, r0
<1>6. p.rest = 0 \/ /\ p.equals \in i + 1 .. Len(s) /\ s[p.equals] = "="
                    /\ p.rest \in p.equals + 2 .. Len(s) + 1
                    /\ \A k \in i .. p.rest - 1 : s[k] # Space
  BY <1>2, <1>4
<1> QED
  BY <1>5, <1>6 DEF p

(* What one step of the loop over the parameters does.                      *)
LEMMA ParamTaken ==
  ASSUME NEW s \in Seq(DOMAIN Lower), NEW c \in 1 .. Len(s)
  PROVE  LET p == ESMTPParam(s, c + 1)
             taken == /\ s[c] = Space /\ p.rest # Bad
                      /\ Same(SubSeq(s, c + 1, p.equals - 1), BodyKey)
                      /\ SubSeq(s, p.equals + 1, p.rest - 1) \in BodyValues
         IN /\ taken => p.rest \in 1 .. Len(s) + 1 /\ (ParamsAt(s, c) <=> ParamsAt(s, p.rest))
            /\ ~taken => ~ParamsAt(s, c)
<1>1. Len(s) \in Nat /\ DOMAIN s = 1 .. Len(s) /\ c + 1 \in 1 .. Len(s) + 1
  OBVIOUS
<1> DEFINE n == Len(s) + 1
           p == ESMTPParam(s, c + 1)
           taken == /\ s[c] = Space /\ p.rest # 0
                    /\ Same(SubSeq(s, c + 1, p.equals - 1), BodyKey)
                    /\ SubSeq(s, p.equals + 1, p.rest - 1) \in BodyValues
<1>2. /\ p.rest = 0 \/ /\ p.equals \in (c + 1) + 1 .. Len(s) /\ s[p.equals] = "="
                       /\ p.rest \in p.equals + 2 .. Len(s) + 1
                       /\ \A k \in c + 1 .. p.rest - 1 : s[k] # Space
      /\ \A b \in c + 1 .. Len(s) + 1 : \A q \in c + 1 .. b - 1 :
           ParamAt(s, c + 1, q, b) /\ (b = Len(s) + 1 \/ s[b] = Space) =>
             p = [equals |-> q, rest |-> b]
  BY <1>1, ParamEnds
<1> HIDE DEF p
<1>3. ParamsAt(s, c) <=>
        /\ s[c] = Space
        /\ \E b \in c + 1 .. Len(s) + 1 :
             /\ b = Len(s) + 1 \/ s[b] = Space
             /\ \A k \in c + 1 .. b - 1 : s[k] # Space
             /\ IsParam(SubSeq(s, c + 1, b - 1)) /\ ParamsAt(s, b)
  BY ParamsStep
<1>4. ASSUME NEW b \in c + 1 .. n
      PROVE  IsParam(SubSeq(s, c + 1, b - 1)) <=> \E q \in c + 1 .. b - 1 : ParamAt(s, c + 1, q, b)
  BY <1>1, ParamPiece
<1>5. ASSUME ParamsAt(s, c)
      PROVE  taken /\ ParamsAt(s, p.rest)
  <2>1. PICK b \in c + 1 .. n : /\ b = n \/ s[b] = Space
                                /\ IsParam(SubSeq(s, c + 1, b - 1)) /\ ParamsAt(s, b)
    BY <1>3, <1>5
  <2>2. PICK q \in c + 1 .. b - 1 : ParamAt(s, c + 1, q, b)
    BY <1>4, <2>1
  <2>3. p = [equals |-> q, rest |-> b]
    BY <1>2, <2>1, <2>2
  <2>4. b # 0
    BY <1>1
  <2>5. s[c] = Space
    BY <1>3, <1>5
  <2> QED
    BY <2>1, <2>2, <2>3, <2>4, <2>5 DEF ParamAt
<1>6. ASSUME taken
      PROVE  p.rest \in 1 .. n /\ (ParamsAt(s, p.rest) => ParamsAt(s, c))
  <2> DEFINE b == p.rest
             q == p.equals
  <2>1. /\ q \in (c + 1) + 1 .. Len(s) /\ s[q] = "=" /\ b \in q + 2 .. n
        /\ \A k \in c + 1 .. b - 1 : s[k] # Space
    BY <1>2, <1>6
  <2>2. ParamAt(s, c + 1, q, b) /\ s[c] = Space
    BY <1>6, <2>1 DEF ParamAt
  <2> HIDE DEF b, q
  <2>3. b \in c + 1 .. n /\ q \in c + 1 .. b - 1 /\ b \in 1 .. n
    BY <1>1, <2>1
  <2>4. IsParam(SubSeq(s, c + 1, b - 1))
    BY <1>4, <2>2, <2>3
  <2>5. ParamsAt(s, b) => b = n \/ s[b] = Space
    BY <1>1, <2>3 DEF ParamsAt
  <2>6. ParamsAt(s, b) => ParamsAt(s, c)
    BY <1>3, <2>1, <2>2, <2>3, <2>4, <2>5
  <2> QED
    BY <2>3, <2>6 DEF b
<1> HIDE DEF taken
<1>7. (taken => p.rest \in 1 .. n /\ (ParamsAt(s, c) <=> ParamsAt(s, p.rest))) /\ (~taken => ~ParamsAt(s, c))
  BY <1>5, <1>6
<1> QED
  BY <1>7 DEF taken, p, Bad

-----------------------------------------------------------------------------
(* Greetings                                                                *)

(* A greeting that is accepted is as long as its characters go, and is a    *)
(* domain but for a dot at the end of the line.                             *)
LEMMA GreetingEnds ==
  ASSUME NEW C, NEW s \in Seq(C)
  PROVE  LET end == Run(s, 1, Label \cup {"."})
             longest == Upto(s, end - 1)
             bare == IF longest # <<>> /\ longest = s /\ s[Len(s)] = "."
                     THEN Upto(s, Len(s) - 1) ELSE longest
         IN /\ end \in 1 .. Len(s) + 1
            /\ Domain(s, 1) # 0 => Domain(s, 1) = end
            /\ Domain(s, 1) # 0 <=> (s = <<>> \/ IsDomain(bare)) /\ Len(longest) <= DomainMax
<1>1. Len(s) \in Nat /\ DOMAIN s = 1 .. Len(s) /\ 1 \in 1 .. Len(s) + 1
  OBVIOUS
<1> DEFINE n == Len(s) + 1
           K == Label \cup {"."}
           R == Run(s, 1, K)
           longest == Upto(s, R - 1)
           dot == longest # <<>> /\ longest = s /\ s[Len(s)] = "."
           bare == IF dot THEN Upto(s, Len(s) - 1) ELSE longest
<1>2. R \in 1 .. n /\ (R > Len(s) \/ s[R] \notin K) /\ \A k \in 1 .. R - 1 : s[k] \in K
  BY <1>1, RunEnds
<1>3. \A e \in 1 .. n : (e > Len(s) \/ s[e] \notin K) /\ (\A k \in 1 .. e - 1 : s[k] \in K) => R = e
  BY <1>1, RunIs
<1> HIDE DEF R
<1>4. Len(longest) = R - 1 /\ longest = SubSeq(s, 1, R - 1)
  BY <1>1, <1>2 DEF Upto
<1>5. longest = s <=> R = n
  <2>1. R = n => longest = s
    BY <1>1, <1>2, <1>4
  <2>2. longest = s => R - 1 = Len(s)
    BY <1>4
  <2> QED
    BY <1>1, <1>2, <2>1, <2>2
<1>6. longest # <<>> <=> R > 1
  BY <1>1, <1>2, <1>4
<1>7. dot <=> R = n /\ R > 1 /\ s[Len(s)] = "."
  BY <1>5, <1>6
<1> HIDE DEF longest, dot
<1>8. ASSUME NEW e \in 1 .. n, DomainAt(s, 1, e) PROVE e = R
  <2>1. \A k \in 1 .. e - 1 : s[k] \in K
    <3>1. CASE DottedAt(s, 1, e, Label)
      BY <3>1 DEF DottedAt
    <3>2. CASE e = 1
      BY <3>2
    <3>3. CASE At(s, e - 1, ".") /\ DottedAt(s, 1, e - 1, Label)
      <4>1. \A k \in 1 .. e - 1 : k = e - 1 \/ k \in 1 .. (e - 1) - 1
        BY <1>1
      <4> QED
        BY <3>3, <4>1 DEF DottedAt, At
    <3> QED
      BY <1>8, <3>1, <3>2, <3>3 DEF DomainAt
  <2>2. e > Len(s) \/ s[e] \notin K
    BY <1>1, <1>8 DEF DomainAt, Stops
  <2> QED
    BY <1>3, <2>1, <2>2
<1>9. /\ Domain(s, 1) \in 0 .. n
      /\ \A e \in 1 .. n : Domain(s, 1) = e <=> DomainAt(s, 1, e) /\ e - 1 <= DomainMax
  BY <1>1, DomainEnds
<1>10. Domain(s, 1) # 0 => Domain(s, 1) = R
  <2> SUFFICES ASSUME Domain(s, 1) # 0 PROVE Domain(s, 1) = R
    OBVIOUS
  <2>1. Domain(s, 1) \in 1 .. n
    BY <1>1, <1>9
  <2>2. DomainAt(s, 1, Domain(s, 1))
    BY <1>9, <2>1
  <2> QED
    BY <1>8, <2>1, <2>2
<1>11. Domain(s, 1) # 0 <=> DomainAt(s, 1, R) /\ R - 1 <= DomainMax
  BY <1>2, <1>9, <1>10
<1>12. DomainAt(s, 1, R) <=>
         \/ DottedAt(s, 1, R, Label)
         \/ R = n /\ R = 1
         \/ R = n /\ At(s, Len(s), ".") /\ DottedAt(s, 1, Len(s), Label)
  <2>1. Stops(s, R, K)
    BY <1>2 DEF Stops
  <2>2. R = n => R - 1 = Len(s)
    BY <1>1
  <2> QED
    BY <1>1, <2>1, <2>2 DEF DomainAt
<1>13. ASSUME NEW e \in 1 .. n
       PROVE  IsDomain(SubSeq(s, 1, e - 1)) <=> DottedAt(s, 1, e, Label) /\ e - 1 <= DomainMax
  <2>1. Dotted(SubSeq(s, 1, e - 1), Label) <=> DottedAt(s, 1, e, Label)
    BY <1>1, DottedPiece
  <2>2. Len(SubSeq(s, 1, e - 1)) = e - 1
    BY <1>1
  <2> QED
    BY <2>1, <2>2 DEF IsDomain
<1>14. s = <<>> <=> n = 1
  BY <1>1
<1>15. ASSUME R - 1 <= DomainMax
       PROVE  DomainAt(s, 1, R) <=> s = <<>> \/ IsDomain(bare)
  <2>1. CASE dot
    <3>1. R = n /\ R > 1 /\ s[Len(s)] = "." /\ Len(s) \in 1 .. n /\ R - 1 = Len(s)
      BY <1>1, <1>2, <1>7, <2>1
    <3>2. bare = SubSeq(s, 1, Len(s) - 1)
      BY <2>1 DEF Upto
    <3>3. Len(s) - 1 <= DomainMax
      BY <1>1, <1>15, <3>1, LimitsAssumption
    <3>4. IsDomain(bare) <=> DottedAt(s, 1, Len(s), Label)
      BY <1>13, <3>1, <3>2, <3>3
    <3>5. ~DottedAt(s, 1, R, Label)
      BY <3>1 DEF DottedAt
    <3>6. s # <<>> /\ At(s, Len(s), ".")
      BY <1>1, <1>14, <3>1 DEF At
    <3> QED
      BY <1>12, <3>1, <3>4, <3>5, <3>6
  <2>2. CASE ~dot
    <3>1. IsDomain(bare) <=> DottedAt(s, 1, R, Label)
      BY <1>2, <1>4, <1>13, <1>15, <2>2
    <3>2. ~(R = n /\ At(s, Len(s), ".") /\ DottedAt(s, 1, Len(s), Label))
      <4> SUFFICES ASSUME R = n, At(s, Len(s), "."), DottedAt(s, 1, Len(s), Label) PROVE FALSE
        OBVIOUS
      <4>1. s[Len(s)] = "." /\ R > 1
        BY <1>1 DEF At
      <4> QED
        BY <1>7, <2>2, <4>1
    <3>3. R = n /\ R = 1 <=> s = <<>>
      BY <1>1, <1>2, <1>14
    <3> QED
      BY <1>12, <3>1, <3>2, <3>3
  <2> QED
    BY <2>1, <2>2
<1>16. Domain(s, 1) # 0 <=> (s = <<>> \/ IsDomain(bare)) /\ Len(longest) <= DomainMax
  BY <1>4, <1>11, <1>15
<1> QED
  BY <1>2, <1>10, <1>16 DEF R, longest, dot

-----------------------------------------------------------------------------
(* What the commands have made of their lines                               *)

(* What ehlo has made of its line.                                          *)
GreetingRead ==
  verb = "EHLO" =>
    /\ pc # "params" /\ cmd = 1 /\ path = NoMailbox
    /\ pc = "ok" => Domain(line, 1) # Bad
    /\ pc = "invalid_parameters" => Domain(line, 1) = Bad
    /\ kept = IF pc = "ok" THEN SubSeq(line, 1, Domain(line, 1) - 1) ELSE <<>>

(* The parameters that are left decide as all of them do.                   *)
MailRead ==
  verb = "MAIL" =>
    /\ path = IF pc = "start" THEN NoMailbox ELSE ReversePath(line, 1)
    /\ cmd \in 1 .. Len(line) + 1
    /\ pc = "params" => path.rest # Bad /\ (ParamsAt(line, path.rest) <=> ParamsAt(line, cmd))
    /\ pc = "ok" => path.rest # Bad /\ ParamsAt(line, path.rest)
    /\ pc = "invalid_parameters" => ~(path.rest # Bad /\ ParamsAt(line, path.rest))
    /\ kept = IF pc = "ok" THEN MailboxText(line, path) ELSE <<>>

(* What rcpt has made of its line.                                          *)
RcptRead ==
  verb = "RCPT" =>
    /\ pc # "params" /\ cmd = 1
    /\ path = IF pc = "start" THEN NoMailbox ELSE Path(line, 1)
    /\ pc = "ok" => path.rest # Bad
    /\ pc = "invalid_parameters" => path.rest = Bad
    /\ kept = MailboxText(line, path)

(* The inductive invariant: what is stored is what the parsers return for   *)
(* the line, and MAIL has taken parameters up to cmd.                       *)
LineRead ==
  /\ line \in Seq(DOMAIN Lower)
  /\ verb \in {"EHLO", "MAIL", "RCPT"}
  /\ pc \in {"start", "params", "ok", "invalid_parameters"}
  /\ GreetingRead /\ MailRead /\ RcptRead

(* The places of a path that is read.                                       *)
LEMMA PathPlaces ==
  ASSUME NEW C, NEW s \in Seq(C), NEW r \in {NoMailbox, Path(s, 1), ReversePath(s, 1)}
  PROVE  /\ r \in [{"local", "at", "rest"} -> 0 .. Len(s) + 1]
         /\ r.rest # 0 => r.rest \in 1 .. Len(s) + 1
         /\ r.local # 0 => r.local \in 1 .. Len(s) /\ r.rest - 2 \in 1 .. Len(s)
         /\ r.rest = 0 => r.local = 0
<1>1. Len(s) \in Nat
  OBVIOUS
<1>2. CASE r = NoMailbox
  BY <1>1, <1>2 DEF NoMailbox, Bad
<1>3. CASE StartsEmpty(s) /\ r = [NoMailbox EXCEPT !.rest = 3] /\ Len(s) >= 2
  BY <1>1, <1>3 DEF NoMailbox, Bad
<1>4. CASE r = Path(s, 1) /\ r # NoMailbox
  <2>1. /\ r \in [{"local", "at", "rest"} -> 1 .. Len(s) + 1]
        /\ MailboxAt(s, 2, r.local, r.at, r.rest - 1)
    BY <1>4, PathEnds
  <2>2. r.local \in 1 .. Len(s) + 1 /\ r.at \in 1 .. Len(s) + 1 /\ r.rest \in 1 .. Len(s) + 1
    BY <2>1
  <2>3. 2 <= r.local /\ r.local <= r.at /\ r.at < r.rest - 1
    BY <2>1 DEF MailboxAt
  <2>4. r \in [{"local", "at", "rest"} -> 0 .. Len(s) + 1]
    BY <1>1, <2>1
  <2> QED
    BY <1>1, <2>2, <2>3, <2>4
<1> QED
  BY <1>2, <1>3, <1>4, ReversePathEnds

(* The invariant holds at the start.                                        *)
LEMMA LineStarts == Init => LineRead
<1> SUFFICES ASSUME Init PROVE LineRead
  OBVIOUS
<1>1. line \in Seq(DOMAIN Lower)
  BY TextsAssumption DEF Init
<1>2. Len(line) \in Nat
  BY <1>1
<1>3. MailboxText(line, NoMailbox) = <<>>
  BY DEF MailboxText, NoMailbox
<1>4. cmd = 1 /\ path = NoMailbox /\ kept = <<>> /\ pc = "start" /\ verb \in {"EHLO", "MAIL", "RCPT"}
  BY DEF Init
<1>5. GreetingRead
  BY <1>4 DEF GreetingRead
<1>6. MailRead
  BY <1>2, <1>4 DEF MailRead
<1>7. RcptRead
  BY <1>3, <1>4 DEF RcptRead
<1> QED
  BY <1>1, <1>4, <1>5, <1>6, <1>7 DEF LineRead

(* Every step keeps it.                                                     *)
LEMMA LineStep == LineRead /\ [Next]_vars => LineRead'
<1> SUFFICES ASSUME LineRead, [Next]_vars PROVE LineRead'
  OBVIOUS
<1>1. /\ line \in Seq(DOMAIN Lower) /\ verb \in {"EHLO", "MAIL", "RCPT"}
      /\ pc \in {"start", "params", "ok", "invalid_parameters"}
  BY DEF LineRead
<1>2. Len(line) \in Nat
  BY <1>1
<1>3. CASE Ehlo
  <2>1. verb = "EHLO" /\ pc = "start" /\ UNCHANGED <<verb, line, cmd, path>>
    BY <1>3 DEF Ehlo, Refuse
  <2>2. GreetingRead'
    BY <1>3, <2>1 DEF LineRead, GreetingRead, Ehlo, Refuse
  <2>3. pc' \in {"start", "params", "ok", "invalid_parameters"}
    BY <1>3 DEF Ehlo, Refuse
  <2> QED
    BY <1>1, <2>1, <2>2, <2>3 DEF LineRead, MailRead, RcptRead
<1>4. CASE MailPath
  <2>1. /\ verb = "MAIL" /\ pc = "start" /\ path' = ReversePath(line, 1) /\ UNCHANGED <<verb, line, kept>>
        /\ \/ path'.rest = Bad /\ pc' = "invalid_parameters" /\ UNCHANGED cmd
           \/ path'.rest # Bad /\ pc' = "params" /\ cmd' = path'.rest
    BY <1>4 DEF MailPath
  <2>2. cmd \in 1 .. Len(line) + 1 /\ kept = <<>>
    BY <2>1 DEF LineRead, MailRead
  <2>3. path'.rest # Bad => path'.rest \in 1 .. Len(line) + 1
    BY <1>1, <2>1, PathPlaces DEF Bad
  <2>4. MailRead'
    BY <2>1, <2>2, <2>3 DEF MailRead
  <2> QED
    BY <1>1, <2>1, <2>4 DEF LineRead, GreetingRead, RcptRead
<1>5. CASE TakeParam
  <2> DEFINE p == ESMTPParam(line, cmd + 1)
             taken == Separated /\ p.rest # Bad /\ MailParam(cmd + 1, p)
  <2>1. /\ verb = "MAIL" /\ pc = "params" /\ cmd <= Len(line) /\ UNCHANGED <<verb, line, path, kept>>
        /\ \/ ~taken /\ pc' = "invalid_parameters" /\ UNCHANGED cmd
           \/ taken /\ cmd' = p.rest /\ UNCHANGED pc
    BY <1>5 DEF TakeParam, Refuse
  <2>2. /\ cmd \in 1 .. Len(line) + 1 /\ kept = <<>> /\ path = ReversePath(line, 1)
        /\ path.rest # Bad /\ (ParamsAt(line, path.rest) <=> ParamsAt(line, cmd))
    BY <2>1 DEF LineRead, MailRead
  <2>3. /\ taken => p.rest \in 1 .. Len(line) + 1 /\ (ParamsAt(line, cmd) <=> ParamsAt(line, p.rest))
        /\ ~taken => ~ParamsAt(line, cmd)
    <3>1. cmd \in 1 .. Len(line)
      BY <1>2, <2>1, <2>2
    <3>2. taken <=> /\ line[cmd] = Space /\ p.rest # Bad
                    /\ Same(SubSeq(line, cmd + 1, p.equals - 1), BodyKey)
                    /\ SubSeq(line, p.equals + 1, p.rest - 1) \in BodyValues
      BY DEF Separated, MailParam
    <3> HIDE DEF taken
    <3> QED
      BY <1>1, <3>1, <3>2, ParamTaken
  <2> HIDE DEF taken, p
  <2>4. MailRead'
    BY <2>1, <2>2, <2>3 DEF MailRead
  <2> QED
    BY <1>1, <2>1, <2>4 DEF LineRead, GreetingRead, RcptRead
<1>6. CASE MailEnd
  <2>1. /\ verb = "MAIL" /\ pc = "params" /\ cmd > Len(line) /\ kept' = MailboxText(line, path)
        /\ pc' = "ok" /\ UNCHANGED <<verb, line, cmd, path>>
    BY <1>6 DEF MailEnd
  <2>2. /\ cmd \in 1 .. Len(line) + 1 /\ path = ReversePath(line, 1)
        /\ path.rest # Bad /\ (ParamsAt(line, path.rest) <=> ParamsAt(line, cmd))
    BY <2>1 DEF LineRead, MailRead
  <2>3. cmd = Len(line) + 1
    BY <1>2, <2>1, <2>2
  <2>4. ParamsAt(line, cmd)
    BY <1>1, <2>3, NoParams
  <2>5. MailRead'
    BY <2>1, <2>2, <2>4 DEF MailRead
  <2> QED
    BY <1>1, <2>1, <2>5 DEF LineRead, GreetingRead, RcptRead
<1>7. CASE Rcpt
  <2>1. /\ verb = "RCPT" /\ pc = "start" /\ path' = Path(line, 1) /\ kept' = MailboxText(line, path')
        /\ pc' = IF path'.rest = Bad THEN "invalid_parameters" ELSE "ok"
        /\ UNCHANGED <<verb, line, cmd>>
    BY <1>7 DEF Rcpt
  <2>2. cmd = 1
    BY <2>1 DEF LineRead, RcptRead
  <2>3. RcptRead'
    BY <2>1, <2>2 DEF RcptRead
  <2>4. pc' \in {"start", "params", "ok", "invalid_parameters"}
    BY <2>1
  <2> QED
    BY <1>1, <2>1, <2>3, <2>4 DEF LineRead, GreetingRead, MailRead
<1>8. CASE UNCHANGED vars
  BY <1>8 DEF vars, LineRead, GreetingRead, MailRead, RcptRead
<1> QED
  BY <1>3, <1>4, <1>5, <1>6, <1>7, <1>8 DEF Next

(* What the commands have made of their lines, in every reachable state.    *)
THEOREM LinesAreRead == Spec => []LineRead
<1>1. Init => LineRead
  BY LineStarts
<1>2. LineRead /\ [Next]_vars => LineRead'
  BY LineStep
<1> QED
  BY <1>1, <1>2, PTL DEF Spec

(* A line and its places are what they should be.                           *)
THEOREM LineTypes == Spec => []TypeOK
<1>1. LineRead => TypeOK
  <2> SUFFICES ASSUME LineRead PROVE TypeOK
    OBVIOUS
  <2>1. /\ line \in Seq(DOMAIN Lower) /\ verb \in {"EHLO", "MAIL", "RCPT"}
        /\ pc \in {"start", "params", "ok", "invalid_parameters"}
    BY DEF LineRead
  <2>2. Len(line) \in Nat
    BY <2>1
  <2>3. cmd \in 1 .. Len(line) + 1
    BY <2>1, <2>2 DEF LineRead, GreetingRead, MailRead, RcptRead
  <2>4. path \in {NoMailbox, Path(line, 1), ReversePath(line, 1)}
    BY <2>1 DEF LineRead, GreetingRead, MailRead, RcptRead
  <2>5. /\ path \in [{"local", "at", "rest"} -> 0 .. Len(line) + 1]
        /\ path.local # 0 => path.local \in 1 .. Len(line) /\ path.rest - 2 \in 1 .. Len(line)
    BY <2>1, <2>4, PathPlaces
  <2>6. \/ kept = <<>>
        \/ kept = MailboxText(line, path)
        \/ kept = SubSeq(line, 1, Domain(line, 1) - 1) /\ Domain(line, 1) # 0
    BY <2>1 DEF LineRead, GreetingRead, MailRead, RcptRead, Bad
  <2>7. \E i, j \in 0 .. Len(line) : kept = SubSeq(line, i + 1, j)
    <3>1. CASE kept = <<>>
      <4>1. 0 \in 0 .. Len(line) /\ kept = SubSeq(line, 0 + 1, 0)
        BY <2>1, <2>2, <3>1
      <4> QED
        BY <4>1
    <3>2. CASE kept = SubSeq(line, path.local, path.rest - 2) /\ path.local # 0
      <4> DEFINE i == path.local - 1
                 j == path.rest - 2
      <4>1. i \in 0 .. Len(line) /\ j \in 0 .. Len(line) /\ i + 1 = path.local
        BY <2>2, <2>5, <3>2
      <4> HIDE DEF i
      <4>2. kept = SubSeq(line, i + 1, j)
        BY <3>2, <4>1
      <4> QED
        BY <4>1, <4>2
    <3>3. CASE kept = SubSeq(line, 1, Domain(line, 1) - 1) /\ Domain(line, 1) # 0
      <4> DEFINE j == Domain(line, 1) - 1
      <4>1. 1 \in 1 .. Len(line) + 1
        BY <2>2
      <4>2. Domain(line, 1) \in 0 .. Len(line) + 1
        BY <2>1, <4>1, DomainEnds
      <4>3. 0 \in 0 .. Len(line) /\ j \in 0 .. Len(line) /\ kept = SubSeq(line, 0 + 1, j)
        BY <2>2, <3>3, <4>2
      <4> QED
        BY <4>3
    <3> QED
      BY <2>6, <3>1, <3>2, <3>3 DEF MailboxText, Bad
  <2> QED
    BY <2>1, <2>3, <2>5, <2>7 DEF TypeOK
<1> QED
  BY <1>1, LinesAreRead, PTL

(* A greeting is accepted for a domain, for nothing at all and for a domain *)
(* with a dot at the end of the line, and is kept whole.                    *)
THEOREM GreetingsAreDomains == Spec => []GreetingIsDomain
<1>1. LineRead => GreetingIsDomain
  <2> SUFFICES ASSUME LineRead, Done, verb = "EHLO" PROVE GreetingIsDomain
    BY DEF GreetingIsDomain
  <2>1. line \in Seq(DOMAIN Lower) /\ GreetingRead
    BY DEF LineRead
  <2>2. /\ pc = "ok" <=> Domain(line, 1) # 0
        /\ pc = "ok" => kept = SubSeq(line, 1, Domain(line, 1) - 1)
    BY <2>1 DEF GreetingRead, Done, Bad
  <2> DEFINE longest == Upto(line, Run(line, 1, Label \cup {"."}) - 1)
             bare == IF longest # <<>> /\ longest = line /\ line[Len(line)] = "."
                     THEN Upto(line, Len(line) - 1) ELSE longest
  <2>3. /\ Domain(line, 1) # 0 => Domain(line, 1) = Run(line, 1, Label \cup {"."})
        /\ Domain(line, 1) # 0 <=> (line = <<>> \/ IsDomain(bare)) /\ Len(longest) <= DomainMax
    BY <2>1, GreetingEnds
  <2>4. pc = "ok" => kept = longest
    BY <2>2, <2>3 DEF Upto
  <2> HIDE DEF bare
  <2>5. pc = "ok" <=> (line = <<>> \/ IsDomain(bare)) /\ Len(longest) <= DomainMax
    BY <2>2, <2>3
  <2> HIDE DEF longest
  <2> QED
    BY <2>4, <2>5 DEF GreetingIsDomain, bare, longest
<1> QED
  BY <1>1, LinesAreRead, PTL

(* MAIL and RCPT are accepted exactly for the lines of the grammar.         *)
THEOREM PathsGrammatical == Spec => []PathsAreGrammatical
<1>1. LineRead => PathsAreGrammatical
  <2> SUFFICES ASSUME LineRead, Done, verb # "EHLO"
               PROVE  pc = "ok" <=> (IF verb = "MAIL" THEN MailPathsOf(line) ELSE PathsOf(line)) # {}
    BY DEF PathsAreGrammatical
  <2>1. line \in Seq(DOMAIN Lower) /\ MailRead /\ RcptRead /\ verb \in {"MAIL", "RCPT"}
    BY DEF LineRead
  <2>2. Len(line) \in Nat
    BY <2>1
  <2>3. /\ Path(line, 1) = NoMailbox \/ Path(line, 1).rest - 1 \in PathsOf(line)
        /\ \A e \in PathsOf(line) : Path(line, 1).rest = e + 1
        /\ \A e \in PathsOf(line) : e \in Nat
    BY <2>1, <2>2, PathEnds DEF PathsOf
  <2>4. Path(line, 1).rest # 0 <=> PathsOf(line) # {}
    <3>1. NoMailbox.rest = 0
      BY DEF NoMailbox, Bad
    <3> HIDE DEF NoMailbox
    <3> QED
      BY <2>3, <3>1
  <2>5. CASE verb = "RCPT"
    <3>1. pc = "ok" <=> Path(line, 1).rest # 0
      BY <2>1, <2>5 DEF RcptRead, Done, Bad
    <3> QED
      BY <2>4, <2>5, <3>1
  <2>6. CASE verb = "MAIL"
    <3> DEFINE r == ReversePath(line, 1)
    <3>1. pc = "ok" <=> r.rest # 0 /\ ParamsAt(line, r.rest)
      BY <2>1, <2>6 DEF MailRead, Done, Bad
    <3>2. r.rest # 0 => r.rest \in 1 .. Len(line) + 1
      BY <2>1, PathPlaces
    <3>3. r.rest # 0 => (ParamsAt(line, r.rest) <=> IsParams(From(line, r.rest)))
      BY <2>1, <3>2, ParamsPiece
    <3>4. CASE StartsEmpty(line)
      <4>1. r = [NoMailbox EXCEPT !.rest = 3] /\ PathsOf(line) = {}
        BY <2>1, <3>4, ReversePathEnds
      <4>2. r.rest = 3
        BY <4>1 DEF NoMailbox
      <4>3. MailPathsOf(line) = {k \in {2} : IsParams(From(line, k + 1))}
        BY <3>4, <4>1 DEF MailPathsOf
      <4>4. MailPathsOf(line) # {} <=> IsParams(From(line, 3))
        BY <4>3
      <4> HIDE DEF r
      <4> QED
        BY <2>6, <3>1, <3>3, <4>2, <4>4
    <3>5. CASE ~StartsEmpty(line)
      <4>1. r = Path(line, 1)
        BY <2>1, <3>5, ReversePathEnds
      <4>2. MailPathsOf(line) = {k \in PathsOf(line) : IsParams(From(line, k + 1))}
        BY <3>5 DEF MailPathsOf
      <4>3. \A k \in PathsOf(line) : r.rest = k + 1 /\ r.rest # 0
        BY <2>3, <2>4, <4>1
      <4> HIDE DEF r
      <4>4. MailPathsOf(line) # {} <=> r.rest # 0 /\ IsParams(From(line, r.rest))
        <5>1. r.rest # 0 => \E k \in PathsOf(line) : r.rest = k + 1
          BY <2>3, <2>4, <4>1, <4>3
        <5> QED
          BY <4>2, <4>3, <5>1
      <4> QED
        BY <2>6, <3>1, <3>3, <4>4
    <3> QED
      BY <3>4, <3>5
  <2> QED
    BY <2>1, <2>5, <2>6
<1> QED
  BY <1>1, LinesAreRead, PTL

-----------------------------------------------------------------------------
(* What a quoted string stands for                                          *)

(* v is what t has at the places of M, in their order.                      *)
Spells(v, M, t) ==
  /\ Len(v) = Cardinality(M)
  /\ \A k \in M : v[Cardinality({j \in M : j <= k})] = t[k]

(* One place before the others.                                             *)
LEMMA SpellsMore ==
  ASSUME NEW C, NEW t, NEW M \in SUBSET Nat, IsFiniteSet(M), NEW m \in Nat, \A j \in M : m < j,
         NEW v \in Seq(C), t[m] \in C, Spells(v, M, t)
  PROVE  <<t[m]>> \o v \in Seq(C) /\ Spells(<<t[m]>> \o v, {m} \cup M, t)
<1> DEFINE w == <<t[m]>> \o v
           N == M \cup {m}
<1>1. w \in Seq(C) /\ Len(w) = Len(v) + 1 /\ w[1] = t[m] /\ \A k \in 1 .. Len(v) : w[k + 1] = v[k]
  <2>1. <<t[m]>> \in Seq(C) /\ Len(<<t[m]>>) = 1
    OBVIOUS
  <2> QED
    BY <2>1
<1>2. m \notin M
  OBVIOUS
<1>3. IsFiniteSet(N) /\ Cardinality(N) = Cardinality(M) + 1
  BY <1>2, FS_AddElement
<1>4. Len(v) = Cardinality(M) /\ \A k \in M : v[Cardinality({j \in M : j <= k})] = t[k]
  BY DEF Spells
<1> HIDE DEF w
<1>5. w[Cardinality({j \in N : j <= m})] = t[m]
  <2>0. m <= m /\ \A j \in M : ~(j <= m)
    OBVIOUS
  <2>1. {j \in N : j <= m} = {m}
    BY <2>0
  <2>2. Cardinality({m}) = 1
    BY FS_Singleton
  <2> QED
    BY <1>1, <2>1, <2>2
<1>6. ASSUME NEW k \in M PROVE w[Cardinality({j \in N : j <= k})] = t[k]
  <2> DEFINE L == {j \in M : j <= k}
  <2>1. IsFiniteSet(L) /\ Cardinality(L) <= Cardinality(M)
    <3>1. L \subseteq M
      OBVIOUS
    <3> HIDE DEF L
    <3> QED
      BY <3>1, FS_Subset
  <2>2. {j \in N : j <= k} = L \cup {m} /\ m \notin L
    BY <1>2
  <2>3. k \in L
    OBVIOUS
  <2> HIDE DEF L, N
  <2>4. Cardinality(L \cup {m}) = Cardinality(L) + 1
    BY <2>1, <2>2, FS_AddElement
  <2>5. Cardinality(L) \in Nat /\ Cardinality(M) \in Nat /\ Cardinality(L) # 0
    BY <2>1, <2>3, FS_CardinalityType, FS_EmptySet
  <2>6. Cardinality(L) \in 1 .. Len(v)
    BY <1>4, <2>1, <2>5
  <2>7. v[Cardinality(L)] = t[k]
    BY <1>4 DEF L
  <2> QED
    BY <1>1, <2>2, <2>4, <2>6, <2>7
<1>7. {m} \cup M = N
  OBVIOUS
<1>8. Len(w) = Cardinality(N)
  BY <1>1, <1>3, <1>4
<1>9. \A k \in N : w[Cardinality({j \in N : j <= k})] = t[k]
  BY <1>5, <1>6
<1> HIDE DEF N
<1> QED
  BY <1>1, <1>7, <1>8, <1>9 DEF Spells, w

(* What copy says of a place.                                               *)
CopyStep(t, f, i) ==
  IF i >= Len(t) THEN <<>>
  ELSE IF t[i] = Backslash THEN <<t[i + 1]>> \o f[i + 2]
  ELSE <<t[i]>> \o f[i + 1]

(* f is a solution of the recursion of LocalBuffer.                         *)
Copies(f, t) == \A i \in 1 .. Len(t) + 1 : f[i] = CopyStep(t, f, i)

(* t is the local part of m.                                                *)
BodyIs(t, s, m) == t = SubSeq(s, m.local, m.at - 1)

(* The recursion of LocalBuffer has a solution, and it is made of one.      *)
LEMMA CopySolved ==
  ASSUME NEW C, NEW s, NEW m, NEW t \in Seq(C), BodyIs(t, s, m)
  PROVE  \E f : Copies(f, t) /\ LocalBuffer(s, m) = IF t[1] = Quote THEN f[2] ELSE t
<1>1. Len(t) \in Nat /\ DOMAIN t = 1 .. Len(t) /\ \A k \in 1 .. Len(t) : t[k] \in C
  OBVIOUS
<1> DEFINE n == Len(t) + 1
           V == Seq(C)
           jump == [i \in 1 .. n |-> IF i >= Len(t) THEN 0 ELSE IF t[i] = Backslash THEN i + 2 ELSE i + 1]
           val == [i \in 1 .. n |-> <<>>]
           put(i) == [v \in V |-> IF t[i] = Backslash THEN <<t[i + 1]>> \o v ELSE <<t[i]>> \o v]
           keep == [v \in V |-> v]
           add == [i \in 1 .. n |-> IF i >= Len(t) THEN keep ELSE put(i)]
<1>2. jump \in [1 .. n -> 0 .. n]
  BY <1>1
<1>3. val \in [1 .. n -> V]
  OBVIOUS
<1>4. keep \in [V -> V]
  OBVIOUS
<1>5. ASSUME NEW i \in 1 .. n, ~(i >= Len(t)) PROVE put(i) \in [V -> V]
  <2>1. t[i] \in C /\ t[i + 1] \in C
    BY <1>1, <1>5
  <2>2. ASSUME NEW v \in V PROVE <<t[i]>> \o v \in V /\ <<t[i + 1]>> \o v \in V
    <3> DEFINE x == t[i]
               y == t[i + 1]
    <3>1. x \in C /\ y \in C
      BY <2>1
    <3> HIDE DEF x, y
    <3>2. <<x>> \o v \in Seq(C) /\ <<y>> \o v \in Seq(C)
      BY <3>1
    <3> QED
      BY <3>2 DEF x, y
  <2> HIDE DEF V
  <2> QED
    BY <2>2
<1>6. add \in [1 .. n -> [V -> V]]
  <2> HIDE DEF put, keep, V
  <2> QED
    BY <1>4, <1>5
<1>7. PICK f : Solved(f, 1, n, V, jump, val, add)
  <2> HIDE DEF jump, val, add, n, V
  <2>1. 1 \in Nat /\ n \in Nat
    BY <1>1 DEF n
  <2>2. Jumps(1, n, V, jump, val, add)
    BY <1>2, <1>3, <1>6 DEF Jumps
  <2> QED
    BY <2>1, <2>2, JumpsEnd
<1>8. /\ f \in [1 .. n -> V]
      /\ \A i \in 1 .. n : f[i] = IF jump[i] > i THEN add[i][f[jump[i]]] ELSE val[i]
  <2> HIDE DEF jump, val, add, n, V
  <2> QED
    BY <1>7 DEF Solved
<1>9. ASSUME NEW i \in 1 .. n PROVE f[i] = CopyStep(t, f, i)
  <2>1. f[i] = IF jump[i] > i THEN add[i][f[jump[i]]] ELSE val[i]
    BY <1>8
  <2>2. CASE i >= Len(t)
    <3>1. jump[i] = 0 /\ val[i] = <<>>
      BY <2>2
    <3> HIDE DEF jump, val, add
    <3>2. f[i] = <<>>
      BY <1>1, <2>1, <3>1
    <3> QED
      BY <2>2, <3>2 DEF CopyStep
  <2>3. CASE ~(i >= Len(t))
    <3> DEFINE k == IF t[i] = Backslash THEN i + 2 ELSE i + 1
    <3>1. jump[i] = k /\ add[i] = put(i)
      BY <2>3
    <3>2. k \in 1 .. n /\ k > i
      BY <1>1, <2>3
    <3>3. f[k] \in V
      <4> HIDE DEF k, V, n
      <4> QED
        BY <1>8, <3>2
    <3>4. put(i)[f[k]] = IF t[i] = Backslash THEN <<t[i + 1]>> \o f[k] ELSE <<t[i]>> \o f[k]
      <4> HIDE DEF k, V
      <4> QED
        BY <3>3
    <3> HIDE DEF jump, val, add, put
    <3>5. f[i] = IF t[i] = Backslash THEN <<t[i + 1]>> \o f[k] ELSE <<t[i]>> \o f[k]
      <4> HIDE DEF k
      <4> QED
        BY <2>1, <3>1, <3>2, <3>4
    <3> QED
      BY <2>3, <3>5 DEF CopyStep
  <2> QED
    BY <2>2, <2>3
<1> HIDE DEF jump, val, add, put, keep
<1>10. f = [i \in 1 .. Len(t) + 1 |-> CopyStep(t, f, i)]
  BY <1>8, <1>9
<1> DEFINE body == SubSeq(s, m.local, m.at - 1)
           g == CHOOSE h : h = [i \in 1 .. Len(body) + 1 |->
             IF i >= Len(body) THEN <<>>
             ELSE IF body[i] = Backslash THEN <<body[i + 1]>> \o h[i + 2]
             ELSE <<body[i]>> \o h[i + 1]]
<1>11. LocalBuffer(s, m) = IF body[1] = Quote THEN g[2] ELSE body
  BY DEF LocalBuffer
<1>12. body = t
  BY DEF BodyIs
<1> HIDE DEF body
<1>13. g = CHOOSE h : h = [i \in 1 .. Len(t) + 1 |-> CopyStep(t, h, i)]
  BY <1>12 DEF CopyStep
<1> HIDE DEF g
<1>14. g = [i \in 1 .. Len(t) + 1 |-> CopyStep(t, g, i)]
  <2> HIDE DEF n
  <2> QED
    BY <1>10, <1>13
<1>15. Copies(g, t)
  BY <1>14 DEF Copies
<1> QED
  BY <1>11, <1>12, <1>15

(* The places of a quoted string that are meant, from i on.                 *)
Meant(t, i) == {j \in i .. Len(t) - 1 : j # 1 /\ (t[j] = Backslash => Escaped(t, j))}

(* A place before the last but not next to it.                              *)
LEMMA StepBelow ==
  ASSUME NEW i \in Nat, NEW n \in Nat, i < n, i + 1 # n
  PROVE  i + 1 < n
OBVIOUS

(* Places behind the first.                                                 *)
LEMMA AboveOne ==
  ASSUME NEW i \in Nat, NEW n \in Nat, i > 1
  PROVE  /\ i < n => i \in i .. n - 1 /\ i # 1 /\ \A j \in i + 1 .. n - 1 : j \in i .. n - 1
         /\ i + 1 < n => /\ i + 1 \in i .. n - 1 /\ i + 1 # 1
                         /\ \A j \in (i + 1) + 1 .. n - 1 : j \in i .. n - 1
OBVIOUS

(* The second place.                                                        *)
LEMMA TwoInside ==
  ASSUME NEW n \in Nat, n > 1
  PROVE  2 \in 0 .. n + 1
OBVIOUS

(* How many numbers there are up to n, and in a part of them.               *)
LEMMA UptoCard ==
  ASSUME NEW n \in Nat
  PROVE  /\ IsFiniteSet(1 .. n) /\ Cardinality(1 .. n) = n
         /\ \A S \in SUBSET (1 .. n) : Cardinality(S) \in Nat /\ Cardinality(S) <= n
<1>1. IsFiniteSet(1 .. n) /\ Cardinality(1 .. n) = IF 1 > n THEN 0 ELSE n - 1 + 1
  BY FS_Interval
<1>2. IsFiniteSet(1 .. n) /\ Cardinality(1 .. n) = n
  BY <1>1
<1>3. ASSUME NEW S \in SUBSET (1 .. n) PROVE Cardinality(S) \in Nat /\ Cardinality(S) <= n
  <2>1. IsFiniteSet(S) /\ Cardinality(S) <= Cardinality(1 .. n)
    BY <1>2, FS_Subset
  <2> QED
    BY <1>2, <2>1, FS_CardinalityType
<1> QED
  BY <1>2, <1>3

(* What is copied from an unescaped place on is what is meant there.        *)
LEMMA CopyEnds ==
  ASSUME NEW C, NEW t \in Seq(C), IsQuoted(t), NEW f, Copies(f, t)
  PROVE  f[2] \in Seq(C) /\ Spells(f[2], Meant(t, 2), t)
<1>1. Len(t) \in Nat /\ DOMAIN t = 1 .. Len(t) /\ \A k \in 1 .. Len(t) : t[k] \in C
  OBVIOUS
<1>2. /\ Len(t) > 1 /\ t[1] = Quote
      /\ \A i \in 2 .. Len(t) : i = Len(t) <=> t[i] = Quote /\ ~Escaped(t, i)
  BY DEF IsQuoted
<1> DEFINE n == Len(t) + 1
           E(i) == Escaped(t, i)
           Right(i) == f[i] \in Seq(C) /\ Spells(f[i], Meant(t, i), t)
           T == {i \in 0 .. n : i > 1 /\ ~E(i) => Right(i)}
<1>3. ASSUME NEW i \in Nat, i >= 1 PROVE E(i + 1) <=> t[i] = Backslash /\ ~E(i)
  <2>1. \A k : E(k) <=> EscapedAt(t, 1, k)
    BY DEF Escaped, EscapedAt
  <2> HIDE DEF E
  <2>2. EscapedAt(t, 1, i + 1) <=> t[i] = Backslash /\ ~EscapedAt(t, 1, i)
    <3>1. 1 \in Nat /\ 1 <= i
      BY <1>3
    <3> QED
      BY <3>1, EscapedStep
  <2> QED
    BY <2>1, <2>2
<1>4. \A i : Meant(t, i) = {j \in i .. Len(t) - 1 : j # 1 /\ (t[j] = Backslash => E(j))}
  BY DEF Meant
<1> HIDE DEF E
<1>5. \A i \in Nat : Meant(t, i) \in SUBSET Nat /\ IsFiniteSet(Meant(t, i))
  <2> SUFFICES ASSUME NEW i \in Nat PROVE Meant(t, i) \in SUBSET Nat /\ IsFiniteSet(Meant(t, i))
    OBVIOUS
  <2>1. Meant(t, i) \subseteq i .. Len(t) - 1
    BY <1>4
  <2>2. IsFiniteSet(i .. Len(t) - 1)
    BY <1>1, FS_Interval
  <2>3. IsFiniteSet(Meant(t, i))
    BY <2>1, <2>2, FS_Subset
  <2>4. i .. Len(t) - 1 \subseteq Nat
    BY <1>1
  <2> QED
    BY <2>1, <2>3, <2>4
<1>6. ASSUME NEW i \in 0 .. n, \A k \in i + 1 .. n : k \in T PROVE i \in T
  <2> SUFFICES ASSUME i > 1, ~E(i) PROVE Right(i)
    OBVIOUS
  <2>1. i \in 1 .. n /\ i \in Nat /\ f[i] = CopyStep(t, f, i)
    BY <1>1 DEF Copies
(* The next place that is copied is p.                                      *)
  <2>2. ASSUME NEW p \in {i, i + 1}, p < Len(t), ~E(p + 1),
               f[i] = <<t[p]>> \o f[p + 1], Meant(t, i) = {p} \cup Meant(t, p + 1)
        PROVE  Right(i)
    <3>1. p + 1 \in i + 1 .. n /\ p + 1 > 1 /\ p \in 1 .. Len(t) /\ p \in Nat /\ p + 1 \in Nat
      BY <1>1, <2>1, <2>2
    <3>2. p + 1 \in T
      BY <1>6, <3>1
    <3>3. f[p + 1] \in Seq(C) /\ Spells(f[p + 1], Meant(t, p + 1), t)
      BY <2>2, <3>1, <3>2
    <3>4. Meant(t, p + 1) \in SUBSET Nat /\ IsFiniteSet(Meant(t, p + 1)) /\ \A j \in Meant(t, p + 1) : p < j
      <4>1. \A j \in Meant(t, p + 1) : p < j
        BY <1>1, <1>4, <3>1
      <4> QED
        BY <1>5, <3>1, <4>1
    <3>5. t[p] \in C
      BY <1>1, <3>1
    <3> DEFINE v == f[p + 1]
               M == Meant(t, p + 1)
    <3> HIDE DEF v, M
    <3>6. <<t[p]>> \o v \in Seq(C) /\ Spells(<<t[p]>> \o v, {p} \cup M, t)
      BY <3>1, <3>3, <3>4, <3>5, SpellsMore DEF v, M
    <3> QED
      BY <2>2, <3>6 DEF v, M
  <2> HIDE DEF Right, T
  <2>3. CASE i >= Len(t)
    <3>1. f[i] = <<>>
      BY <2>1, <2>3 DEF CopyStep
    <3>2. Meant(t, i) = {}
      BY <1>1, <1>4, <2>1, <2>3
    <3>3. <<>> \in Seq(C) /\ Len(<<>>) = 0
      OBVIOUS
    <3> QED
      BY <3>1, <3>2, <3>3, FS_EmptySet DEF Right, Spells
  <2>4. CASE i < Len(t) /\ t[i] # Backslash
    <3>1. f[i] = <<t[i]>> \o f[i + 1]
      BY <1>1, <2>1, <2>4 DEF CopyStep
    <3>2. ~E(i + 1)
      <4>1. i \in Nat /\ i >= 1 /\ t[i] # Backslash
        BY <2>1, <2>4
      <4> QED
        BY <1>3, <4>1
    <3>3. Meant(t, i) = {i} \cup Meant(t, i + 1)
      <4>1. \A j \in i .. Len(t) - 1 : j = i \/ j \in i + 1 .. Len(t) - 1
        BY <1>1, <2>1
      <4>2. i \in i .. Len(t) - 1 /\ i # 1 /\ \A j \in i + 1 .. Len(t) - 1 : j \in i .. Len(t) - 1
        <5>1. Len(t) \in Nat /\ i \in Nat /\ i > 1 /\ i < Len(t)
          BY <1>1, <2>1, <2>4
        <5> QED
          BY <5>1, AboveOne
      <4> QED
        BY <1>4, <2>4, <4>1, <4>2
    <3> QED
      BY <2>2, <2>4, <3>1, <3>2, <3>3
  <2>5. CASE i < Len(t) /\ t[i] = Backslash
    <3>1. f[i] = <<t[i + 1]>> \o f[(i + 1) + 1]
      <4>1. (i + 1) + 1 = i + 2
        BY <2>1
      <4> QED
        BY <1>1, <2>1, <2>5, <4>1 DEF CopyStep
    <3>2. E(i + 1)
      <4>1. i \in Nat /\ i >= 1 /\ t[i] = Backslash
        BY <2>1, <2>5
      <4> QED
        BY <1>3, <4>1
    <3>3. i + 1 # Len(t) /\ i + 1 < Len(t)
      <4>1. i + 1 \in 2 .. Len(t)
        BY <1>1, <2>1, <2>5
      <4>2. i + 1 # Len(t)
        BY <1>2, <3>2, <4>1 DEF E
      <4> QED
        <5>1. Len(t) \in Nat /\ i \in Nat /\ i < Len(t)
          BY <1>1, <2>1, <2>5
        <5> QED
          BY <4>2, <5>1, StepBelow
    <3>4. ~E((i + 1) + 1)
      <4>1. i + 1 \in Nat /\ i + 1 >= 1
        BY <2>1
      <4> QED
        BY <1>3, <3>2, <4>1
    <3>5. Meant(t, i) = {i + 1} \cup Meant(t, (i + 1) + 1)
      <4>1. \A j \in i .. Len(t) - 1 : j = i \/ j = i + 1 \/ j \in (i + 1) + 1 .. Len(t) - 1
        BY <1>1, <2>1
      <4>2. /\ i + 1 \in i .. Len(t) - 1 /\ i + 1 # 1
            /\ \A j \in (i + 1) + 1 .. Len(t) - 1 : j \in i .. Len(t) - 1
        <5>1. Len(t) \in Nat /\ i \in Nat /\ i > 1 /\ i + 1 < Len(t)
          BY <1>1, <2>1, <3>3
        <5> QED
          BY <5>1, AboveOne
      <4> QED
        BY <1>4, <2>5, <3>2, <4>1, <4>2
    <3> QED
      BY <2>2, <3>1, <3>3, <3>4, <3>5
  <2> QED
    BY <1>1, <2>1, <2>3, <2>4, <2>5
<1>7. \A i \in 0 .. n : i \in T
  <2> HIDE DEF T
  <2>1. n \in Nat
    BY <1>1
  <2> HIDE DEF n
  <2> QED
    BY <1>6, <2>1, Downward
<1>8. ~E(2)
  <2>1. Quote # Backslash
    BY DEF Quote, Backslash
  <2>2. 1 \in Nat /\ 1 >= 1 /\ 1 + 1 = 2
    OBVIOUS
  <2>3. E(1 + 1) <=> t[1] = Backslash /\ ~E(1)
    BY <1>3, <2>2
  <2> QED
    BY <1>2, <2>1, <2>2, <2>3
<1>9. 2 \in 0 .. n
  <2>1. Len(t) \in Nat /\ Len(t) > 1
    BY <1>1, <1>2
  <2> QED
    BY <2>1, TwoInside
<1> HIDE DEF Right
<1>10. Right(2)
  BY <1>7, <1>8, <1>9
<1> QED
  BY <1>10 DEF Right

(* The buffer of a local part of the grammar.                               *)
LEMMA BufferEnds ==
  ASSUME NEW C, NEW s, NEW m, NEW t \in Seq(C), BodyIs(t, s, m), IsLocal(t)
  PROVE  LET quoted == t[1] = Quote
             meant == {i \in DOMAIN t :
                         quoted => /\ i \notin {1, Len(t)}
                                   /\ t[i] = Backslash => Escaped(t, i)}
         IN Spells(LocalBuffer(s, m), meant, t) /\ Cardinality(meant) <= LocalMax
<1>1. Len(t) \in Nat /\ DOMAIN t = 1 .. Len(t) /\ Len(t) <= LocalMax /\ LocalMax \in Nat
  BY LimitsAssumption DEF IsLocal
<1> DEFINE meant == {i \in DOMAIN t :
                       t[1] = Quote => /\ i \notin {1, Len(t)}
                                       /\ t[i] = Backslash => Escaped(t, i)}
<1>2. PICK f : Copies(f, t) /\ LocalBuffer(s, m) = IF t[1] = Quote THEN f[2] ELSE t
  <2> HIDE DEF meant
  <2> QED
    BY CopySolved
<1>3. Cardinality(meant) <= LocalMax
  <2>1. meant \in SUBSET (1 .. Len(t))
    BY <1>1
  <2> HIDE DEF meant
  <2>2. Cardinality(meant) \in Nat /\ Cardinality(meant) <= Len(t)
    BY <1>1, <2>1, UptoCard
  <2> QED
    BY <1>1, <2>2
<1>4. CASE t[1] = Quote
  <2>1. IsQuoted(t)
    <3> SUFFICES ASSUME Dotted(t, Atext) PROVE FALSE
      BY DEF IsLocal
    <3>1. 1 \in DOMAIN t
      BY <1>1 DEF Dotted
    <3>2. t[1] \in Atext \cup {"."}
      BY <3>1 DEF Dotted
    <3>3. Quote \notin Atext \cup {"."}
      BY MarksApart DEF Marks, Quote
    <3> QED
      BY <1>4, <3>2, <3>3
  <2>2. Spells(f[2], Meant(t, 2), t)
    BY <1>2, <2>1, CopyEnds
  <2>3. meant = Meant(t, 2)
    <3>1. \A i : i \in DOMAIN t /\ i \notin {1, Len(t)} <=> i \in 2 .. Len(t) - 1
      BY <1>1
    <3>2. \A i \in 2 .. Len(t) - 1 : i # 1
      BY <1>1
    <3> QED
      BY <1>4, <3>1, <3>2 DEF Meant
  <2> HIDE DEF meant
  <2> QED
    BY <1>2, <1>3, <1>4, <2>2, <2>3 DEF meant
<1>5. CASE t[1] # Quote
  <2>1. meant = 1 .. Len(t)
    BY <1>1, <1>5
  <2>2. \A k \in 0 .. Len(t) : Cardinality(1 .. k) = k
    <3> SUFFICES ASSUME NEW k \in 0 .. Len(t) PROVE Cardinality(1 .. k) = k
      OBVIOUS
    <3>1. k \in Nat
      BY <1>1
    <3> QED
      BY <3>1, UptoCard
  <2>3. \A k \in 1 .. Len(t) : {j \in 1 .. Len(t) : j <= k} = 1 .. k
    BY <1>1
  <2>4. Len(t) \in 0 .. Len(t) /\ \A k \in 1 .. Len(t) : k \in 0 .. Len(t)
    BY <1>1
  <2>5. Spells(t, 1 .. Len(t), t)
    BY <2>2, <2>3, <2>4 DEF Spells
  <2> HIDE DEF meant
  <2> QED
    BY <1>2, <1>3, <1>5, <2>1, <2>5 DEF meant
<1> QED
  BY <1>4, <1>5

(* What is kept of a path is its mailbox, whole and without the route, and  *)
(* the buffer of its local part holds what the client meant.                *)
THEOREM PathsAreMeant == Spec => []PathIsMeant
<1>1. LineRead => KeptIsMailbox
  <2> SUFFICES ASSUME LineRead, pc = "ok", verb # "EHLO"
               PROVE  \/ verb = "MAIL" /\ kept = <<>> /\ StartsEmpty(line)
                      \/ \E n \in PathsOf(line) :
                           \E p \in Parts(Inside(Upto(line, n))) :
                             kept = From(Inside(Upto(line, n)), p[1] + 1)
    BY Zenon DEF KeptIsMailbox
  <2>1. /\ line \in Seq(DOMAIN Lower) /\ verb \in {"MAIL", "RCPT"} /\ kept = MailboxText(line, path)
        /\ path.rest # 0
        /\ path = IF verb = "MAIL" THEN ReversePath(line, 1) ELSE Path(line, 1)
    BY DEF LineRead, MailRead, RcptRead, Bad
  <2>2. CASE verb = "MAIL" /\ StartsEmpty(line)
    <3>1. path = [NoMailbox EXCEPT !.rest = 3]
      BY <2>1, <2>2, ReversePathEnds
    <3>2. path.local = Bad
      BY <3>1 DEF NoMailbox
    <3> QED
      BY <2>1, <2>2, <3>2 DEF MailboxText
  <2>3. CASE path = Path(line, 1)
    <3>1. path # NoMailbox
      BY <2>1 DEF NoMailbox, Bad
    <3> DEFINE n == path.rest - 1
    <3>2. /\ path \in [{"local", "at", "rest"} -> 1 .. Len(line) + 1]
          /\ n \in PathsOf(line) /\ MailboxAt(line, 2, path.local, path.at, n)
      BY <2>1, <2>3, <3>1, PathEnds
    <3>3. n \in 2 .. Len(line) /\ path.local \in Nat /\ path.at \in Nat /\ path.local # 0
          /\ path.rest \in Nat
      <4>1. Len(line) \in Nat
        BY <2>1
      <4>2. n \in Nat
        BY <3>2, <4>1 DEF PathsOf
      <4>3. n \in 2 .. Len(line)
        BY <2>1, <3>2, <4>2, PathsOfAre
      <4> QED
        BY <3>2, <4>1, <4>3
    <3>4. n - 1 = path.rest - 2
      BY <3>3
    <3> HIDE DEF n
    <3>5. PICK p \in Parts(Inside(Upto(line, n))) : p[1] = path.local - 2
      BY <2>1, <3>2, <3>3, PartsPiece
    <3>6. From(Inside(Upto(line, n)), p[1] + 1) = SubSeq(line, p[1] + 2, n - 1)
      BY <2>1, <3>3, PartsPiece
    <3>7. p[1] + 2 = path.local
      BY <3>3, <3>5
    <3>8. kept = From(Inside(Upto(line, n)), p[1] + 1)
      BY <2>1, <3>3, <3>4, <3>6, <3>7 DEF MailboxText, Bad
    <3> QED
      BY <3>2, <3>8
  <2> QED
    BY <2>1, <2>2, <2>3, ReversePathEnds
<1>2. LineRead => BufferIsUnquoted
  <2> SUFFICES ASSUME LineRead, pc = "ok", path.local # 0 PROVE BufferIsUnquoted
    BY DEF BufferIsUnquoted, Bad
  <2>1. /\ line \in Seq(DOMAIN Lower)
        /\ path \in {NoMailbox, ReversePath(line, 1), Path(line, 1)}
    BY DEF LineRead, GreetingRead, MailRead, RcptRead
  <2>2. path = Path(line, 1) /\ path # NoMailbox
    <3>1. NoMailbox.local = 0 /\ [NoMailbox EXCEPT !.rest = 3].local = 0
      BY DEF NoMailbox, Bad
    <3> QED
      BY <2>1, <3>1, ReversePathEnds
  <2>3. /\ path \in [{"local", "at", "rest"} -> 1 .. Len(line) + 1]
        /\ MailboxAt(line, 2, path.local, path.at, path.rest - 1)
    BY <2>1, <2>2, PathEnds
  <2> DEFINE t == SubSeq(line, path.local, path.at - 1)
  <2>4. t \in Seq(DOMAIN Lower) /\ IsLocal(t)
    <3>1. path.local \in 1 .. Len(line) + 1 /\ path.at \in 1 .. Len(line) + 1 /\ path.local <= path.at
      BY <2>3 DEF MailboxAt
    <3>2. path.at \in path.local .. Len(line) + 1
      BY <2>1, <3>1
    <3>3. t \in Seq(DOMAIN Lower)
      BY <2>1, <3>1, <3>2, Piece
    <3> QED
      BY <2>3, <3>3 DEF MailboxAt
  <2> DEFINE meant == {i \in DOMAIN t :
                         t[1] = Quote => /\ i \notin {1, Len(t)}
                                         /\ t[i] = Backslash => Escaped(t, i)}
  <2>5. Spells(LocalBuffer(line, path), meant, t) /\ Cardinality(meant) <= LocalMax
    <3>1. BodyIs(t, line, path)
      BY DEF BodyIs
    <3> HIDE DEF t
    <3> QED
      BY <2>4, <3>1, BufferEnds
  <2>6. /\ Len(LocalBuffer(line, path)) = Cardinality(meant)
        /\ Len(LocalBuffer(line, path)) <= LocalMax
        /\ \A i \in meant : LocalBuffer(line, path)[Cardinality({j \in meant : j <= i})] = t[i]
    <3> HIDE DEF meant, t
    <3> QED
      BY <2>5 DEF Spells
  <2> HIDE DEF meant
  <2> QED
    BY <2>6 DEF BufferIsUnquoted, meant
<1> QED
  BY <1>1, <1>2, LinesAreRead, PTL DEF PathIsMeant

=============================================================================
