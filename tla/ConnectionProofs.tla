-------------------------- MODULE ConnectionProofs --------------------------
(***************************************************************************)
(* Theorems about Connection, for every queue limit, every set of requests *)
(* and every file system.  First the handler: its answer to any request    *)
(* fits it, whatever the document root is and however long the target.     *)
(* Then the connection: what is proved of a session in HttpSessionProofs   *)
(* holds of one with its request handler, the handler's responses stay     *)
(* with the session's work items, a peer loses its place only where the    *)
(* handler sends a body it should not, and so every answer that is queued  *)
(* is the one its request should get.                                      *)
(***************************************************************************)
EXTENDS Connection, HttpSessionProofs, WellFoundedInduction

-----------------------------------------------------------------------------
(* Induction over numbers, and the functions that recursion defines.       *)

\* A set of numbers has a least one: < is well founded on Nat.
LEMMA LeastNumber ==
  ASSUME NEW T, T \subseteq Nat, T # {}
  PROVE  \E m \in T : \A k \in T : m <= k
<1> DEFINE R == OpToRel(<, Nat)
<1>1. IsWellFoundedOn(R, Nat)
  BY NatLessThanWellFounded
<1>2. ASSUME NEW m \in Nat, NEW k \in Nat, k < m
      PROVE  <<k, m>> \in R
  <2>1. <<k, m>> \in Nat \X Nat
    OBVIOUS
  <2>2. <<k, m>>[1] < <<k, m>>[2]
    BY <1>2
  <2> QED
    BY <2>1, <2>2, Zenon DEF OpToRel
<1> HIDE DEF R
<1>3. PICK m \in T : \A k \in T : ~(<<k, m>> \in R)
  BY <1>1, WFMin
<1>4. \A k \in T : ~(k < m)
  BY <1>2, <1>3
<1> QED
  BY <1>4

\* So what is true of 0, and of n + 1 whenever it is true of n, is true of
\* every number.
LEMMA Induction ==
  ASSUME NEW T, 0 \in T, \A n \in Nat : n \in T => n + 1 \in T
  PROVE  \A n \in Nat : n \in T
<1> DEFINE B == Nat \ T
<1> SUFFICES ASSUME B # {} PROVE FALSE
  OBVIOUS
<1>1. PICK m \in B : \A k \in B : m <= k
  BY LeastNumber
<1>2. m # 0 /\ m - 1 \in Nat /\ m - 1 \notin B
  BY <1>1
<1> QED
  BY <1>1, <1>2

\* The functions that a recursive definition with values in S describes: base
\* at 0, and G of the value before at every other number up to N.
Recursive(S, base, N, G) ==
  {f \in [0 .. N -> S] :
     f[0] = base /\ \A n \in 1 .. N : f[n] = G[<<f[n - 1], n>>]}

\* There is one.  So the CHOOSE a recursive function stands for chooses it.
LEMMA Recursion ==
  ASSUME NEW S, NEW base \in S, NEW N \in Nat,
         NEW G \in [S \X (1 .. N) -> S]
  PROVE  Recursive(S, base, N, G) # {}
<1> DEFINE Defined(k, f) ==
             f[0] = base /\ \A n \in 1 .. k : f[n] = G[<<f[n - 1], n>>]
           T == {k \in Nat : k <= N => \E f \in [0 .. k -> S] : Defined(k, f)}
<1>1. 0 \in T
  <2>1. [n \in 0 .. 0 |-> base] \in [0 .. 0 -> S]
    OBVIOUS
  <2>2. Defined(0, [n \in 0 .. 0 |-> base])
    OBVIOUS
  <2> QED
    BY <2>1, <2>2
<1>2. ASSUME NEW k \in Nat, k \in T
      PROVE  k + 1 \in T
  <2> SUFFICES ASSUME k + 1 <= N
               PROVE  \E f \in [0 .. k + 1 -> S] : Defined(k + 1, f)
    OBVIOUS
  <2>1. PICK f \in [0 .. k -> S] : Defined(k, f)
    BY <1>2
  <2> DEFINE v == G[<<f[k], k + 1>>]
             g == [n \in 0 .. k + 1 |-> IF n = k + 1 THEN v ELSE f[n]]
  <2>2. v \in S
    <3>1. k + 1 \in 1 .. N /\ f[k] \in S
      OBVIOUS
    <3>2. <<f[k], k + 1>> \in S \X (1 .. N)
      BY <3>1
    <3> QED
      BY <3>2
  <2>3. g \in [0 .. k + 1 -> S]
    BY <2>2
  <2>4. \A n \in 0 .. k : g[n] = f[n]
    OBVIOUS
  <2>5. g[k + 1] = v
    OBVIOUS
  <2> HIDE DEF g
  <2>6. \A n \in 1 .. k : g[n] = G[<<g[n - 1], n>>]
    BY <2>1, <2>4
  <2>7. g[k + 1] = G[<<g[k], k + 1>>]
    BY <2>4, <2>5
  <2>8. g[0] = base
    BY <2>1, <2>4
  <2>9. \A n \in 1 .. k + 1 : n \in 1 .. k \/ n = k + 1
    OBVIOUS
  <2>10. \A n \in 1 .. k + 1 : g[n] = G[<<g[n - 1], n>>]
    <3>1. ASSUME NEW n \in 1 .. k + 1, n = k + 1
          PROVE  g[n] = G[<<g[n - 1], n>>]
      <4>1. n - 1 = k
        BY <3>1
      <4> QED
        BY <3>1, <4>1, <2>7
    <3> QED
      BY <3>1, <2>6, <2>9
  <2> QED
    BY <2>3, <2>8, <2>10
<1>3. \A k \in Nat : k \in T
  <2> HIDE DEF T
  <2> QED
    BY <1>1, <1>2, Induction
<1>4. N \in T
  <2> HIDE DEF T
  <2> QED
    BY <1>3
<1>5. PICK f \in [0 .. N -> S] : Defined(N, f)
  BY <1>4
<1>6. f \in Recursive(S, base, N, G)
  BY <1>5 DEF Recursive
<1> QED
  BY <1>6

-----------------------------------------------------------------------------
(* Sequences.                                                              *)

\* All of a sequence but its last element.
LEMMA FrontProperties ==
  ASSUME NEW S, NEW s \in Seq(S), s # <<>>
  PROVE  /\ Front(s) \in Seq(S)
         /\ Len(Front(s)) = Len(s) - 1
         /\ \A i \in 1 .. Len(s) - 1 : Front(s)[i] = s[i]
<1> DEFINE n == Len(s) - 1
<1>1. n \in Nat /\ Front(s) = SubSeq(s, 1, n)
  BY EmptySeq DEF Front
<1>2. \A i \in 1 .. n : s[i] \in S
  BY <1>1, ElementOfSeq
<1> HIDE DEF n
<1>3. /\ SubSeq(s, 1, n) \in Seq(S)
      /\ Len(SubSeq(s, 1, n)) = IF 1 <= n THEN n - 1 + 1 ELSE 0
      /\ \A i \in 1 .. n - 1 + 1 : SubSeq(s, 1, n)[i] = s[1 + i - 1]
  BY <1>1, <1>2, SubSeqProperties
<1>4. Len(Front(s)) = n
  BY <1>1, <1>3
<1>5. \A i \in 1 .. n : Front(s)[i] = s[i]
  BY <1>1, <1>3
<1> QED
  BY <1>1, <1>3, <1>4, <1>5 DEF n

\* A sequence is its front with its last element behind.
LEMMA FrontAndLast ==
  ASSUME NEW S, NEW s \in Seq(S), s # <<>>
  PROVE  /\ Last(s) \in S /\ <<Last(s)>> \in Seq(S)
         /\ s = Front(s) \o <<Last(s)>>
<1> DEFINE n == Len(s) - 1
           t == Front(s) \o <<Last(s)>>
<1>1. /\ n \in Nat /\ Len(s) = n + 1 /\ Front(s) \in Seq(S)
      /\ Len(Front(s)) = n /\ \A i \in 1 .. n : Front(s)[i] = s[i]
  BY EmptySeq, FrontProperties
<1>2. Last(s) = s[n + 1] /\ Last(s) \in S /\ <<Last(s)>> \in Seq(S)
  BY <1>1, ElementOfSeq DEF Last
<1> HIDE DEF n
<1>3. /\ t \in Seq(S) /\ Len(t) = n + 1
      /\ \A i \in 1 .. n + 1 : t[i] = IF i <= n THEN Front(s)[i]
                                        ELSE <<Last(s)>>[i - n]
  BY <1>1, <1>2, ConcatProperties
<1> HIDE DEF t
<1>4. \A i \in 1 .. n + 1 : t[i] = s[i]
  <2>1. ASSUME NEW i \in 1 .. n + 1, i <= n PROVE t[i] = s[i]
    BY <2>1, <1>1, <1>3
  <2>2. t[n + 1] = s[n + 1]
    BY <1>1, <1>2, <1>3
  <2> QED
    BY <2>1, <2>2, <1>1
<1>5. s = t
  BY <1>1, <1>3, <1>4, SeqEqual
<1> QED
  BY <1>2, <1>5 DEF t

\* The last element of two sequences together.
LEMMA LastOfConcat ==
  ASSUME NEW S, NEW s \in Seq(S), NEW t \in Seq(S), t # <<>>
  PROVE  s \o t # <<>> /\ Last(s \o t) = Last(t)
<1>1. /\ Len(s) \in Nat /\ Len(t) \in Nat \ {0}
      /\ s \o t \in Seq(S) /\ Len(s \o t) = Len(s) + Len(t)
      /\ \A i \in 1 .. Len(s) + Len(t) :
           (s \o t)[i] = IF i <= Len(s) THEN s[i] ELSE t[i - Len(s)]
  BY ConcatProperties, EmptySeq, LenProperties
<1>2. (s \o t)[Len(s) + Len(t)] = t[Len(t)]
  BY <1>1
<1>3. s \o t # <<>>
  BY <1>1
<1> QED
  BY <1>1, <1>2, <1>3 DEF Last

\* Appending to the second of two sequences appends to both together.
LEMMA ConcatAppend ==
  ASSUME NEW S, NEW s \in Seq(S), NEW t \in Seq(S), NEW e \in S
  PROVE  s \o t \in Seq(S) /\ s \o Append(t, e) = Append(s \o t, e)
<1>1. s \o t \in Seq(S) /\ <<e>> \in Seq(S)
  BY ConcatProperties
<1>2. Append(t, e) = t \o <<e>> /\ Append(s \o t, e) = (s \o t) \o <<e>>
  BY <1>1, AppendIsConcat
<1> QED
  BY <1>1, <1>2, ConcatAssociative

\* A sequence is a prefix of itself with another behind.
LEMMA ConcatIsBelow ==
  ASSUME NEW S, NEW s \in Seq(S), NEW t \in Seq(S)
  PROVE  IsPrefix(s, s \o t)
<1>1. /\ Len(s) \in Nat /\ Len(t) \in Nat /\ s \o t \in Seq(S)
      /\ Len(s \o t) = Len(s) + Len(t)
  BY ConcatProperties, LenProperties
<1>2. SubSeq(s, 1, Len(s)) = SubSeq(s \o t, 1, Len(s))
  <2>1. CASE Len(s) = 0
    BY <2>1, SubSeqEmpty
  <2>2. CASE Len(s) # 0
    BY <2>2, <1>1, SubSeqOfConcat1
  <2> QED
    BY <2>1, <2>2
<1> QED
  BY <1>1, <1>2 DEF IsPrefix

-----------------------------------------------------------------------------
(* Walking along a path, whatever the file system.                         *)

\* Where a walk may have got to.
Place == [state : {"found", "missing", "error"}, loc : Seq(Name)]

\* A token leads from a place to a place.
LEMMA WalkType ==
  ASSUME NEW at \in Place, NEW token \in Token
  PROVE  Walk(at, token) \in Place
<1>1. at.loc \in Seq(Name)
  BY DEF Place
<1>2. at.loc # <<>> => Front(at.loc) \in Seq(Name)
  BY <1>1, FrontProperties
<1>3. token # "/" => Append(at.loc, token) \in Seq(Name)
  BY <1>1, AppendProperties DEF Token
<1> QED
  BY <1>1, <1>2, <1>3 DEF Walk, Place

\* WalkAlong is the function its recursive definition describes.
LEMMA WalkAlongDef ==
  ASSUME NEW from \in Place, NEW path \in Seq(Token)
  PROVE  LET at == WalkAlong(from, path)
         IN  /\ at \in [0 .. Len(path) -> Place]
             /\ at[0] = from
             /\ \A n \in 1 .. Len(path) : at[n] = Walk(at[n - 1], path[n])
<1> DEFINE N == Len(path)
           G == [p \in Place \X (1 .. N) |-> Walk(p[1], path[p[2]])]
           D(f) == [n \in 0 .. N |-> IF n = 0 THEN from
                                     ELSE Walk(f[n - 1], path[n])]
<1>0. N \in Nat /\ \A n \in 1 .. N : path[n] \in Token
  BY LenProperties, ElementOfSeq
<1>1. \A s \in Place, n \in 1 .. N : G[<<s, n>>] = Walk(s, path[n])
  OBVIOUS
<1>2. G \in [Place \X (1 .. N) -> Place]
  BY <1>0, WalkType
<1> HIDE DEF G, N
<1>3. PICK f \in [0 .. N -> Place] :
        f[0] = from /\ \A n \in 1 .. N : f[n] = G[<<f[n - 1], n>>]
  <2>1. Recursive(Place, from, N, G) # {}
    BY <1>0, <1>2, Recursion
  <2> QED
    BY <2>1 DEF Recursive
<1>4. ASSUME NEW n \in 1 .. N
      PROVE  f[n - 1] \in Place /\ f[n] = Walk(f[n - 1], path[n])
  <2>1. n - 1 \in 0 .. N
    BY <1>0 DEF N
  <2>2. f[n - 1] \in Place
    BY <2>1
  <2> QED
    BY <2>2, <1>1, <1>3
<1>5. f = D(f)
  BY <1>0, <1>3, <1>4
<1> DEFINE at == WalkAlong(from, path)
<1>6. at = CHOOSE g : g = D(g)
  BY DEF WalkAlong, N
<1>7. at = D(at)
  BY <1>5, <1>6
<1> HIDE DEF at
<1>8. at[0] = from /\ \A n \in 1 .. N : at[n] = Walk(at[n - 1], path[n])
  BY <1>0, <1>7
<1> DEFINE T == {n \in Nat : n <= N => at[n] \in Place}
<1>9. \A n \in Nat : n \in T
  <2>1. 0 \in T
    BY <1>8
  <2>2. ASSUME NEW n \in Nat, n \in T PROVE n + 1 \in T
    BY <2>2, <1>0, <1>8, WalkType
  <2> HIDE DEF T
  <2> QED
    BY <2>1, <2>2, Induction
<1>10. at \in [0 .. N -> Place]
  BY <1>0, <1>7, <1>9
<1> QED
  BY <1>8, <1>10 DEF at, N

\* To walk along two paths together is to walk along the one, then the other.
LEMMA WalkToConcat ==
  ASSUME NEW from \in Place, NEW p \in Seq(Token), NEW q \in Seq(Token)
  PROVE  /\ WalkTo(from, p) \in Place
         /\ WalkTo(from, p \o q) = WalkTo(WalkTo(from, p), q)
<1> DEFINE m == Len(p)
           l == Len(q)
           A == WalkAlong(from, p \o q)
           B == WalkAlong(from, p)
           C == WalkAlong(WalkTo(from, p), q)
<1>1. /\ m \in Nat /\ l \in Nat
      /\ p \o q \in Seq(Token) /\ Len(p \o q) = m + l
      /\ \A n \in 1 .. m : (p \o q)[n] = p[n]
      /\ \A n \in 1 .. l : (p \o q)[m + n] = q[n]
  BY LenProperties, ConcatProperties
<1>2. /\ B \in [0 .. m -> Place]
      /\ B[0] = from
      /\ \A n \in 1 .. m : B[n] = Walk(B[n - 1], p[n])
  BY WalkAlongDef
<1>3. B[m] = WalkTo(from, p) /\ B[m] \in Place
  BY <1>1, <1>2 DEF WalkTo
<1>4. /\ C \in [0 .. l -> Place]
      /\ C[0] = B[m]
      /\ \A n \in 1 .. l : C[n] = Walk(C[n - 1], q[n])
  BY <1>3, WalkAlongDef
<1>5. /\ A[0] = from
      /\ \A n \in 1 .. m + l : A[n] = Walk(A[n - 1], (p \o q)[n])
  <2>1. /\ A[0] = from
        /\ \A n \in 1 .. Len(p \o q) : A[n] = Walk(A[n - 1], (p \o q)[n])
    BY <1>1, WalkAlongDef
  <2> QED
    BY <2>1, <1>1
<1>6. A[m + l] = WalkTo(from, p \o q) /\ C[l] = WalkTo(WalkTo(from, p), q)
  BY <1>1 DEF WalkTo
<1> HIDE DEF A, B, C, m, l
<1> DEFINE T == {n \in Nat : n <= m => A[n] = B[n]}
           U == {n \in Nat : n <= l => A[m + n] = C[n]}
<1>7. \A n \in Nat : n \in T
  <2>1. 0 \in T
    BY <1>2, <1>5
  <2>2. ASSUME NEW n \in Nat, n \in T PROVE n + 1 \in T
    <3> SUFFICES ASSUME n + 1 <= m PROVE A[n + 1] = B[n + 1]
      OBVIOUS
    <3>1. n + 1 \in 1 .. m /\ n + 1 \in 1 .. m + l /\ (n + 1) - 1 = n
      BY <1>1
    <3>2. A[n + 1] = Walk(A[n], (p \o q)[n + 1])
      BY <3>1, <1>5
    <3>3. B[n + 1] = Walk(B[n], p[n + 1])
      BY <3>1, <1>2
    <3>4. A[n] = B[n] /\ (p \o q)[n + 1] = p[n + 1]
      BY <2>2, <3>1, <1>1
    <3> QED
      BY <3>2, <3>3, <3>4
  <2> HIDE DEF T
  <2> QED
    BY <2>1, <2>2, Induction
<1>8. A[m] = B[m]
  BY <1>1, <1>7
<1>9. \A n \in Nat : n \in U
  <2>1. 0 \in U
    BY <1>1, <1>4, <1>8
  <2>2. ASSUME NEW n \in Nat, n \in U PROVE n + 1 \in U
    <3> SUFFICES ASSUME n + 1 <= l PROVE A[m + (n + 1)] = C[n + 1]
      OBVIOUS
    <3>1. /\ n + 1 \in 1 .. l /\ m + (n + 1) \in 1 .. m + l
          /\ (n + 1) - 1 = n /\ (m + (n + 1)) - 1 = m + n
      BY <1>1
    <3>2. A[m + (n + 1)] = Walk(A[m + n], (p \o q)[m + (n + 1)])
      BY <3>1, <1>5
    <3>3. (p \o q)[m + (n + 1)] = q[n + 1]
      BY <3>1, <1>1
    <3>4. C[n + 1] = Walk(C[n], q[n + 1])
      BY <3>1, <1>4
    <3>5. A[m + n] = C[n]
      BY <2>2, <3>1, <1>1
    <3> QED
      BY <3>2, <3>3, <3>4, <3>5
  <2> HIDE DEF U
  <2> QED
    BY <2>1, <2>2, Induction
<1>10. A[m + l] = C[l]
  BY <1>1, <1>9
<1> QED
  BY <1>3, <1>6, <1>10

\* A walk that has failed stays where it failed.
LEMMA WalkStops ==
  ASSUME NEW from \in Place, from.state # "found", NEW text \in Seq(Token)
  PROVE  WalkTo(from, text) = from
<1> DEFINE N == Len(text)
           at == WalkAlong(from, text)
           T == {n \in Nat : n <= N => at[n] = from}
<1>1. /\ N \in Nat /\ at[0] = from
      /\ \A n \in 1 .. N : at[n] = Walk(at[n - 1], text[n])
  BY WalkAlongDef, LenProperties
<1> HIDE DEF at
<1>2. 0 \in T
  BY <1>1
<1>3. ASSUME NEW n \in Nat, n \in T
      PROVE  n + 1 \in T
  <2> SUFFICES ASSUME n + 1 <= N PROVE at[n + 1] = from
    OBVIOUS
  <2>1. n + 1 \in 1 .. N /\ (n + 1) - 1 = n /\ at[n] = from
    BY <1>1, <1>3
  <2>2. at[n + 1] = Walk(from, text[n + 1])
    BY <1>1, <2>1
  <2> QED
    BY <2>2 DEF Walk
<1>4. \A n \in Nat : n \in T
  <2> HIDE DEF T
  <2> QED
    BY <1>2, <1>3, Induction
<1> QED
  BY <1>1, <1>4 DEF at, WalkTo

\* A separator alone leads nowhere.
LEMMA SeparatorGoesNowhere ==
  ASSUME NEW from \in Place
  PROVE  WalkTo(from, <<"/">>) = from
<1> DEFINE slash == <<"/">>
           at == WalkAlong(from, slash)
<1>1. slash \in Seq(Token) /\ Len(slash) = 1 /\ slash[1] = "/"
  BY DEF Token
<1> HIDE DEF slash
<1>2. /\ at[0] = from
      /\ \A n \in 1 .. Len(slash) : at[n] = Walk(at[n - 1], slash[n])
  BY <1>1, WalkAlongDef
<1> HIDE DEF at
<1>3. at[1] = Walk(at[1 - 1], slash[1])
  BY <1>1, <1>2
<1>4. at[1] = from
  BY <1>1, <1>2, <1>3 DEF Walk
<1> QED
  BY <1>1, <1>4 DEF WalkTo, at, slash

-----------------------------------------------------------------------------
(* The names in a text.                                                    *)

\* And so is NamesAlong.
LEMMA NamesAlongDef ==
  ASSUME NEW text \in Seq(Token)
  PROVE  LET names == NamesAlong(text)
         IN  /\ names \in [0 .. Len(text) -> Seq(Name)]
             /\ names[0] = <<>>
             /\ \A n \in 1 .. Len(text) :
                  names[n] = IF text[n] \in {"/", "."} THEN names[n - 1]
                             ELSE Append(names[n - 1], text[n])
<1> DEFINE N == Len(text)
           Longer(seq, n) ==
             IF text[n] \in {"/", "."} THEN seq ELSE Append(seq, text[n])
           G == [p \in Seq(Name) \X (1 .. N) |-> Longer(p[1], p[2])]
           D(f) == [n \in 0 .. N |-> IF n = 0 THEN <<>>
                                     ELSE Longer(f[n - 1], n)]
<1>0. N \in Nat /\ <<>> \in Seq(Name)
  BY LenProperties
<1>1. ASSUME NEW seq \in Seq(Name), NEW n \in 1 .. N
      PROVE  Longer(seq, n) \in Seq(Name)
  <2>1. text[n] \in Token
    BY ElementOfSeq
  <2> QED
    BY <2>1, AppendProperties DEF Token
<1> HIDE DEF Longer
<1>2. \A seq \in Seq(Name), n \in 1 .. N : G[<<seq, n>>] = Longer(seq, n)
  OBVIOUS
<1>3. G \in [Seq(Name) \X (1 .. N) -> Seq(Name)]
  BY <1>1
<1> HIDE DEF G, N
<1>4. PICK f \in [0 .. N -> Seq(Name)] :
        f[0] = <<>> /\ \A n \in 1 .. N : f[n] = G[<<f[n - 1], n>>]
  <2>1. Recursive(Seq(Name), <<>>, N, G) # {}
    BY <1>0, <1>3, Recursion
  <2> QED
    BY <2>1 DEF Recursive
<1>5. ASSUME NEW n \in 1 .. N
      PROVE  f[n] = Longer(f[n - 1], n)
  <2>1. n - 1 \in 0 .. N
    BY <1>0
  <2>2. f[n - 1] \in Seq(Name)
    BY <2>1
  <2> QED
    BY <2>2, <1>2, <1>4
<1>6. f = D(f)
  BY <1>0, <1>4, <1>5
<1> DEFINE names == NamesAlong(text)
<1>7. names = CHOOSE g : g = D(g)
  BY DEF NamesAlong, N, Longer
<1>8. names = D(names)
  BY <1>6, <1>7
<1> HIDE DEF names
<1>9. names[0] = <<>> /\ \A n \in 1 .. N : names[n] = Longer(names[n - 1], n)
  BY <1>0, <1>8
<1> DEFINE T == {n \in Nat : n <= N => names[n] \in Seq(Name)}
<1>10. \A n \in Nat : n \in T
  <2>1. 0 \in T
    BY <1>0, <1>9
  <2>2. ASSUME NEW n \in Nat, n \in T PROVE n + 1 \in T
    <3> SUFFICES ASSUME n + 1 <= N PROVE names[n + 1] \in Seq(Name)
      OBVIOUS
    <3>1. n + 1 \in 1 .. N /\ (n + 1) - 1 = n /\ names[n] \in Seq(Name)
      BY <2>2, <1>0
    <3>2. names[n + 1] = Longer(names[n], n + 1)
      BY <3>1, <1>9
    <3> QED
      BY <3>1, <3>2, <1>1
  <2> HIDE DEF T
  <2> QED
    BY <2>1, <2>2, Induction
<1>11. names \in [0 .. N -> Seq(Name)]
  <2>1. \A n \in 0 .. N : names[n] \in Seq(Name)
    BY <1>0, <1>10
  <2> HIDE DEF T
  <2> QED
    BY <2>1, <1>8
<1> QED
  BY <1>9, <1>11 DEF names, N, Longer

\* A name at the end of a text is a name at the end of its names.
LEMMA NamesAppend ==
  ASSUME NEW text \in Seq(Token), NEW name \in Name, name # "."
  PROVE  /\ Names(text) \in Seq(Name)
         /\ Names(text \o <<name>>) = Append(Names(text), name)
<1> DEFINE m == Len(text)
           A == NamesAlong(text \o <<name>>)
           B == NamesAlong(text)
<1>1. /\ m \in Nat /\ name \in Token /\ name # "/" /\ <<name>> \in Seq(Token)
      /\ Len(<<name>>) = 1 /\ <<name>>[1] = name
  BY LenProperties, TreeAssumption DEF Token
<1>2. /\ text \o <<name>> \in Seq(Token) /\ Len(text \o <<name>>) = m + 1
      /\ \A n \in 1 .. m : (text \o <<name>>)[n] = text[n]
      /\ (text \o <<name>>)[m + 1] = name
  BY <1>1, ConcatProperties
<1>3. /\ B \in [0 .. m -> Seq(Name)]
      /\ B[0] = <<>>
      /\ \A n \in 1 .. m : B[n] = IF text[n] \in {"/", "."} THEN B[n - 1]
                                   ELSE Append(B[n - 1], text[n])
  BY NamesAlongDef
<1>4. /\ A[0] = <<>>
      /\ \A n \in 1 .. m + 1 :
           A[n] = IF (text \o <<name>>)[n] \in {"/", "."} THEN A[n - 1]
                  ELSE Append(A[n - 1], (text \o <<name>>)[n])
  BY <1>2, NamesAlongDef
<1>5. B[m] = Names(text) /\ A[m + 1] = Names(text \o <<name>>)
  BY <1>2 DEF Names
<1> HIDE DEF A, B, m
<1> DEFINE T == {n \in Nat : n <= m => A[n] = B[n]}
<1>6. \A n \in Nat : n \in T
  <2>1. 0 \in T
    BY <1>3, <1>4
  <2>2. ASSUME NEW n \in Nat, n \in T PROVE n + 1 \in T
    <3> SUFFICES ASSUME n + 1 <= m PROVE A[n + 1] = B[n + 1]
      OBVIOUS
    <3>1. n + 1 \in 1 .. m /\ n + 1 \in 1 .. m + 1 /\ (n + 1) - 1 = n
      BY <1>1
    <3>2. A[n + 1] = IF (text \o <<name>>)[n + 1] \in {"/", "."} THEN A[n]
                     ELSE Append(A[n], (text \o <<name>>)[n + 1])
      BY <3>1, <1>4
    <3>3. B[n + 1] = IF text[n + 1] \in {"/", "."} THEN B[n]
                     ELSE Append(B[n], text[n + 1])
      BY <3>1, <1>3
    <3>4. (text \o <<name>>)[n + 1] = text[n + 1]
      BY <3>1, <1>2
    <3>5. A[n] = B[n]
      BY <2>2, <3>1, <1>1
    <3> QED
      BY <3>2, <3>3, <3>4, <3>5
  <2> HIDE DEF T
  <2> QED
    BY <2>1, <2>2, Induction
<1>7. A[m] = B[m] /\ m + 1 \in 1 .. m + 1 /\ (m + 1) - 1 = m
  BY <1>1, <1>6
<1>8. A[m + 1] = Append(B[m], name)
  BY <1>1, <1>2, <1>4, <1>7
<1>9. B[m] \in Seq(Name)
  BY <1>1, <1>3
<1> QED
  BY <1>5, <1>8, <1>9

\* A text that does not end in a separator or a dot ends in its last name.
LEMMA LastName ==
  ASSUME NEW text \in Seq(Token), text # <<>>, Last(text) \notin {"/", "."}
  PROVE  Names(text) # <<>> /\ Last(Names(text)) = Last(text)
<1> DEFINE n == Len(text)
           names == NamesAlong(text)
<1>1. n \in Nat \ {0} /\ text[n] \in Token /\ text[n] = Last(text)
  BY EmptySeq, ElementOfSeq DEF Last
<1>2. /\ names \in [0 .. n -> Seq(Name)]
      /\ \A i \in 1 .. n : names[i] = IF text[i] \in {"/", "."} THEN names[i - 1]
                                       ELSE Append(names[i - 1], text[i])
  BY NamesAlongDef
<1> HIDE DEF names
<1>4. text[n] \in Name /\ text[n] \notin {"/", "."}
  BY <1>1 DEF Token
<1>3. names[n] = Append(names[n - 1], text[n]) /\ names[n - 1] \in Seq(Name)
  <2>1. n \in 1 .. n /\ n - 1 \in 0 .. n
    BY <1>1
  <2>2. names[n - 1] \in Seq(Name)
    BY <2>1, <1>2
  <2>3. names[n] = IF text[n] \in {"/", "."} THEN names[n - 1]
                   ELSE Append(names[n - 1], text[n])
    BY <2>1, <1>2
  <2> QED
    BY <2>2, <2>3, <1>4
<1> DEFINE before == names[n - 1]
<1>5. /\ Append(before, text[n]) # <<>>
      /\ Len(Append(before, text[n])) = Len(before) + 1
      /\ Append(before, text[n])[Len(before) + 1] = text[n]
  <2> HIDE DEF before
  <2>1. before \in Seq(Name)
    BY <1>3 DEF before
  <2> QED
    BY <2>1, <1>4, AppendProperties
<1> QED
  BY <1>1, <1>3, <1>5 DEF Names, names, Last

-----------------------------------------------------------------------------
(* What a path leads to in the tree of directories and files.              *)

\* The locations of the file system.
Existing == Dirs \cup Files

\* A location with one more name has the location above it.
LEMMA AppendToLocation ==
  ASSUME NEW loc \in Seq(Name), NEW name \in Name
  PROVE  /\ Append(loc, name) # <<>>
         /\ Front(Append(loc, name)) = loc
<1> DEFINE longer == Append(loc, name)
           n == Len(loc)
<1>1. /\ n \in Nat /\ longer \in Seq(Name) /\ longer # <<>>
      /\ Len(longer) = n + 1
      /\ longer = loc \o <<name>> /\ <<name>> \in Seq(Name)
  BY LenProperties, AppendProperties, AppendIsConcat
<1> HIDE DEF longer
<1>2. Front(longer) = SubSeq(longer, 1, n)
  BY <1>1 DEF Front
<1>3. SubSeq(longer, 1, n) = SubSeq(loc, 1, n)
  <2>1. CASE n = 0
    BY <2>1, SubSeqEmpty
  <2>2. CASE n # 0
    <3>1. 1 \in 1 .. n /\ n \in 1 .. n
      BY <2>2, <1>1
    <3> QED
      BY <3>1, <1>1, SubSeqOfConcat1
  <2> QED
    BY <2>1, <2>2
<1>4. SubSeq(loc, 1, n) = loc
  BY SubSeqFull
<1> QED
  BY <1>1, <1>2, <1>3, <1>4 DEF longer

\* A token that is found leads to what exists.
LEMMA FoundExists ==
  ASSUME NEW at \in Place, at.state = "found" => at.loc \in Existing,
         NEW token \in Token,
         Walk(at, token).state = "found"
  PROVE  Walk(at, token).loc \in Existing
<1>1. CASE at.state # "found" \/ token = "/"
  BY <1>1 DEF Walk
<1>2. CASE at.state = "found" /\ token # "/"
  <2>1. at.loc \in Existing /\ at.loc \notin Files
    BY <1>2 DEF Walk, Place
  <2>2. at.loc \in Dirs
    BY <2>1 DEF Existing
  <2>3. CASE token = "."
    BY <1>2, <2>1, <2>3 DEF Walk
  <2>4. CASE token = ".."
    <3>1. Walk(at, token).loc = IF at.loc = <<>> THEN <<>> ELSE Front(at.loc)
      BY <1>2, <2>1, <2>4 DEF Walk, Place
    <3> QED
      BY <3>1, <2>2, TreeAssumption DEF Existing
  <2>5. CASE token \notin {".", ".."}
    BY <1>2, <2>1, <2>5 DEF Walk, Place, Existing
  <2> QED
    BY <2>3, <2>4, <2>5
<1> QED
  BY <1>1, <1>2

\* And so does a path that is found, whatever it is made of.
LEMMA WalkFindsExisting ==
  ASSUME NEW from \in Place, from.state = "found" => from.loc \in Existing,
         NEW path \in Seq(Token),
         WalkTo(from, path).state = "found"
  PROVE  WalkTo(from, path).loc \in Existing
<1> DEFINE N == Len(path)
           at == WalkAlong(from, path)
           T == {n \in Nat : n <= N =>
                   (at[n].state = "found" => at[n].loc \in Existing)}
<1>1. /\ N \in Nat /\ at \in [0 .. N -> Place] /\ at[0] = from
      /\ \A n \in 1 .. N : at[n] = Walk(at[n - 1], path[n])
                            /\ path[n] \in Token
  BY WalkAlongDef, LenProperties, ElementOfSeq
<1> HIDE DEF at
<1>2. 0 \in T
  BY <1>1
<1>3. ASSUME NEW n \in Nat, n \in T
      PROVE  n + 1 \in T
  <2> SUFFICES ASSUME n + 1 <= N, at[n + 1].state = "found"
               PROVE  at[n + 1].loc \in Existing
    OBVIOUS
  <2>1. n + 1 \in 1 .. N /\ (n + 1) - 1 = n /\ at[n] \in Place
    BY <1>1
  <2>2. at[n + 1] = Walk(at[n], path[n + 1]) /\ path[n + 1] \in Token
    BY <1>1, <2>1
  <2>3. at[n].state = "found" => at[n].loc \in Existing
    BY <1>1, <1>3
  <2> QED
    BY <2>1, <2>2, <2>3, FoundExists
<1>4. \A n \in Nat : n \in T
  <2> HIDE DEF T
  <2> QED
    BY <1>2, <1>3, Induction
<1> QED
  BY <1>1, <1>4 DEF at, WalkTo

\* Where a walk has got to that does not go up and names loc, if on its way it
\* looked for something in a file or did not.
Reached(at, loc, searched) ==
  /\ at.state = "error" <=> searched
  /\ at.state = "found" => at.loc = loc /\ loc \in Existing
  /\ at.state = "missing" => loc \notin Existing

\* A name more, and it has got to the location with that name appended: POSIX
\* resolution of one name agrees with looking the location up in the tree.
LEMMA ReachedNext ==
  ASSUME NEW at \in Place, NEW loc \in Seq(Name), NEW searched \in BOOLEAN,
         Reached(at, loc, searched),
         NEW name \in Name, name \notin {".", ".."}
  PROVE  Reached(Walk(at, name), Append(loc, name),
                 searched \/ loc \in Files)
<1> DEFINE next == Append(loc, name)
<1>1. next # <<>> /\ Front(next) = loc
  BY AppendToLocation
<1> HIDE DEF next
<1>2. name # "/" /\ Dirs \cap Files = {}
  BY TreeAssumption
<1>3. next \in Existing => loc \in Dirs
  BY <1>1, TreeAssumption DEF Existing
<1>4. CASE at.state = "found"
  <2>1. at.loc = loc /\ loc \in Existing /\ ~searched
    BY <1>4 DEF Reached
  <2>2. CASE loc \in Files
    <3>1. Walk(at, name) = [at EXCEPT !.state = "error"]
      BY <1>2, <1>4, <2>1, <2>2 DEF Walk
    <3>2. Walk(at, name).state = "error"
      BY <3>1 DEF Place
    <3> QED
      BY <3>2, <2>2 DEF Reached
  <2>3. CASE loc \notin Files /\ next \in Existing
    <3>1. Walk(at, name) = [at EXCEPT !.loc = next]
      BY <1>2, <1>4, <2>1, <2>3 DEF Walk, Existing, next
    <3>2. Walk(at, name).state = "found" /\ Walk(at, name).loc = next
      BY <3>1, <1>4 DEF Place
    <3> QED
      BY <3>2, <2>1, <2>3 DEF Reached, next
  <2>4. CASE loc \notin Files /\ next \notin Existing
    <3>1. Walk(at, name) = [at EXCEPT !.state = "missing"]
      BY <1>2, <1>4, <2>1, <2>4 DEF Walk, Existing, next
    <3>2. Walk(at, name).state = "missing"
      BY <3>1 DEF Place
    <3> QED
      BY <3>2, <2>1, <2>4 DEF Reached, next
  <2> QED
    BY <2>2, <2>3, <2>4
<1>5. CASE at.state = "missing"
  <2>1. Walk(at, name) = at
    BY <1>5 DEF Walk
  <2>2. loc \notin Existing /\ ~searched
    BY <1>5 DEF Reached
  <2>3. next \notin Existing /\ loc \notin Files
    BY <1>3, <2>2 DEF Existing
  <2> QED
    BY <1>5, <2>1, <2>2, <2>3 DEF Reached, next
<1>6. CASE at.state = "error"
  BY <1>6 DEF Reached, Walk
<1> QED
  BY <1>4, <1>5, <1>6 DEF Place

\* A dot more, and it is where it was, unless that is a file.
LEMMA ReachedSame ==
  ASSUME NEW at \in Place, NEW loc \in Seq(Name), NEW searched \in BOOLEAN,
         Reached(at, loc, searched)
  PROVE  Reached(Walk(at, "."), loc, searched \/ loc \in Files)
<1>1. CASE at.state = "found" /\ loc \in Files
  <2>1. Walk(at, ".") = [at EXCEPT !.state = "error"]
    BY <1>1 DEF Walk, Reached
  <2>2. Walk(at, ".").state = "error"
    BY <2>1 DEF Place
  <2> QED
    BY <2>2, <1>1 DEF Reached
<1>2. CASE at.state = "found" /\ loc \notin Files
  BY <1>2 DEF Walk, Reached
<1>3. CASE at.state # "found"
  <2>1. Walk(at, ".") = at /\ at.state \in {"missing", "error"}
    BY <1>3 DEF Walk, Place
  <2> QED
    BY <2>1 DEF Reached, Existing
<1> QED
  BY <1>1, <1>2, <1>3

\* In its first tokens, a text walked from a location looks for something in
\* a file.
Searches(from, text, n) ==
  \E i \in 1 .. n : text[i] # "/" /\ from \o NamesAlong(text)[i - 1] \in Files

\* So a path without ".." leads from what exists to the location its names
\* spell below it, if that exists, and fails as the tree says if not.
LEMMA WalkBelow ==
  ASSUME NEW from \in Place, from.state = "found", from.loc \in Existing,
         NEW text \in Seq(Token), \A i \in 1 .. Len(text) : text[i] # ".."
  PROVE  Reached(WalkTo(from, text), from.loc \o Names(text),
                 Searches(from.loc, text, Len(text)))
<1> DEFINE N == Len(text)
           at == WalkAlong(from, text)
           names == NamesAlong(text)
           found(n) == Searches(from.loc, text, n)
           T == {n \in Nat : n <= N =>
                   Reached(at[n], from.loc \o names[n], found(n))}
<1>1. /\ N \in Nat /\ at \in [0 .. N -> Place] /\ at[0] = from
      /\ \A n \in 1 .. N : at[n] = Walk(at[n - 1], text[n])
                            /\ text[n] \in Token
  BY WalkAlongDef, LenProperties, ElementOfSeq
<1>2. /\ names \in [0 .. N -> Seq(Name)] /\ names[0] = <<>>
      /\ \A n \in 1 .. N :
           names[n] = IF text[n] \in {"/", "."} THEN names[n - 1]
                      ELSE Append(names[n - 1], text[n])
  BY NamesAlongDef
<1>3. ~found(0)
  BY DEF Searches
<1>4. ASSUME NEW n \in Nat, n + 1 <= N
      PROVE  found(n + 1) <=>
               found(n) \/ (text[n + 1] # "/" /\ from.loc \o names[n] \in Files)
  <2>1. /\ 1 .. n + 1 = (1 .. n) \cup {n + 1}
        /\ (n + 1) - 1 = n
    OBVIOUS
  <2> QED
    BY <2>1 DEF Searches
<1>5. \A n \in Nat : found(n) \in BOOLEAN
  BY DEF Searches
<1> HIDE DEF at, names, found
<1>6. from.loc \in Seq(Name) /\ from.loc \o <<>> = from.loc
  BY ConcatEmptySeq DEF Place
<1>7. 0 \in T
  BY <1>1, <1>2, <1>3, <1>6 DEF Reached
<1>8. ASSUME NEW n \in Nat, n \in T
      PROVE  n + 1 \in T
  <2> DEFINE token == text[n + 1]
             loc == from.loc \o names[n]
  <2> SUFFICES ASSUME n + 1 <= N
               PROVE  Reached(at[n + 1], from.loc \o names[n + 1], found(n + 1))
    OBVIOUS
  <2>1. n + 1 \in 1 .. N /\ (n + 1) - 1 = n
    BY <1>1
  <2>2. /\ at[n] \in Place /\ names[n] \in Seq(Name)
        /\ token \in Token /\ token # ".."
    <3>1. n \in 0 .. N
      BY <1>1
    <3>2. at[n] \in Place /\ names[n] \in Seq(Name)
      BY <3>1, <1>1, <1>2
    <3>3. token \in Token
      BY <2>1, <1>1
    <3> QED
      BY <2>1, <3>2, <3>3
  <2>3. at[n + 1] = Walk(at[n], token)
    BY <1>1, <2>1
  <2>4. names[n + 1] = IF token \in {"/", "."} THEN names[n]
                       ELSE Append(names[n], token)
    BY <1>2, <2>1
  <2>5. Reached(at[n], loc, found(n))
    BY <1>1, <1>8
  <2>6. found(n + 1) <=> found(n) \/ (token # "/" /\ loc \in Files)
    BY <1>4
  <2>7. found(n) \in BOOLEAN /\ found(n + 1) \in BOOLEAN
    BY <1>5
  <2>8. loc \in Seq(Name)
    BY <1>6, <2>2, ConcatProperties
  <2> HIDE DEF token
  <2>9. CASE token = "/"
    <3>1. Walk(at[n], token) = at[n]
      BY <2>9 DEF Walk
    <3>2. found(n + 1) = found(n)
      BY <2>6, <2>7, <2>9
    <3> QED
      BY <3>1, <3>2, <2>3, <2>4, <2>5, <2>9
  <2>10. CASE token = "."
    <3> DEFINE more == found(n) \/ loc \in Files
    <3>1. found(n + 1) = more
      BY <2>6, <2>7, <2>10
    <3> HIDE DEF loc, more
    <3>2. Reached(Walk(at[n], "."), loc, more)
      BY <2>2, <2>5, <2>7, <2>8, ReachedSame DEF more
    <3> QED
      BY <3>1, <3>2, <2>3, <2>4, <2>10 DEF loc
  <2>11. CASE token \notin {"/", "."}
    <3> DEFINE more == found(n) \/ loc \in Files
    <3>1. found(n + 1) = more
      BY <2>6, <2>7, <2>11
    <3>2. token \in Name
      BY <2>2, <2>11 DEF Token
    <3>3. from.loc \o Append(names[n], token) = Append(loc, token)
      <4> DEFINE a == from.loc
                 b == names[n]
      <4>1. a \in Seq(Name) /\ b \in Seq(Name)
        BY <1>6, <2>2
      <4> HIDE DEF a, b
      <4>2. a \o Append(b, token) = Append(a \o b, token)
        BY <3>2, <4>1, ConcatAppend
      <4> QED
        BY <4>2 DEF a, b
    <3> HIDE DEF loc, more
    <3>4. Reached(Walk(at[n], token), Append(loc, token), more)
      BY <2>2, <2>5, <2>7, <2>8, <2>11, <3>2, ReachedNext DEF more
    <3> QED
      BY <3>1, <3>3, <3>4, <2>3, <2>4, <2>11
  <2> QED
    BY <2>9, <2>10, <2>11
<1>9. \A n \in Nat : n \in T
  <2> HIDE DEF T
  <2> QED
    BY <1>7, <1>8, Induction
<1>10. at[N] = WalkTo(from, text) /\ names[N] = Names(text)
  BY DEF at, names, WalkTo, Names
<1>11. Reached(at[N], from.loc \o names[N], found(N))
  BY <1>1, <1>9
<1> QED
  BY <1>10, <1>11 DEF found

-----------------------------------------------------------------------------
(* The path the handler opens.                                             *)

\* The document root as path_cat uses it, without its trailing separator.
Base(dir) ==
  IF dir = <<>> THEN <<>> ELSE IF Last(dir) = "/" THEN Front(dir) ELSE dir

\* What the handler appends to a target: the file to send for a directory.
Suffix(target) == IF Last(target) = "/" THEN <<"index.html">> ELSE <<>>

\* A walk starts in a directory.
LEMMA StartIsPlace ==
  ASSUME NEW path
  PROVE  /\ Start(path) \in Place
         /\ Start(path).state = "found" /\ Start(path).loc \in Existing
BY TreeAssumption DEF Start, Place, Existing

\* Without its trailing separator the document root names what it names with
\* it (functions.cpp 45-64).
LEMMA BaseLeadsToRoot ==
  ASSUME NEW dir \in Seq(Token)
  PROVE  /\ Base(dir) \in Seq(Token)
         /\ WalkTo(Start(dir), Base(dir)) = DocumentRoot(dir)
<1>1. CASE dir # <<>> /\ Last(dir) = "/"
  <2>1. /\ Base(dir) = Front(dir) /\ Front(dir) \in Seq(Token)
        /\ dir = Front(dir) \o <<"/">> /\ <<"/">> \in Seq(Token)
    BY <1>1, FrontProperties, FrontAndLast DEF Base
  <2> DEFINE p == Front(dir)
  <2>2. /\ WalkTo(Start(dir), p) \in Place
        /\ WalkTo(Start(dir), p \o <<"/">>) =
             WalkTo(WalkTo(Start(dir), p), <<"/">>)
    BY <2>1, StartIsPlace, WalkToConcat
  <2>3. WalkTo(Start(dir), dir) = WalkTo(Start(dir), p)
    BY <2>1, <2>2, SeparatorGoesNowhere
  <2> QED
    BY <2>1, <2>3 DEF DocumentRoot
<1>2. CASE dir = <<>> \/ Last(dir) # "/"
  BY <1>2 DEF Base, DocumentRoot
<1> QED
  BY <1>1, <1>2

\* The document root, if it is found, is something that exists.
LEMMA DocumentRootIsPlace ==
  ASSUME NEW dir \in Seq(Token)
  PROVE  /\ DocumentRoot(dir) \in Place
         /\ DocumentRoot(dir).state = "found" =>
              DocumentRoot(dir).loc \in Existing
<1>1. WalkTo(Start(dir), dir) \in Place
  BY StartIsPlace, WalkToConcat, EmptySeq
<1>2. WalkTo(Start(dir), dir).state = "found" =>
        WalkTo(Start(dir), dir).loc \in Existing
  BY StartIsPlace, WalkFindsExisting
<1> QED
  BY <1>1, <1>2 DEF DocumentRoot

\* A target with its suffix, and the names in both.
LEMMA SuffixProperties ==
  ASSUME NEW target \in Seq(Token), target # <<>>
  PROVE  /\ Suffix(target) \in Seq(Token) /\ Suffix(target) \in Seq(Name)
         /\ target \o Suffix(target) \in Seq(Token)
         /\ Names(target) \in Seq(Name)
         /\ Names(target \o Suffix(target)) = Names(target) \o Suffix(target)
<1>1. "index.html" \in Name /\ Name \subseteq Token
  BY TreeAssumption DEF Token
<1>2. Suffix(target) \in Seq(Token) /\ Suffix(target) \in Seq(Name)
  BY <1>1 DEF Suffix
<1>3. /\ Names(target) \in Seq(Name)
      /\ Names(target \o <<"index.html">>) =
           Append(Names(target), "index.html")
  BY <1>1, NamesAppend
<1>4. CASE Last(target) = "/"
  <2>1. Suffix(target) = <<"index.html">>
    BY <1>4 DEF Suffix
  <2>2. Append(Names(target), "index.html") = Names(target) \o <<"index.html">>
    BY <1>1, <1>3, AppendIsConcat
  <2> QED
    BY <1>2, <1>3, <2>1, <2>2, ConcatProperties
<1>5. CASE Last(target) # "/"
  <2>1. Suffix(target) = <<>>
    BY <1>5 DEF Suffix
  <2> QED
    BY <1>2, <1>3, <2>1, ConcatEmptySeq
<1> QED
  BY <1>4, <1>5

\* The path the handler opens leads where the target leads from the document
\* root: path_cat neither adds nor loses a name, whether the document root is
\* empty or ends in a separator or not (handler.hpp 148-154).
LEMMA PathBelowRoot ==
  ASSUME NEW dir \in Seq(Token), NEW target \in Seq(Token),
         ~IllegalTarget(target)
  PROVE  /\ PathOf(dir, target) = Base(dir) \o (target \o Suffix(target))
         /\ Start(PathOf(dir, target)) = Start(dir)
         /\ WalkTo(Start(PathOf(dir, target)), PathOf(dir, target)) =
              WalkTo(DocumentRoot(dir), target \o Suffix(target))
<1> DEFINE base == Base(dir)
           rest == target \o Suffix(target)
           path == PathOf(dir, target)
<1>1. /\ target # <<>> /\ target[1] = "/" /\ Len(target) \in Nat \ {0}
  BY EmptySeq DEF IllegalTarget
<1>2. /\ base \in Seq(Token) /\ Suffix(target) \in Seq(Token)
      /\ rest \in Seq(Token)
  BY <1>1, BaseLeadsToRoot, SuffixProperties
<1>3. path = base \o rest
  <2>1. PathCat(dir, target) = base \o target
    BY ConcatEmptySeq DEF PathCat, Base
  <2>2. path = (base \o target) \o Suffix(target)
    BY <2>1 DEF PathOf, Suffix
  <2> QED
    BY <2>2, <1>2, ConcatAssociative
<1>4. Start(path) = Start(dir)
  <2>1. Len(rest) \in Nat \ {0} /\ rest[1] = "/"
    BY <1>1, <1>2, ConcatProperties, LenProperties
  <2>2. /\ path \in Seq(Token) /\ Len(path) = Len(base) + Len(rest)
        /\ \A i \in 1 .. Len(base) + Len(rest) :
             path[i] = IF i <= Len(base) THEN base[i] ELSE rest[i - Len(base)]
        /\ Len(base) \in Nat
    BY <1>2, <1>3, ConcatProperties, LenProperties
  <2>3. path # <<>> /\ Head(path) = path[1]
    BY <2>1, <2>2
  <2>4. CASE base = <<>>
    <3>1. Head(path) = "/"
      BY <2>1, <2>2, <2>3, <2>4
    <3>2. dir # <<>> => Head(dir) = "/"
      <4> SUFFICES ASSUME dir # <<>> PROVE dir[1] = "/"
        OBVIOUS
      <4>1. Last(dir) = "/" /\ Len(dir) - 1 = 0
        BY <2>4, FrontProperties DEF Base
      <4>2. Len(dir) = 1
        BY <4>1, EmptySeq
      <4> QED
        BY <4>1, <4>2 DEF Last
    <3> QED
      BY <3>1, <3>2 DEF Start
  <2>5. CASE base # <<>>
    <3>1. Len(base) \in Nat \ {0} /\ path[1] = base[1]
      BY <2>1, <2>2, <2>5, <1>2, EmptySeq
    <3>2. dir # <<>> /\ base[1] = dir[1]
      <4>1. dir # <<>>
        BY <2>5 DEF Base
      <4>2. CASE Last(dir) = "/"
        BY <4>1, <4>2, <3>1, FrontProperties DEF Base
      <4>3. CASE Last(dir) # "/"
        BY <4>1, <4>3 DEF Base
      <4> QED
        BY <4>1, <4>2, <4>3
    <3> QED
      BY <3>1, <3>2, <2>3 DEF Start
  <2> QED
    BY <2>4, <2>5
<1>5. WalkTo(Start(dir), path) = WalkTo(DocumentRoot(dir), rest)
  <2> DEFINE from == Start(dir)
  <2>1. from \in Place
    BY StartIsPlace
  <2>2. WalkTo(from, base) = DocumentRoot(dir)
    BY BaseLeadsToRoot
  <2> HIDE DEF from, base, rest, path
  <2>3. WalkTo(from, base \o rest) = WalkTo(WalkTo(from, base), rest)
    BY <2>1, <1>2, WalkToConcat
  <2> QED
    BY <2>2, <2>3, <1>3 DEF from
<1> QED
  BY <1>3, <1>4, <1>5

\* What the handler opens for a legal target is the location the target names
\* below the document root, and a file has the type of that location.
LEMMA TargetProperties ==
  ASSUME NEW dir \in Seq(Token), NEW target \in Seq(Token),
         ~IllegalTarget(target), DocumentRoot(dir).state = "found"
  PROVE  LET loc == TargetLocation(dir, target)
         IN  /\ Reached(WalkTo(DocumentRoot(dir), target \o Suffix(target)),
                        loc, SearchesFile(dir, target))
             /\ (loc \in Files /\ ~SearchesFile(dir, target)) =>
                  MimeType(PathOf(dir, target)) = MimeType(loc)
<1> DEFINE top == DocumentRoot(dir)
           rest == target \o Suffix(target)
           loc == TargetLocation(dir, target)
<1>1. top \in Place /\ top.loc \in Existing /\ top.loc \in Seq(Name)
  BY DocumentRootIsPlace DEF Place
<1>2. target # <<>> /\ Len(target) \in Nat \ {0}
      /\ \A i \in 1 .. Len(target) : target[i] # ".."
  BY EmptySeq, LenProperties, TreeAssumption DEF IllegalTarget
<1>3. /\ Suffix(target) \in Seq(Token) /\ rest \in Seq(Token)
      /\ rest # <<>> /\ Last(rest) # "/"
  <2>1. Suffix(target) \in Seq(Token) /\ rest \in Seq(Token)
    BY <1>2, SuffixProperties
  <2>2. CASE Last(target) = "/"
    <3>1. /\ Suffix(target) = <<"index.html">> /\ Suffix(target) # <<>>
          /\ Last(Suffix(target)) = "index.html"
      BY <2>2 DEF Suffix, Last
    <3>2. rest # <<>> /\ Last(rest) = Last(Suffix(target))
      BY <2>1, <3>1, LastOfConcat
    <3> QED
      BY <2>1, <3>1, <3>2
  <2>3. CASE Last(target) # "/"
    <3>1. Suffix(target) = <<>>
      BY <2>3 DEF Suffix
    <3>2. rest = target
      BY <3>1, ConcatEmptySeq
    <3> QED
      BY <2>1, <2>3, <3>2, <1>2
  <2> QED
    BY <2>2, <2>3
<1>4. rest = TargetPath(target) /\ loc = top.loc \o Names(rest)
  BY DEF TargetPath, TargetLocation, Suffix
<1>5. \A i \in 1 .. Len(rest) : rest[i] # ".."
  <2>1. /\ Len(rest) = Len(target) + Len(Suffix(target))
        /\ \A i \in 1 .. Len(target) + Len(Suffix(target)) :
             rest[i] = IF i <= Len(target) THEN target[i]
                       ELSE Suffix(target)[i - Len(target)]
    BY <1>2, <1>3, ConcatProperties
  <2>2. /\ Len(Suffix(target)) \in 0 .. 1
        /\ \A i \in 1 .. Len(Suffix(target)) : Suffix(target)[i] # ".."
    BY TreeAssumption DEF Suffix
  <2> QED
    BY <2>1, <2>2, <1>2
<1>6. SearchesFile(dir, target) <=> Searches(top.loc, rest, Len(rest))
  <2>1. DOMAIN rest = 1 .. Len(rest)
    BY <1>3, LenProperties
  <2> QED
    BY <2>1, <1>4 DEF SearchesFile, Searches
<1>7. Reached(WalkTo(top, rest), loc, SearchesFile(dir, target))
  <2>1. Reached(WalkTo(top, rest), loc, Searches(top.loc, rest, Len(rest)))
    BY <1>1, <1>3, <1>4, <1>5, WalkBelow
  <2> QED
    BY <2>1, <1>6 DEF Reached
<1>8. ASSUME loc \in Files, ~SearchesFile(dir, target)
      PROVE  Last(PathOf(dir, target)) = Last(loc)
  <2>1. PathOf(dir, target) = Base(dir) \o rest /\ Base(dir) \in Seq(Token)
    BY PathBelowRoot, BaseLeadsToRoot
  <2>2. Last(rest) # "."
    <3> SUFFICES ASSUME Last(rest) = "." PROVE FALSE
      OBVIOUS
    <3> DEFINE n == Len(rest)
    <3>1. n \in 1 .. n /\ rest[n] = "."
      BY <1>3, EmptySeq DEF Last
    <3>2. NamesAlong(rest)[n] = NamesAlong(rest)[n - 1]
      BY <1>3, <3>1, NamesAlongDef
    <3>3. top.loc \o NamesAlong(rest)[n - 1] \in Files
      BY <3>2, <1>4, <1>8 DEF Names
    <3> QED
      BY <3>1, <3>3, <1>6, <1>8 DEF Searches
  <2>3. Names(rest) # <<>> /\ Last(rest) = Last(Names(rest))
    BY <2>2, <1>3, LastName
  <2>4. Names(rest) \in Seq(Name)
    BY <1>2, <1>3, SuffixProperties, ConcatProperties
  <2>5. Last(Base(dir) \o rest) = Last(rest)
    BY <2>1, <1>3, LastOfConcat
  <2>6. Last(top.loc \o Names(rest)) = Last(Names(rest))
    <3> DEFINE a == top.loc
               b == Names(rest)
    <3>1. a \in Seq(Name) /\ b \in Seq(Name) /\ b # <<>>
      BY <2>3, <2>4, <1>1
    <3>2. Last(a \o b) = Last(b)
      <4> HIDE DEF a, b
      <4> QED
        BY <3>1, LastOfConcat
    <3> QED
      BY <3>2
  <2> QED
    BY <2>1, <2>3, <2>5, <2>6, <1>4
<1> QED
  BY <1>7, <1>8 DEF MimeType

\* What opening the path of a legal target gives, said of locations.
LEMMA OpenedBelowRoot ==
  ASSUME NEW dir \in Seq(Token), NEW target \in Seq(Token),
         ~IllegalTarget(target)
  PROVE  LET top == DocumentRoot(dir)
             loc == TargetLocation(dir, target)
             opened == Open(PathOf(dir, target))
         IN  /\ top.state \in {"found", "missing", "error"}
             /\ opened.state \in {"found", "missing", "error"}
             /\ top.state # "found" => opened.state = top.state
             /\ top.state = "found" =>
                  /\ opened.state = "error" <=>
                       loc \in Denied \/ SearchesFile(dir, target)
                  /\ opened.state = "found" =>
                       opened.loc = loc /\ loc \in Existing
                  /\ opened.state = "missing" => loc \notin Existing
<1> DEFINE top == DocumentRoot(dir)
           rest == target \o Suffix(target)
           end == WalkTo(top, rest)
           loc == TargetLocation(dir, target)
           opened == Open(PathOf(dir, target))
<1>1. top \in Place /\ target # <<>>
  BY DocumentRootIsPlace DEF IllegalTarget
<1>2. rest \in Seq(Token)
  BY <1>1, SuffixProperties
<1>3. end \in Place
  BY <1>1, <1>2, WalkToConcat
<1>4. opened = IF end.state = "found" /\ end.loc \in Denied
                 THEN [end EXCEPT !.state = "error"] ELSE end
  BY PathBelowRoot DEF Open
<1>5. top.state # "found" => end = top
  BY <1>1, <1>2, WalkStops
<1>6. top.state = "found" => Reached(end, loc, SearchesFile(dir, target))
  BY TargetProperties
<1>7. Denied \subseteq Existing
  BY TreeAssumption DEF Existing
<1> HIDE DEF top, end, loc, opened
<1>8. /\ top.state \in {"found", "missing", "error"}
      /\ end.state \in {"found", "missing", "error"}
  BY <1>1, <1>3 DEF Place
<1>9. CASE end.state = "found" /\ end.loc \in Denied
  <2>1. opened.state = "error"
    BY <1>3, <1>4, <1>9 DEF Place
  <2> QED
    BY <2>1, <1>5, <1>6, <1>8, <1>9 DEF Reached, top, loc, opened
<1>10. CASE ~(end.state = "found" /\ end.loc \in Denied)
  <2>1. opened = end
    BY <1>4, <1>10
  <2> QED
    BY <2>1, <1>5, <1>6, <1>7, <1>8, <1>10 DEF Reached, top, loc, opened
<1> QED
  BY <1>9, <1>10

-----------------------------------------------------------------------------
(* The response.                                                           *)

\* The response to any request, below any document root and in any file
\* system, fits the request, and no other file than one below the document
\* root is sent.
LEMMA HandlerFits ==
  ASSUME NEW dir \in Seq(Token), NEW r, r.target \in Seq(Token)
  PROVE  /\ Fits(dir, r, HandleRequest(dir, r))
         /\ HandleRequest(dir, r).status = 200 =>
              Below(dir, HandleRequest(dir, r).length)
<1> DEFINE path == PathOf(dir, r.target)
           opened == Open(path)
           loc == TargetLocation(dir, r.target)
           top == DocumentRoot(dir)
           response == HandleRequest(dir, r)
           Illegal == \/ r.method \notin {"get", "head"}
                      \/ IllegalTarget(r.target)
<1>1. /\ Refused(r) <=> Illegal
      /\ ExpectedStatus(dir, r) =
           IF Illegal THEN 400
           ELSE IF top.state = "missing" THEN 404
           ELSE IF top.state = "error" THEN 500
           ELSE IF loc \in Denied \/ SearchesFile(dir, r.target) THEN 500
           ELSE IF loc \in Files THEN 200
           ELSE 404
  BY DEF ExpectedStatus, Refused, IllegalTarget
<1>2. response =
        IF Illegal THEN ErrorResponse(400, r)
        ELSE IF opened.state = "missing" THEN ErrorResponse(404, r)
        ELSE IF opened.state = "error" THEN ErrorResponse(500, r)
        ELSE IF IsHead(r) THEN HeadResponse(path, opened.loc, r)
        ELSE GetResponse(path, opened.loc, r)
  BY DEF HandleRequest, DefaultHandleRequest
<1>3. \A status \in {400, 404, 500} :
        LET error == ErrorResponse(status, r)
        IN  /\ error.status = status /\ error.status # 200
            /\ error.close = ~r.keep /\ error.length = "text"
  BY DEF ErrorResponse
<1> HIDE DEF path, opened, loc, top, response, Illegal
<1>4. CASE Illegal
  <2>1. response = ErrorResponse(400, r) /\ ExpectedStatus(dir, r) = 400
    BY <1>1, <1>2, <1>4
  <2> QED
    BY <2>1, <1>3 DEF Fits, response
<1>5. CASE ~Illegal
  <2>1. /\ top.state \in {"found", "missing", "error"}
        /\ opened.state \in {"found", "missing", "error"}
        /\ top.state # "found" => opened.state = top.state
        /\ top.state = "found" =>
             /\ opened.state = "error" <=>
                  loc \in Denied \/ SearchesFile(dir, r.target)
             /\ opened.state = "found" => opened.loc = loc /\ loc \in Existing
             /\ opened.state = "missing" => loc \notin Existing
    BY <1>5, OpenedBelowRoot DEF top, opened, loc, path, Illegal
  <2>2. CASE opened.state = "missing"
    <3>1. response = ErrorResponse(404, r)
      BY <1>2, <1>5, <2>2
    <3>2. ExpectedStatus(dir, r) = 404
      BY <1>1, <1>5, <2>1, <2>2, TreeAssumption DEF Existing
    <3> QED
      BY <3>1, <3>2, <1>3 DEF Fits, response
  <2>3. CASE opened.state = "error"
    <3>1. response = ErrorResponse(500, r)
      BY <1>2, <1>5, <2>3
    <3>2. ExpectedStatus(dir, r) = 500
      BY <1>1, <1>5, <2>1, <2>3
    <3> QED
      BY <3>1, <3>2, <1>3 DEF Fits, response
  <2>4. CASE opened.state = "found"
    <3>1. /\ top.state = "found" /\ opened.loc = loc /\ loc \in Existing
          /\ loc \notin Denied /\ ~SearchesFile(dir, r.target)
      BY <2>1, <2>4
    <3>2. response = IF IsHead(r) THEN HeadResponse(path, loc, r)
                     ELSE GetResponse(path, loc, r)
      BY <1>2, <1>5, <2>4, <3>1
    <3>3. /\ response.status = 200 /\ response.close = ~r.keep
          /\ response.length = loc /\ response.type = MimeType(path)
          /\ response.body = IF r.method = "head" THEN "none"
                             ELSE IF loc \in Files THEN "file"
                             ELSE "unreadable"
      BY <3>2 DEF IsHead, HeadResponse, GetResponse
    <3>4. Fits(dir, r, response)
      <4>1. CASE loc \in Files
        <5>1. ExpectedStatus(dir, r) = 200
          BY <1>1, <1>5, <3>1, <4>1
        <5>2. MimeType(path) = MimeType(loc)
          BY <1>5, <3>1, <4>1, TargetProperties DEF path, loc, top, Illegal
        <5> QED
          BY <3>3, <4>1, <5>1, <5>2 DEF Fits, loc
      <4>2. CASE loc \notin Files
        <5>1. ForDirectory(dir, r)
          BY <1>1, <1>5, <3>1, <4>2 DEF ForDirectory, Existing, loc, top
        <5> QED
          BY <3>3, <5>1 DEF Fits
      <4> QED
        BY <4>1, <4>2
    <3>5. Below(dir, loc)
      <4> DEFINE names == Names(TargetPath(r.target))
      <4>1. /\ top.loc \in Seq(Name) /\ names \in Seq(Name)
            /\ loc = top.loc \o names
        <5>1. r.target # <<>>
          BY <1>5 DEF Illegal, IllegalTarget
        <5>2. names \in Seq(Name)
          <6>1. TargetPath(r.target) = r.target \o Suffix(r.target)
            BY DEF TargetPath, Suffix
          <6> DEFINE a == Names(r.target)
                     b == Suffix(r.target)
          <6>2. a \in Seq(Name) /\ b \in Seq(Name) /\ names = a \o b
            BY <5>1, <6>1, SuffixProperties
          <6> HIDE DEF a, b, names
          <6> QED
            BY <6>2, ConcatProperties
        <5>3. top.loc \in Seq(Name)
          BY DocumentRootIsPlace DEF top, Place
        <5> QED
          BY <5>2, <5>3 DEF loc, TargetLocation, top
      <4> HIDE DEF names
      <4> QED
        BY <4>1, ConcatIsBelow DEF Below, top
    <3> QED
      BY <3>3, <3>4, <3>5 DEF response
  <2> QED
    BY <2>1, <2>2, <2>3, <2>4
<1> QED
  BY <1>4, <1>5

-----------------------------------------------------------------------------
(* What a peer takes the handler's responses for.                          *)

\* The only responses with a body a peer does not expect are errors to HEAD.
LEMMA HandlerFacts ==
  ASSUME NEW r, ~Delimited(r, HandleRequest(root, r))
  PROVE  r.method = "head" /\ HandleRequest(root, r).status # 200
<1> DEFINE path == PathOf(root, r.target)
           opened == Open(path)
<1>1. r.method = "head" /\ HandleRequest(root, r).body # "none"
  BY DEF Delimited
<1>2. IsHead(r) /\ r.method \in {"get", "head"}
  BY <1>1 DEF IsHead
<1> HIDE DEF path, opened
<1>3. \/ HandleRequest(root, r) = ErrorResponse(400, r)
      \/ HandleRequest(root, r) = ErrorResponse(404, r)
      \/ HandleRequest(root, r) = ErrorResponse(500, r)
      \/ HandleRequest(root, r) = HeadResponse(path, opened.loc, r)
  BY <1>2 DEF HandleRequest, DefaultHandleRequest, path, opened
<1>4. HeadResponse(path, opened.loc, r).body = "none"
  BY DEF HeadResponse
<1>5. \A s \in {400, 404, 500} : ErrorResponse(s, r).status # 200
  BY DEF ErrorResponse
<1> QED
  BY <1>1, <1>3, <1>4, <1>5

\* Every response says whether it ends the connection.
LEMMA CloseIsBoolean ==
  ASSUME NEW r
  PROVE  HandleRequest(root, r).close \in BOOLEAN
BY DEF HandleRequest, DefaultHandleRequest, ErrorResponse, HeadResponse,
       GetResponse

-----------------------------------------------------------------------------
(* Every step of a connection is one of its session. *)

\* The handler's response is what ReadRequest takes as its parameter; the
\* other actions only add conjuncts to the session's.
LEMMA StepsAreSessionSteps ==
  ASSUME [CNext]_cvars
  PROVE  [Next]_vars
<1>1. CASE Reading
  <2>1. ASSUME NEW r \in Requests, AnswerRequest(r)
        PROVE  OnRead
    BY <2>1, CloseIsBoolean DEF AnswerRequest, OnRead
  <2> QED
    BY <1>1, <2>1 DEF Reading, ReadingEnds, Next, OnRead
<1>2. CASE Writing
  BY <1>2 DEF Writing, WriteSucceeds, WriteIsCut, WriteFails, Next, OnWrite
<1>3. CASE Elsewhere
  BY <1>3 DEF Elsewhere, Next
<1>4. CASE UNCHANGED cvars
  BY <1>4 DEF cvars
<1> QED
  BY <1>1, <1>2, <1>3, <1>4 DEF CNext

\* A connection's session behaves as HttpSession says.
THEOREM ImplementsSessionSafety == CSpec => Spec
<1>1. CInit => Init
  BY DEF CInit
<1>2. [CNext]_cvars => [Next]_vars
  BY StepsAreSessionSteps
<1> QED
  BY <1>1, <1>2, PTL DEF CSpec, Spec

\* So the session's invariant holds of every connection.
THEOREM SessionInvariance == CSpec => []IInv
BY ImplementsSessionSafety, Invariance, PTL

-----------------------------------------------------------------------------
(* The handler's responses stay with the session's work items. *)

\* Appending to both queues, or dropping the front of both, keeps them in
\* correspondence.
LEMMA AnswerCInv ==
  ASSUME CInv, IInv, NEW r \in Requests, AnswerRequest(r)
  PROVE  CInv'
<1> DEFINE response == HandleRequest(root, r)
           x == [request |-> r, response |-> response]
           w == [req |-> nread + 1, close |-> response.close]
           X == [request : Requests,
                 response : {HandleRequest(root, q) : q \in Requests}]
<1>1. /\ waiting' = Append(waiting, x) /\ items' = Append(items, w)
      /\ root' = root /\ inStep' = inStep
  BY DEF AnswerRequest, ReadRequest, Push
<1>2. /\ waiting \in Seq(X) /\ items \in Seq(Work) /\ x \in X /\ w \in Work
      /\ Len(waiting) = Len(items) /\ Len(items) \in Nat
  BY CloseIsBoolean DEF CInv, IInv, TypeOK, Work
<1>3. /\ x.request = r /\ x.response = response /\ w.close = response.close
  OBVIOUS
<1> HIDE DEF x, w, X
<1>4. /\ waiting' \in Seq(X) /\ Len(waiting') = Len(items) + 1
      /\ \A i \in 1..Len(items) : waiting'[i] = waiting[i]
      /\ waiting'[Len(items) + 1] = x
  BY <1>1, <1>2, AppendProperties
<1>5. /\ items' \in Seq(Work) /\ Len(items') = Len(items) + 1
      /\ \A i \in 1..Len(items) : items'[i] = items[i]
      /\ items'[Len(items) + 1] = w
  BY <1>1, <1>2, AppendProperties
<1>6. ASSUME NEW i \in DOMAIN items'
      PROVE  /\ waiting'[i].response = HandleRequest(root, waiting'[i].request)
             /\ items'[i].close = waiting'[i].response.close
  <2>1. i \in 1..Len(items) \/ i = Len(items) + 1
    BY <1>2, <1>5, LenProperties
  <2>2. CASE i \in 1..Len(items)
    BY <2>2, <1>2, <1>4, <1>5 DEF CInv
  <2>3. CASE i = Len(items) + 1
    BY <2>3, <1>3, <1>4, <1>5
  <2> QED
    BY <2>1, <2>2, <2>3
<1> QED
  BY <1>1, <1>4, <1>5, <1>6 DEF CInv, X

\* A step that leaves the session's queue alone, and the handler's.
LEMMA SameCInv ==
  ASSUME CInv, items' = items, waiting' = waiting, root' = root,
         inStep' \in BOOLEAN
  PROVE  CInv'
BY DEF CInv

\* The front of both queues is dropped.
LEMMA DropCInv ==
  ASSUME CInv, IInv, items # <<>>, items' = Tail(items),
         waiting' = Tail(waiting), root' = root, inStep' \in BOOLEAN
  PROVE  CInv'
<1> DEFINE X == [request : Requests,
                 response : {HandleRequest(root, q) : q \in Requests}]
<1>1. /\ waiting \in Seq(X) /\ items \in Seq(Work)
      /\ Len(waiting) = Len(items) /\ Len(items) \in Nat
  BY DEF CInv, IInv, TypeOK
<1> HIDE DEF X
<1>2. waiting # <<>> /\ Len(items) > 0
  BY <1>1, EmptySeq
<1>3. /\ waiting' \in Seq(X) /\ Len(waiting') = Len(items) - 1
      /\ \A i \in 1..Len(waiting') : waiting'[i] = waiting[i + 1]
  BY <1>1, <1>2, HeadTailProperties
<1>4. /\ items' \in Seq(Work) /\ Len(items') = Len(items) - 1
      /\ \A i \in 1..Len(items') : items'[i] = items[i + 1]
  BY <1>1, HeadTailProperties
<1>5. ASSUME NEW i \in DOMAIN items'
      PROVE  /\ waiting'[i].response = HandleRequest(root, waiting'[i].request)
             /\ items'[i].close = waiting'[i].response.close
  <2>1. i \in 1..Len(items') /\ i + 1 \in 1..Len(items)
    BY <1>1, <1>4, LenProperties
  <2> QED
    BY <2>1, <1>1, <1>3, <1>4 DEF CInv
<1> QED
  BY <1>3, <1>4, <1>5 DEF CInv, X

\* The work items of the session carry the flags of the handler's responses,
\* in the same order.
THEOREM HandlerInvariance == CSpec => []CInv
<1>1. CInit => CInv
  BY DEF CInit, Init, CInv
<1>2. IInv /\ CInv /\ [CNext]_cvars => CInv'
  <2> SUFFICES ASSUME IInv, CInv, [CNext]_cvars PROVE CInv'
    OBVIOUS
  <2>0. inStep \in BOOLEAN
    BY DEF CInv
  <2>1. ASSUME NEW r \in Requests, AnswerRequest(r) PROVE CInv'
    BY <2>1, AnswerCInv
  <2>2. CASE ReadingEnds
    BY <2>0, <2>2, SameCInv
       DEF ReadingEnds, OnHandshake, HandshakeError, HandshakeDone, ReadEof,
           ReadError, ReadUpgrade, queueVars
  <2>3. ASSUME NEW w \in writing, WriteSucceeds(w) PROVE CInv'
    <3>1. inStep' \in BOOLEAN /\ root' = root /\ items # <<>>
      BY <2>0, <2>3, WriterFacts DEF WriteSucceeds, PeerReceives, Delimited
    <3>2. CASE WriteClose(w) /\ UNCHANGED waiting
      BY <3>1, <3>2, SameCInv DEF WriteClose
    <3>3. CASE WriteNext(w) /\ waiting' = Tail(waiting)
      BY <3>1, <3>3, DropCInv DEF WriteNext
    <3>4. CASE WriteCrash(w) /\ w.close /\ waiting' = waiting
      BY <3>1, <3>4, SameCInv DEF WriteCrash, Crash
    <3>5. CASE WriteCrash(w) /\ ~w.close /\ waiting' = Tail(waiting)
      BY <3>1, <3>5, DropCInv DEF WriteCrash, Crash
    <3> QED
      BY <2>3, <3>2, <3>3, <3>4, <3>5 DEF WriteSucceeds
  <2>4. ASSUME NEW w \in writing, WriteFails(w) PROVE CInv'
    BY <2>0, <2>4, SameCInv DEF WriteFails, WriteError, queueVars
  <2>7. ASSUME NEW w \in writing, WriteIsCut(w) PROVE CInv'
    BY <2>0, <2>7, SameCInv DEF WriteIsCut, WriteBreaksOff, Crash
  <2>5. CASE Elsewhere
    BY <2>0, <2>5, SameCInv DEF Elsewhere, OnShutdown, Timeout, queueVars
  <2>6. CASE UNCHANGED cvars
    BY <2>0, <2>6, SameCInv DEF cvars, vars, queueVars
  <2> QED
    BY <2>1, <2>2, <2>3, <2>4, <2>5, <2>6, <2>7 DEF CNext, Reading, Writing
<1> QED
  BY <1>1, <1>2, SessionInvariance, PTL DEF CSpec

\* A peer loses its place in the responses only by an error to HEAD.
THEOREM PeerInStep == CSpec => OutOfStepByHeadError
<1>1. IInv /\ CInv /\ [CNext]_cvars =>
        [inStep /\ ~inStep' =>
           /\ Head(waiting).request.method = "head"
           /\ Head(waiting).response.status # 200]_cvars
  <2> SUFFICES ASSUME IInv, CInv, CNext, inStep, ~inStep'
               PROVE  /\ Head(waiting).request.method = "head"
                      /\ Head(waiting).response.status # 200
    OBVIOUS
  <2>1. PICK w \in writing : WriteSucceeds(w)
    BY DEF CNext, Reading, Writing, Elsewhere, ReadingEnds, AnswerRequest,
           WriteFails, WriteIsCut
  <2>2. ~Delimited(Head(waiting).request, Head(waiting).response)
    BY <2>1 DEF WriteSucceeds, PeerReceives
  <2>3. items # <<>> /\ items \in Seq(Work)
    BY WriterFacts
  <2>4. 1 \in DOMAIN items /\ waiting # <<>>
    BY <2>3, EmptySeq, LenProperties DEF CInv
  <2>5. Head(waiting) = waiting[1]
    BY <2>4, HeadTailProperties DEF CInv
  <2>6. Head(waiting).response = HandleRequest(root, Head(waiting).request)
    BY <2>4, <2>5 DEF CInv
  <2> QED
    BY <2>2, <2>6, HandlerFacts
<1> QED
  BY <1>1, SessionInvariance, HandlerInvariance, PTL
     DEF CSpec, OutOfStepByHeadError
-----------------------------------------------------------------------------
(* What is queued is what the requests should get. *)

\* In a state that satisfies the invariant, the response to every request
\* waiting is the handler's, which fits it.
LEMMA WaitingFit ==
  ASSUME CInv, IInv, NEW i \in DOMAIN waiting
  PROVE  /\ Fits(root, waiting[i].request, waiting[i].response)
         /\ items[i].close <=> ~waiting[i].request.keep
         /\ waiting[i].response.status = 200 =>
              Below(root, waiting[i].response.length)
<1> DEFINE r == waiting[i].request
           X == [request : Requests,
                 response : {HandleRequest(root, q) : q \in Requests}]
<1>1. root \in Seq(Token) /\ waiting \in Seq(X) /\ i \in DOMAIN items
  BY RequestsAssumption, LenProperties DEF CInv, IInv, TypeOK
<1>2. waiting[i] \in X
  <2> HIDE DEF X
  <2> QED
    BY <1>1, ElementOfSeq, LenProperties
<1>3. r \in Requests /\ r.target \in Seq(Token) /\ r.keep \in BOOLEAN
  BY <1>2, RequestsAssumption
<1>4. /\ waiting[i].response = HandleRequest(root, r)
      /\ items[i].close = waiting[i].response.close
  BY <1>1 DEF CInv
<1> HIDE DEF r
<1>5. /\ Fits(root, r, HandleRequest(root, r))
      /\ HandleRequest(root, r).status = 200 =>
           Below(root, HandleRequest(root, r).length)
  BY <1>1, <1>3, HandlerFits
<1>6. HandleRequest(root, r).close = ~r.keep
  BY <1>5 DEF Fits
<1> QED
  BY <1>3, <1>4, <1>5, <1>6 DEF r

\* Every response queued, at whatever place, is the one its request should
\* get: for every queue limit, every file system, every document root and
\* targets of any length.
THEOREM EveryAnswerFits == CSpec => []AnswersFit
<1>1. CInv /\ IInv => AnswersFit
  <2> SUFFICES ASSUME CInv, IInv, NEW i \in DOMAIN items
               PROVE  /\ Fits(root, waiting[i].request, waiting[i].response)
                      /\ items[i].close <=> ~waiting[i].request.keep
    BY DEF AnswersFit
  <2>1. i \in DOMAIN waiting
    BY LenProperties DEF CInv, IInv, TypeOK
  <2> QED
    BY <2>1, WaitingFit
<1> QED
  BY <1>1, HandlerInvariance, SessionInvariance, PTL

\* And no file is queued that is not below the document root.
THEOREM OnlyTheRootIsServed == CSpec => []ServesTheRootOnly
<1>1. CInv /\ IInv => ServesTheRootOnly
  BY WaitingFit DEF ServesTheRootOnly
<1> QED
  BY <1>1, HandlerInvariance, SessionInvariance, PTL

=============================================================================
