---------------------------- MODULE FileTreeProofs ----------------------------
(***************************************************************************)
(* Proofs about FileTree, for every set of names, list of drives, contents *)
(* of folders, number of items and of requests, and set of faults.         *)
(*                                                                         *)
(* The invariant has three layers, each of which uses those before it.     *)
(*                                                                         *)
(*  AInv    what the threads have belongs together: the buffers hold only  *)
(*          halves of packets that were made; an answer is one that its    *)
(*          command makes, and a listing for a path that begins with a     *)
(*          drive is that path's folder; a deletion's path is a listed     *)
(*          one's with a name behind it; while the window is in            *)
(*          LoadFileCurrent, the listing it asked for is yet to come.      *)
(*  Counted halves of packets are counted: what was shown of an answer and *)
(*          what is still ahead are together no more than the answer.  If  *)
(*          they are all of it then nothing was lost, the rest is ahead in *)
(*          its order, and the next packet shown is the next one of it.    *)
(*          Once something was lost it can never become whole again: so    *)
(*          what FilesShown and TreeShown say of an answer that was shown  *)
(*          as a whole can be said of every part of it before (FilesSoFar, *)
(*          FoldersSoFar).                                                 *)
(*  TreeRight  the request that an item was loaded with is one for its own *)
(*          path, and unless the item is spoilt no other listing can come  *)
(*          for it; while no listing is for an item that is gone, no       *)
(*          folder can get under the root.                                 *)
(*                                                                         *)
(* Paths are what a recursion over the tree gives, and the server leaves   *)
(* out names by a recursion over the path: that the two functions exist    *)
(* and what they give is proved first.                                     *)
(***************************************************************************)
EXTENDS FileTree, FunctionTheorems, SequenceTheorems, WellFoundedInduction, TLAPS

-----------------------------------------------------------------------------
(* Sets of numbers closed under + 1 are what induction goes over. *)

(* Induction is over sets of numbers: a number that is missing would have a *)
(* least one.                                                               *)
LEMMA SetInduction ==
  ASSUME NEW S, 0 \in S, \A n \in Nat : n \in S => n + 1 \in S
  PROVE  Nat \subseteq S
<1> DEFINE T == Nat \ S
<1> SUFFICES ASSUME T # {} PROVE FALSE
  OBVIOUS
<1>1. \A x, y \in Nat : y < x => <<y, x>> \in OpToRel(<, Nat)
  BY DEF OpToRel
<1>2. PICK x \in T : \A y \in T : ~(<<y, x>> \in OpToRel(<, Nat))
  <2> HIDE DEF T
  <2>1. T \subseteq Nat
    BY DEF T
  <2> QED BY <2>1, WFMin, NatLessThanWellFounded
<1>3. x \in Nat /\ x # 0
  OBVIOUS
<1>4. x - 1 \in Nat /\ x - 1 < x /\ (x - 1) + 1 = x
  BY <1>3
<1>5. x - 1 \notin T
  BY <1>1, <1>2, <1>3, <1>4
<1>6. x \in S
  BY <1>4, <1>5
<1> QED BY <1>6

-----------------------------------------------------------------------------
(* Without, which is defined by recursion. *)

(* f[i] is the first i elements of s without those in out. *)
Filters(f, n, s, out) ==
    f = [i \in 0..n |-> IF i = 0 THEN <<>>
                        ELSE IF s[i] \in out THEN f[i - 1] ELSE Append(f[i - 1], s[i])]

Kept(x, out, q) == IF x \in out THEN q ELSE Append(q, x)

LEMMA FilterSteps ==
  ASSUME NEW n \in Nat, NEW s, NEW out, NEW f, Filters(f, n, s, out)
  PROVE  /\ f[0] = <<>>
         /\ \A i \in 1..n : f[i] = Kept(s[i], out, f[i - 1])
<1>1. 0 \in 0..n /\ \A i \in 1..n : i \in 0..n /\ i # 0
  OBVIOUS
<1> QED BY <1>1 DEF Filters, Kept

LEMMA FilterExists ==
  ASSUME NEW s, NEW out
  PROVE  \A n \in Nat : \E f : Filters(f, n, s, out)
<1> DEFINE S == {n \in Nat : \E f : Filters(f, n, s, out)}
<1>1. 0 \in S
  <2>1. Filters([i \in 0..0 |-> <<>>], 0, s, out)
    BY DEF Filters
  <2> QED BY <2>1
<1>2. ASSUME NEW n \in Nat, n \in S PROVE n + 1 \in S
  <2>1. PICK f : Filters(f, n, s, out)
    BY <1>2
  <2> DEFINE g == [i \in 0..(n + 1) |->
                      IF i = n + 1 THEN Kept(s[n + 1], out, f[n]) ELSE f[i]]
  <2>2. f[0] = <<>> /\ \A i \in 1..n : f[i] = Kept(s[i], out, f[i - 1])
    BY <2>1, FilterSteps
  <2>3. \A i \in 0..(n + 1) : g[i] = IF i = 0 THEN <<>> ELSE Kept(s[i], out, g[i - 1])
    <3> TAKE i \in 0..(n + 1)
    <3>1. CASE i = 0
      BY <2>2, <3>1
    <3>2. CASE i \in 1..n
      <4>1. i - 1 \in 0..(n + 1) /\ i # n + 1 /\ i - 1 # n + 1 /\ i # 0
        BY <3>2
      <4> QED BY <2>2, <3>2, <4>1
    <3>3. CASE i = n + 1
      <4>1. i - 1 = n /\ n \in 0..(n + 1) /\ n # n + 1 /\ i # 0
        BY <3>3
      <4> QED BY <3>3, <4>1
    <3> QED BY <3>1, <3>2, <3>3
  <2>4. Filters(g, n + 1, s, out)
    <3> DEFINE G == g
    <3>1. \A i \in 0..(n + 1) : G[i] = IF i = 0 THEN <<>> ELSE Kept(s[i], out, G[i - 1])
      BY <2>3
    <3>2. G = [i \in 0..(n + 1) |-> G[i]]
      OBVIOUS
    <3> HIDE DEF g, G
    <3>3. Filters(G, n + 1, s, out)
      BY <3>1, <3>2 DEF Filters, Kept
    <3> QED BY <3>3 DEF G
  <2> QED BY <2>4
<1>3. Nat \subseteq S
  <2> HIDE DEF S
  <2> QED BY <1>1, <1>2, SetInduction
<1> QED BY <1>3

(* What the definition of Without says. *)
LEMMA WithoutDef ==
  ASSUME NEW s, Len(s) \in Nat, NEW out
  PROVE  \E f : Filters(f, Len(s), s, out) /\ Without(s, out) = f[Len(s)]
<1> DEFINE F == CHOOSE f : f = [i \in 0..Len(s) |->
                    IF i = 0 THEN <<>>
                    ELSE IF s[i] \in out THEN f[i - 1] ELSE Append(f[i - 1], s[i])]
<1>1. Without(s, out) = F[Len(s)]
  BY DEF Without
<1>2. \E f : f = [i \in 0..Len(s) |->
                    IF i = 0 THEN <<>>
                    ELSE IF s[i] \in out THEN f[i - 1] ELSE Append(f[i - 1], s[i])]
  <2>1. \E f : Filters(f, Len(s), s, out)
    BY FilterExists
  <2> QED BY <2>1 DEF Filters
<1>3. Filters(F, Len(s), s, out)
  BY <1>2 DEF Filters
<1> QED BY <1>1, <1>3

(* Sequences that begin alike are filtered alike. *)
LEMMA FilterSame ==
  ASSUME NEW n \in Nat, NEW m \in Nat, n <= m, NEW s, NEW t, NEW out,
         NEW f, NEW g, Filters(f, n, s, out), Filters(g, m, t, out),
         \A i \in 1..n : s[i] = t[i]
  PROVE  f[n] = g[n]
<1> DEFINE S == {k \in Nat : k \in 0..n => f[k] = g[k]}
<1>1. /\ f[0] = <<>> /\ \A i \in 1..n : f[i] = Kept(s[i], out, f[i - 1])
      /\ g[0] = <<>> /\ \A i \in 1..m : g[i] = Kept(t[i], out, g[i - 1])
  BY FilterSteps
<1>2. 0 \in S
  BY <1>1
<1>3. ASSUME NEW k \in Nat, k \in S PROVE k + 1 \in S
  <2> SUFFICES ASSUME k + 1 \in 0..n PROVE f[k + 1] = g[k + 1]
    OBVIOUS
  <2>1. k \in 0..n /\ k + 1 \in 1..n /\ k + 1 \in 1..m /\ (k + 1) - 1 = k
    OBVIOUS
  <2> QED BY <1>1, <1>3, <2>1
<1>4. Nat \subseteq S
  <2> HIDE DEF S
  <2> QED BY <1>2, <1>3, SetInduction
<1> QED BY <1>4

(* Of a name put at the end of a path. *)
LEMMA WithoutAppend ==
  ASSUME NEW T, NEW s \in Seq(T), NEW x \in T, NEW out
  PROVE  Without(Append(s, x), out) =
            IF x \in out THEN Without(s, out) ELSE Append(Without(s, out), x)
<1> DEFINE t == Append(s, x)
           n == Len(s)
<1>1. n \in Nat /\ Len(t) = n + 1 /\ t[n + 1] = x /\ \A i \in 1..n : s[i] = t[i]
  OBVIOUS
<1>2. PICK f : Filters(f, n, s, out) /\ Without(s, out) = f[n]
  BY <1>1, WithoutDef
<1>3. PICK g : Filters(g, n + 1, t, out) /\ Without(t, out) = g[n + 1]
  <2> HIDE DEF t, n
  <2>1. Len(t) \in Nat /\ Len(t) = n + 1
    BY <1>1
  <2> QED BY <2>1, WithoutDef
<1>4. f[n] = g[n]
  <2> HIDE DEF t, n
  <2>1. n + 1 \in Nat /\ n <= n + 1
    BY <1>1
  <2> QED BY <1>1, <1>2, <1>3, <2>1, FilterSame
<1>5. g[n + 1] = Kept(x, out, g[n])
  <2> HIDE DEF t, n
  <2>1. n + 1 \in Nat /\ n + 1 \in 1..(n + 1) /\ (n + 1) - 1 = n
    BY <1>1
  <2> QED BY <1>1, <1>3, <2>1, FilterSteps
<1> QED BY <1>2, <1>3, <1>4, <1>5 DEF Kept

(* The elements that are left, each as often as before where it was there   *)
(* once.                                                                    *)
LEMMA WithoutType ==
  ASSUME NEW T, NEW s \in Seq(T), NEW out
  PROVE  /\ Without(s, out) \in Seq(T)
         /\ {Without(s, out)[i] : i \in DOMAIN Without(s, out)} = {s[i] : i \in DOMAIN s} \ out
         /\ (\A i, j \in DOMAIN s : s[i] = s[j] => i = j) =>
               \A i, j \in DOMAIN Without(s, out) :
                  Without(s, out)[i] = Without(s, out)[j] => i = j
<1> DEFINE n == Len(s)
           Distinct == \A i, j \in DOMAIN s : s[i] = s[j] => i = j
           Some(k) == {s[i] : i \in 1..k}
<1>1. n \in Nat /\ DOMAIN s = 1..n
  OBVIOUS
<1>2. PICK f : Filters(f, n, s, out) /\ Without(s, out) = f[n]
  BY <1>1, WithoutDef
<1>3. f[0] = <<>> /\ \A i \in 1..n : f[i] = Kept(s[i], out, f[i - 1])
  BY <1>1, <1>2, FilterSteps
<1> DEFINE P(k) == /\ f[k] \in Seq(T)
                   /\ {f[k][i] : i \in DOMAIN f[k]} = Some(k) \ out
                   /\ Distinct => \A i, j \in DOMAIN f[k] : f[k][i] = f[k][j] => i = j
           S == {k \in Nat : k \in 0..n => P(k)}
<1>4. 0 \in S
  <2>1. f[0] \in Seq(T) /\ DOMAIN f[0] = {} /\ Some(0) = {}
    BY <1>3
  <2> QED BY <2>1
<1>5. ASSUME NEW k \in Nat, k \in S PROVE k + 1 \in S
  <2> SUFFICES ASSUME k + 1 \in 0..n PROVE P(k + 1)
    <3> HIDE DEF P, n
    <3> QED OBVIOUS
  <2>1. k \in 0..n /\ k + 1 \in 1..n /\ (k + 1) - 1 = k
    BY <1>1
  <2>2. f[k + 1] = Kept(s[k + 1], out, f[k]) /\ s[k + 1] \in T
    BY <1>1, <1>3, <2>1
  <2>3. P(k)
    BY <1>5, <2>1
  <2>4. Some(k + 1) = Some(k) \cup {s[k + 1]}
    BY <2>1
  <2>5. Distinct => s[k + 1] \notin Some(k)
    BY <1>1, <2>1
  <2> HIDE DEF Some, Distinct
  <2>6. CASE s[k + 1] \in out
    BY <2>2, <2>3, <2>4, <2>6 DEF Kept
  <2>7. CASE s[k + 1] \notin out
    <3> DEFINE q == f[k]
               x == s[k + 1]
    <3>1. f[k + 1] = Append(q, x) /\ q \in Seq(T) /\ x \in T
      BY <2>2, <2>3, <2>7 DEF Kept
    <3>2. {q[i] : i \in DOMAIN q} = Some(k) \ out
      BY <2>3
    <3>3. Distinct => \A i, j \in DOMAIN q : q[i] = q[j] => i = j
      BY <2>3
    <3>4. Some(k + 1) = Some(k) \cup {x}
      BY <2>4
    <3>5. Distinct => x \notin Some(k)
      BY <2>5
    <3>6. x \notin out
      BY <2>7
    <3> HIDE DEF q, x
    <3> DEFINE g == Append(q, x)
    <3>7. /\ g \in Seq(T) /\ DOMAIN g = DOMAIN q \cup {Len(q) + 1} /\ Len(q) + 1 \notin DOMAIN q
          /\ g[Len(q) + 1] = x /\ \A i \in DOMAIN q : g[i] = q[i]
      BY <3>1
    <3> HIDE DEF g
    <3>8. {g[i] : i \in DOMAIN g} = Some(k + 1) \ out
      BY <3>2, <3>4, <3>6, <3>7
    <3>9. ASSUME Distinct PROVE \A i, j \in DOMAIN g : g[i] = g[j] => i = j
      <4>1. \A i \in DOMAIN q : q[i] # x
        BY <3>2, <3>5, <3>9
      <4> QED BY <3>3, <3>7, <3>9, <4>1
    <3> QED BY <3>1, <3>7, <3>8, <3>9 DEF g
  <2> QED BY <2>6, <2>7
<1>6. Nat \subseteq S
  <2> HIDE DEF S
  <2> QED BY <1>4, <1>5, SetInduction
<1>7. P(n)
  <2> HIDE DEF P, n
  <2>1. n \in S /\ n \in 0..n
    BY <1>1, <1>6
  <2> QED BY <2>1
<1>8. Some(n) = {s[i] : i \in DOMAIN s}
  BY <1>1
<1> QED BY <1>2, <1>7, <1>8

-----------------------------------------------------------------------------
(* The tree.  Chain is defined by recursion, too; what makes it end is that *)
(* items are under items of a smaller depth.                                *)

Grounded(t, B, depth) ==
    /\ B \in Nat /\ depth \in [DOMAIN t -> 0..B]
    /\ \A h \in DOMAIN t : t[h].up # 0 =>
          t[h].up \in DOMAIN t /\ depth[t[h].up] < depth[h]

TreeType(t) ==
    /\ DOMAIN t \subseteq Items
    /\ \A h \in DOMAIN t : t[h] \in [text : Text, up : (DOMAIN t \cup {0}) \ {h}]
    /\ t = [h \in DOMAIN t |-> t[h]]

TreeOK(t) == TreeType(t) /\ \E B, depth : Grounded(t, B, depth)

IsChain(t, c) ==
    c = [h \in DOMAIN t |-> IF t[h].up = 0 THEN <<h>> ELSE Append(c[t[h].up], h)]

ChainOf(t) == CHOOSE c : IsChain(t, c)

PathIn(t, h) ==
    IF h = 0 THEN <<NoName>> ELSE [i \in DOMAIN ChainOf(t)[h] |-> t[ChainOf(t)[h][i]].text]

BelowIn(t, h) == {k \in DOMAIN t \ {h} : h \in ToSet(ChainOf(t)[k])}

(* Chain, GetPath and Below for the tree as it is now, with the tree as a   *)
(* parameter.                                                               *)
LEMMA TreeIs ==
  /\ Chain = ChainOf(tree)
  /\ \A h : GetPath(h) = PathIn(tree, h)
  /\ \A h : Below(h) = BelowIn(tree, h)
<1>1. Chain = ChainOf(tree)
  BY DEF Chain, ChainOf, IsChain
<1>2. \A h : GetPath(h) = PathIn(tree, h)
  BY <1>1 DEF GetPath, PathIn
<1>3. \A h : Below(h) = BelowIn(tree, h)
  BY <1>1 DEF Below, BelowIn
<1> QED BY <1>1, <1>2, <1>3

(* What goes from every item to those under it is so for all of them. *)
LEMMA TreeInduction ==
  ASSUME NEW t, NEW B, NEW depth, Grounded(t, B, depth), NEW Q,
         \A h \in DOMAIN t : t[h].up = 0 \/ t[h].up \in Q => h \in Q
  PROVE  DOMAIN t \subseteq Q
<1> DEFINE S == {n \in Nat : \A h \in DOMAIN t : depth[h] < n => h \in Q}
<1>1. 0 \in S
  BY DEF Grounded
<1>2. ASSUME NEW n \in Nat, n \in S PROVE n + 1 \in S
  <2> SUFFICES ASSUME NEW h \in DOMAIN t, depth[h] < n + 1 PROVE h \in Q
    OBVIOUS
  <2>1. CASE t[h].up = 0
    BY <2>1
  <2>2. CASE t[h].up # 0
    <3>1. t[h].up \in DOMAIN t /\ depth[t[h].up] < depth[h]
          /\ depth[h] \in Nat /\ depth[t[h].up] \in Nat
      BY <2>2 DEF Grounded
    <3>2. depth[t[h].up] < n
      BY <3>1
    <3> QED BY <1>2, <3>1, <3>2
  <2> QED BY <2>1, <2>2
<1>3. Nat \subseteq S
  <2> HIDE DEF S
  <2> QED BY <1>1, <1>2, SetInduction
<1>4. \A h \in DOMAIN t : depth[h] \in Nat /\ depth[h] < depth[h] + 1 /\ depth[h] + 1 \in Nat
  BY DEF Grounded
<1> QED BY <1>3, <1>4

(* There is a function that does what Chain says. *)
LEMMA ChainExists ==
  ASSUME NEW t, TreeOK(t)
  PROVE  IsChain(t, ChainOf(t))
<1>1. PICK B, depth : Grounded(t, B, depth)
  BY DEF TreeOK
<1> DEFINE Low(n) == {h \in DOMAIN t : depth[h] < n}
           Up(g, h) == IF t[h].up = 0 THEN <<h>> ELSE Append(g[t[h].up], h)
           S == {n \in Nat : \E g : g = [h \in Low(n) |-> Up(g, h)]}
<1>2. 0 \in S
  <2>1. Low(0) = {}
    BY <1>1 DEF Grounded
  <2> DEFINE g == [h \in {} |-> <<>>]
  <2>2. g = [h \in Low(0) |-> Up(g, h)]
    BY <2>1
  <2> QED BY <2>2
<1>3. ASSUME NEW n \in Nat, n \in S PROVE n + 1 \in S
  <2>1. PICK g : g = [h \in Low(n) |-> Up(g, h)]
    BY <1>3
  <2> DEFINE f == [h \in Low(n + 1) |-> Up(g, h)]
  <2>2. \A h \in Low(n) : h \in Low(n + 1) /\ f[h] = g[h]
    <3> TAKE h \in Low(n)
    <3>1. h \in Low(n + 1)
      BY <1>1 DEF Grounded
    <3>2. g[h] = Up(g, h)
      <4> HIDE DEF Up, Low
      <4> QED BY <2>1
    <3>3. f[h] = Up(g, h)
      <4> HIDE DEF Up, Low
      <4> QED BY <3>1
    <3> QED BY <3>1, <3>2, <3>3
  <2>3. \A h \in Low(n + 1) : t[h].up # 0 => t[h].up \in Low(n)
    BY <1>1 DEF Grounded
  <2>4. \A h \in Low(n + 1) : f[h] = Up(f, h)
    <3> TAKE h \in Low(n + 1)
    <3>1. f[h] = Up(g, h)
      <4> HIDE DEF Up, Low
      <4> QED OBVIOUS
    <3>2. t[h].up # 0 => f[t[h].up] = g[t[h].up]
      <4> HIDE DEF f, Low
      <4> QED BY <2>2, <2>3
    <3> HIDE DEF f
    <3> QED BY <3>1, <3>2
  <2>5. f = [h \in Low(n + 1) |-> Up(f, h)]
    <3>1. f = [h \in Low(n + 1) |-> f[h]]
      <4> HIDE DEF Up, Low
      <4> QED OBVIOUS
    <3> HIDE DEF f, Up, Low
    <3> QED BY <2>4, <3>1
  <2> HIDE DEF f, Up, Low
  <2> QED BY <2>5
<1>4. Nat \subseteq S
  <2> HIDE DEF S
  <2> QED BY <1>2, <1>3, SetInduction
<1>5. Low(B + 1) = DOMAIN t /\ B + 1 \in Nat
  BY <1>1 DEF Grounded
<1>6. \E c : IsChain(t, c)
  <2>1. PICK g : g = [h \in Low(B + 1) |-> Up(g, h)]
    <3> HIDE DEF Low, Up
    <3> QED BY <1>4, <1>5
  <2> QED BY <1>5, <2>1 DEF IsChain
<1> QED BY <1>6 DEF ChainOf

(* Chain does what it says. *)
LEMMA ChainStep ==
  ASSUME NEW t, TreeOK(t), NEW h \in DOMAIN t
  PROVE  ChainOf(t)[h] = IF t[h].up = 0 THEN <<h>> ELSE Append(ChainOf(t)[t[h].up], h)
<1> DEFINE c == ChainOf(t)
<1>1. IsChain(t, c)
  BY ChainExists
<1> HIDE DEF c
<1>2. c[h] = IF t[h].up = 0 THEN <<h>> ELSE Append(c[t[h].up], h)
  BY <1>1 DEF IsChain
<1> QED BY <1>2 DEF c

(* A set of items with each the one it is under.                            *)
Closed(t, S) == \A h \in S : h \in DOMAIN t /\ (t[h].up # 0 => t[h].up \in S)

(* A chain stays in such a set and ends with its item; what is on the way   *)
(* is less deep.                                                            *)
LEMMA ChainIn ==
  ASSUME NEW t, TreeOK(t), NEW S, Closed(t, S), NEW h \in S
  PROVE  /\ ChainOf(t)[h] \in Seq(S) /\ Len(ChainOf(t)[h]) \in Nat \ {0}
         /\ ChainOf(t)[h][Len(ChainOf(t)[h])] = h
<1>1. PICK B, depth : Grounded(t, B, depth)
  BY DEF TreeOK
<1> DEFINE c == ChainOf(t)
           Q == {k \in DOMAIN t : k \in S =>
                    c[k] \in Seq(S) /\ Len(c[k]) \in Nat \ {0} /\ c[k][Len(c[k])] = k}
<1>2. ASSUME NEW k \in DOMAIN t, t[k].up = 0 \/ t[k].up \in Q PROVE k \in Q
  <2> SUFFICES ASSUME k \in S
               PROVE c[k] \in Seq(S) /\ Len(c[k]) \in Nat \ {0} /\ c[k][Len(c[k])] = k
    OBVIOUS
  <2>1. c[k] = IF t[k].up = 0 THEN <<k>> ELSE Append(c[t[k].up], k)
    BY ChainStep
  <2>2. CASE t[k].up = 0
    BY <2>1, <2>2
  <2>3. CASE t[k].up # 0
    <3>1. t[k].up \in S
      BY <2>3 DEF Closed
    <3>2. c[t[k].up] \in Seq(S)
      BY <1>2, <2>3, <3>1
    <3> HIDE DEF c
    <3> QED BY <2>1, <2>3, <3>2
  <2> QED BY <2>2, <2>3
<1>3. DOMAIN t \subseteq Q
  <2> HIDE DEF Q
  <2> QED BY <1>1, <1>2, TreeInduction
<1> QED BY <1>3 DEF Closed

(* Two trees that are alike on such a set give it the same paths.           *)
LEMMA PathSame ==
  ASSUME NEW t, TreeOK(t), NEW u, TreeOK(u), NEW S, Closed(t, S), Closed(u, S),
         \A k \in S : t[k] = u[k], NEW h \in S, h # 0
  PROVE  PathIn(u, h) = PathIn(t, h)
<1>1. PICK B, depth : Grounded(t, B, depth)
  BY DEF TreeOK
<1> DEFINE c == ChainOf(t)
           d == ChainOf(u)
           Q == {k \in DOMAIN t : k \in S => c[k] = d[k]}
<1>2. ASSUME NEW k \in DOMAIN t, t[k].up = 0 \/ t[k].up \in Q PROVE k \in Q
  <2> SUFFICES ASSUME k \in S PROVE c[k] = d[k]
    OBVIOUS
  <2>1. k \in DOMAIN u /\ t[k] = u[k]
    BY DEF Closed
  <2>2. /\ c[k] = IF t[k].up = 0 THEN <<k>> ELSE Append(c[t[k].up], k)
        /\ d[k] = IF u[k].up = 0 THEN <<k>> ELSE Append(d[u[k].up], k)
    BY <2>1, ChainStep
  <2>3. t[k].up # 0 => c[t[k].up] = d[t[k].up]
    BY <1>2 DEF Closed
  <2> HIDE DEF c, d
  <2> QED BY <2>1, <2>2, <2>3
<1>3. DOMAIN t \subseteq Q
  <2> HIDE DEF Q
  <2> QED BY <1>1, <1>2, TreeInduction
<1>4. c[h] = d[h]
  BY <1>3 DEF Closed
<1>5. \A i \in DOMAIN c[h] : c[h][i] \in S
  <2>1. c[h] \in Seq(S)
    BY ChainIn
  <2> HIDE DEF c
  <2> QED BY <2>1
<1> HIDE DEF c, d
<1> QED BY <1>4, <1>5 DEF PathIn, c, d

LEMMA TreeClosed ==
  ASSUME NEW t, TreeOK(t) PROVE Closed(t, DOMAIN t)
BY DEF TreeOK, Grounded, Closed

(* What is under an item is below it. *)
LEMMA ChildBelow ==
  ASSUME NEW t, TreeOK(t), NEW h \in DOMAIN t, h # 0, NEW k \in DOMAIN t, t[k].up = h
  PROVE  k \in BelowIn(t, h)
<1> DEFINE c == ChainOf(t)
<1>1. c[k] = Append(c[h], k)
  BY ChainStep
<1>2. c[h] \in Seq(DOMAIN t) /\ Len(c[h]) \in Nat \ {0} /\ c[h][Len(c[h])] = h
  BY TreeClosed, ChainIn
<1>3. k # h
  BY DEF TreeOK, TreeType
<1> HIDE DEF c
<1>4. h \in ToSet(c[k])
  <2>1. Len(c[h]) \in DOMAIN c[k] /\ c[k][Len(c[h])] = h
    BY <1>1, <1>2
  <2> QED BY <2>1 DEF ToSet
<1> QED BY <1>3, <1>4 DEF BelowIn, c

(* What is left of the tree without what is below h: nothing in it is       *)
(* under an item that went, and h has nothing under it.                     *)
LEMMA CutTree ==
  ASSUME NEW t, TreeOK(t), NEW h \in DOMAIN t, h # 0, NEW u,
         u = [k \in DOMAIN t \ BelowIn(t, h) |-> t[k]]
  PROVE  /\ TreeOK(u) /\ h \in DOMAIN u /\ DOMAIN u \subseteq DOMAIN t
         /\ \A k \in DOMAIN u : u[k] = t[k] /\ u[k].up # h
         /\ \A k \in DOMAIN u : k # 0 => PathIn(u, k) = PathIn(t, k)
         /\ \A k \in DOMAIN t : t[k].up \in DOMAIN u \ {h} /\ t[k].up # 0 => k \in DOMAIN u
<1>1. PICK B, depth : Grounded(t, B, depth)
  BY DEF TreeOK
<1> DEFINE c == ChainOf(t)
           S == DOMAIN t \ BelowIn(t, h)
<1>2. DOMAIN u = S /\ h \in S /\ \A k \in S : u[k] = t[k]
  BY DEF BelowIn
<1>3. ASSUME NEW k \in S PROVE t[k].up # h
  BY <1>3, ChildBelow
<1>4. ASSUME NEW k \in S, t[k].up # 0 PROVE t[k].up \in S
  <2>1. t[k].up \in DOMAIN t
    BY <1>1, <1>4 DEF Grounded
  <2> SUFFICES ASSUME t[k].up \in BelowIn(t, h) PROVE FALSE
    BY <2>1
  <2>2. h \in ToSet(c[t[k].up])
    BY DEF BelowIn
  <2>3. CASE k = h
    <3> DEFINE R == {x \in DOMAIN t : depth[x] <= depth[t[k].up]}
    <3>1. Closed(t, R) /\ t[k].up \in R
      BY <1>1, <2>1 DEF Closed, Grounded
    <3>2. c[t[k].up] \in Seq(R)
      <4> HIDE DEF R, c
      <4> QED BY <3>1, ChainIn DEF c
    <3>3. h \in R
      <4> HIDE DEF R, c
      <4> QED BY <2>2, <3>2 DEF ToSet
    <3> QED BY <1>1, <1>4, <2>1, <2>3, <3>3 DEF Grounded
  <2>4. CASE k # h
    <3>1. c[k] = Append(c[t[k].up], k)
      BY <1>4, ChainStep
    <3>2. c[t[k].up] \in Seq(DOMAIN t)
      BY <2>1, TreeClosed, ChainIn
    <3> HIDE DEF c
    <3>3. h \in ToSet(c[k])
      BY <2>2, <3>1, <3>2 DEF ToSet
    <3> QED BY <2>4, <3>3 DEF BelowIn, c
  <2> QED BY <2>3, <2>4
<1>5. TreeType(u)
  <2>1. \A k \in S : t[k] \in [text : Text, up : (S \cup {0}) \ {k}]
    <3> TAKE k \in S
    <3>1. t[k] \in [text : Text, up : (DOMAIN t \cup {0}) \ {k}]
      BY DEF TreeOK, TreeType
    <3> HIDE DEF S
    <3> QED BY <1>4, <3>1
  <2>2. S \subseteq Items
    BY DEF TreeOK, TreeType
  <2>3. u = [k \in DOMAIN u |-> u[k]]
    BY <1>2
  <2> HIDE DEF S
  <2> QED BY <1>2, <2>1, <2>2, <2>3 DEF TreeType
<1>6. Grounded(u, B, [k \in S |-> depth[k]])
  BY <1>1, <1>2, <1>4 DEF Grounded
<1>7. TreeOK(u)
  BY <1>5, <1>6 DEF TreeOK
<1>8. Closed(t, S) /\ Closed(u, S)
  BY <1>2, <1>4 DEF Closed
<1>9. \A k \in S : k # 0 => PathIn(u, k) = PathIn(t, k)
  <2> HIDE DEF S
  <2> QED BY <1>2, <1>7, <1>8, PathSame
<1>10. ASSUME NEW k \in DOMAIN t, t[k].up \in S \ {h}, t[k].up # 0 PROVE k \in S
  <2> SUFFICES ASSUME k \in BelowIn(t, h) PROVE FALSE
    OBVIOUS
  <2>1. c[k] = Append(c[t[k].up], k)
    BY <1>10, ChainStep
  <2>2. c[t[k].up] \in Seq(DOMAIN t)
    BY <1>10, TreeClosed, ChainIn
  <2>3. h \in ToSet(c[k]) /\ k # h
    BY DEF BelowIn
  <2>4. h \in ToSet(c[t[k].up])
    <3> DEFINE q == c[t[k].up]
    <3> HIDE DEF c, q
    <3>1. PICK i \in DOMAIN c[k] : c[k][i] = h
      BY <2>3 DEF ToSet
    <3>2. c[k] = Append(q, k) /\ q \in Seq(DOMAIN t)
      BY <2>1, <2>2 DEF q
    <3>3. i \in DOMAIN q /\ q[i] = h
      BY <2>3, <3>1, <3>2
    <3> QED BY <3>3 DEF ToSet, q
  <2>5. t[k].up \in BelowIn(t, h)
    BY <1>10, <2>4 DEF BelowIn
  <2> QED BY <1>10, <2>5
<1> QED BY <1>2, <1>3, <1>7, <1>9, <1>10

(* New items, of which each is at the root, under an old item, or under a   *)
(* new one that is.                                                         *)
LEMMA ExtendTree ==
  ASSUME NEW t, TreeOK(t), NEW u, TreeType(u), DOMAIN t \subseteq DOMAIN u,
         \A k \in DOMAIN t : u[k] = t[k],
         \A k \in DOMAIN u \ DOMAIN t :
            u[k].up \in DOMAIN t \cup {0} \/ u[u[k].up].up \in DOMAIN t \cup {0}
  PROVE  /\ TreeOK(u)
         /\ \A k \in DOMAIN t : k # 0 => PathIn(u, k) = PathIn(t, k)
<1>1. PICK B, depth : Grounded(t, B, depth)
  BY DEF TreeOK
<1> DEFINE d == [k \in DOMAIN u |->
                    IF k \in DOMAIN t THEN depth[k]
                    ELSE IF u[k].up \in DOMAIN t \cup {0} THEN B + 1 ELSE B + 2]
<1>2. d \in [DOMAIN u -> 0..(B + 2)] /\ B + 2 \in Nat
  BY <1>1 DEF Grounded
<1>3. ASSUME NEW k \in DOMAIN u, u[k].up # 0
      PROVE  u[k].up \in DOMAIN u /\ d[u[k].up] < d[k]
  <2>1. u[k].up \in DOMAIN u
    BY <1>3 DEF TreeType
  <2>2. CASE k \in DOMAIN t
    BY <1>1, <1>3, <2>2 DEF Grounded
  <2>3. CASE k \notin DOMAIN t /\ u[k].up \in DOMAIN t
    BY <1>1, <2>1, <2>3 DEF Grounded
  <2>4. CASE k \notin DOMAIN t /\ u[k].up \notin DOMAIN t
    <3>1. u[u[k].up].up \in DOMAIN t \cup {0}
      BY <1>3, <2>4
    <3>2. d[u[k].up] = B + 1 /\ d[k] = B + 2
      BY <1>3, <2>1, <2>4, <3>1
    <3> QED BY <1>1, <2>1, <3>2 DEF Grounded
  <2> QED BY <2>2, <2>3, <2>4
<1>4. Grounded(u, B + 2, d)
  <2> HIDE DEF d
  <2> QED BY <1>2, <1>3 DEF Grounded
<1>5. TreeOK(u)
  BY <1>4 DEF TreeOK
<1>6. Closed(t, DOMAIN t) /\ Closed(u, DOMAIN t)
  <2>1. Closed(t, DOMAIN t)
    BY TreeClosed
  <2> QED BY <2>1 DEF Closed
<1>7. \A k \in DOMAIN t : t[k] = u[k]
  OBVIOUS
<1>8. \A k \in DOMAIN t : k # 0 => PathIn(u, k) = PathIn(t, k)
  BY <1>5, <1>6, <1>7, PathSame
<1> QED BY <1>5, <1>8

LEMMA NoTree == TreeOK(<<>>)
<1>1. DOMAIN <<>> = {} /\ <<>> = [h \in DOMAIN <<>> |-> <<>>[h]]
  OBVIOUS
<1>2. TreeType(<<>>)
  BY <1>1 DEF TreeType
<1>3. Grounded(<<>>, 0, [h \in {} |-> 0])
  BY <1>1 DEF Grounded
<1> QED BY <1>2, <1>3 DEF TreeOK

(* A path has at least one name. *)
LEMMA PathType ==
  ASSUME NEW t, TreeOK(t), NEW h \in DOMAIN t \cup {0}
  PROVE  PathIn(t, h) \in Seq(Text) /\ Len(PathIn(t, h)) > 0
<1>1. CASE h = 0
  <2>1. PathIn(t, h) = <<NoName>>
    BY <1>1 DEF PathIn
  <2>2. <<NoName>> \in Seq(Text) /\ Len(<<NoName>>) > 0
    BY DEF Text
  <2> QED BY <2>1, <2>2, Zenon
<1>2. CASE h # 0
  <2> DEFINE c == ChainOf(t)
  <2>1. c[h] \in Seq(DOMAIN t) /\ Len(c[h]) \in Nat \ {0}
    BY <1>2, TreeClosed, ChainIn
  <2>2. \A k \in DOMAIN t : t[k].text \in Text
    BY DEF TreeOK, TreeType
  <2>3. PathIn(t, h) = [i \in DOMAIN c[h] |-> t[c[h][i]].text]
    BY <1>2 DEF PathIn
  <2> HIDE DEF c
  <2> QED BY <2>1, <2>2, <2>3
<1> QED BY <1>1, <1>2

-----------------------------------------------------------------------------
(* The invariant. *)

(* The packets that the answers have so far, and those of the request that  *)
(* the network thread is at.                                                *)
Known == {u \in Units : u.of \in DOMAIN answer /\ u.k \in DOMAIN answer[u.of]}
Own   == {u \in Known : u.of = cur}

(* Nothing is in the buffers but halves of packets that were made, and of   *)
(* the present answer only, unless the window's thread kept them.           *)
Buffers ==
    /\ cpc \in {"get", "connect", "box", "told"} => nbuf = <<>> /\ stream = <<>>
    /\ nbuf \in Seq(Own) /\ stream \in Seq(Own) /\ wbuf \in Seq(Known)
    /\ cpc = "show" => pack \in ToSet(answer[cur])
    /\ m_packet.of # 0 =>
          m_packet.of \in DOMAIN answer /\ m_packet.pkt \in ToSet(answer[m_packet.of])

(* What a command makes. *)
AnswerTo(q, a) ==
    CASE q.cmd = "drives" -> a \in {<<>>, <<DriveList>>}
      [] q.cmd = "delete" -> a \in {<<>>, <<Deleted>>}
      [] q.cmd = "list"   -> a \in Seq(Entries \cup {End}) /\ IsInjective(a)

Folders(f) == IF f \in DOMAIN Listing THEN Names("dir", Listing[f]) ELSE {}

(* The answer a to the request q, and the folder w that it is about.        *)
AnswerRight(q, a, w) ==
    /\ AnswerTo(q, a)
    /\ q.cmd = "list" /\ a # <<>> /\ q.path[1] \in ToSet(Drives) =>
          w = Without(q.path, {NoName}) /\ Names("dir", a) = Folders(w)
    /\ q.cmd = "delete" /\ a # <<>> /\ q.path[1] \in ToSet(Drives) =>
          w = Front(Without(q.path, {NoName}))

Answers ==
    /\ cur \in Nat /\ Len(answer) = IF cpc = "connect" THEN cur - 1 ELSE cur
    /\ cpc # "get" => cur > 0
    /\ \A r \in DOMAIN answer : AnswerRight(asked[r], answer[r], where[r])
    /\ \A g \in gone : g[2].kind = "file"

(* The requests; a listing for no item follows a deletion. *)
PlainDelete(q, rs, as) ==
    /\ q.of \in DOMAIN as /\ as[q.of] # <<>> /\ rs[q.of].cmd = "list"
    /\ \E n \in Name : q.path = Append(rs[q.of].path, n)

(* While the window's thread is in LoadFileCurrent the listing f that it    *)
(* asked for is still behind the network thread's request c, or a box has   *)
(* thrown it away.                                                          *)
HeldUp(f, c, pc, as) ==
    IF c < f THEN c + 1 = f => pc # "get" ELSE pc \in {"box", "told"} /\ as[f] = <<>>

RequestsMade ==
    /\ \A r \in DOMAIN asked :
          /\ asked[r].cmd # "drives" => Len(asked[r].path) > 0 /\ r <= filling
          /\ asked[r].cmd = "delete" /\ asked[r].plain = "yes"
                => PlainDelete(asked[r], asked, answer)
          /\ asked[r].cmd = "list" /\ asked[r].item = 0 =>
                r > 1 /\ asked[r - 1].cmd = "delete"
    /\ filling # 0 => filling \in DOMAIN asked /\ asked[filling].cmd = "list" /\ clicked # 0
    /\ filling = 0 => list = <<>>
    /\ wpc # "idle" =>
          /\ filling = Len(asked) /\ asked[filling].item = 0
          /\ HeldUp(filling, cur, cpc, answer)

(* What is in the list, and where the selected item leads.                  *)
EntryOK(e, rs, as) ==
    e.of # 0 => e.of \in DOMAIN as /\ as[e.of] # <<>> /\ rs[e.of].cmd = "list" /\ e.name \in Name

ListMade ==
    /\ \A i \in DOMAIN list : EntryOK(list[i], asked, answer)
    /\ Unmixed => /\ \A i \in DOMAIN list : list[i].of = filling
                  /\ \A r \in Unfinished : r = filling
    /\ filling # 0 /\ sel = clicked => asked[filling].path = GetPath(sel)

(* The halves of packets that the network thread has not given to the       *)
(* window yet.                                                              *)
Ahead == 2 * (IF cpc = "show" THEN 1 ELSE 0) + Len(nbuf) + Len(stream)

(* Nothing of the answer a[r] has been lost so far, where c is the present  *)
(* request, sh what was shown, and ah what is ahead.                        *)
Whole(r, a, c, sh, ah) == 2 * sh[r] + (IF r = c THEN ah ELSE 0) = 2 * Len(a[r])

UnitAt(r, i) == [of |-> r, k |-> (i + 1) \div 2, half |-> 2 - (i % 2)]

(* The units s are the last of the n packets of the answer to r.            *)
RestRight(s, n, r) == \A i \in 1..Len(s) : s[i] = UnitAt(r, 2 * n - Len(s) + i)

(* No more than there was is shown and ahead; and if that is all there was, *)
(* what is ahead is the rest of the answer, in its order.                   *)
Counted ==
    /\ \A r \in Requests \ DOMAIN answer : shown[r] = 0 /\ read[r] = 0
    /\ cur \in DOMAIN answer =>
          /\ 2 * shown[cur] + Ahead <= 2 * Len(answer[cur])
          /\ Whole(cur, answer, cur, shown, Ahead) =>
                /\ RestRight(nbuf \o stream, Len(answer[cur]), cur)
                /\ cpc = "show" => pack = answer[cur][shown[cur] + 1]

NoneRead ==
    \A r \in DOMAIN asked :
        asked[r].cmd = "list" /\ (\A s \in DOMAIN asked : asked[s].cmd = "delete" => s < r)
            => read[r] = 0

(* The names of the first n packets of a of this kind.                      *)
ShownOf(kind, a, n) == {a[k].name : k \in {i \in 1..n : a[i].kind = kind}}

(* The files in the list that are from the answer to r, and that they are   *)
(* there once.                                                              *)
FilesOf(l, r) == {l[i].name : i \in {j \in DOMAIN l : l[j].of = r}}
Once(l, r) == \A i, j \in DOMAIN l : l[i].of = r /\ l[i] = l[j] => i = j

FilesSoFar ==
    filling \in DOMAIN answer /\ Whole(filling, answer, cur, shown, Ahead) =>
        /\ FilesOf(list, filling) = ShownOf("file", answer[filling], shown[filling])
        /\ Once(list, filling)

(* The items of t under h, and their texts.                                 *)
Under(t, h) == {k \in DOMAIN t : t[k].up = h}
TextsUnder(t, h) == {t[k].text : k \in Under(t, h)}
Apart(t, h) == \A k, l \in Under(t, h) : t[k].text = t[l].text => k = l

(* The last request for an item is one for its folder; and unless the item  *)
(* is spoilt no other request for it is unfinished.                         *)
LoadedRight ==
    /\ \A h \in DOMAIN tree : loaded[h] # 0 =>
          /\ loaded[h] \in DOMAIN asked /\ asked[loaded[h]].cmd = "list"
          /\ asked[loaded[h]].item = h /\ asked[loaded[h]].path = PathIn(tree, h)
    /\ \A h \in DOMAIN tree \ spoilt : \A r \in Unfinished : asked[r].item = h => r = loaded[h]

(* Under h are the folders of the answer to r that were shown so far.       *)
HasFolders(t, h, r, a, c, sh, ah) ==
    /\ r \notin DOMAIN a => Under(t, h) = {}
    /\ r \in DOMAIN a /\ Whole(r, a, c, sh, ah) =>
          TextsUnder(t, h) = ShownOf("dir", a[r], sh[r]) /\ Apart(t, h)

FoldersSoFar ==
    \A h \in DOMAIN tree \ spoilt : loaded[h] # 0 =>
        HasFolders(tree, h, loaded[h], answer, cur, shown, Ahead)

NoDeletes == \A r \in DOMAIN asked : asked[r].cmd # "delete"

RootRight ==
    stray = "no" /\ NoDeletes =>
        /\ Awaited \subseteq DOMAIN tree
        /\ TextsUnder(tree, 0) \subseteq ToSet(Drives) /\ Apart(tree, 0)

Asked == [cmd : {"drives", "list", "delete"}, path : Seq(Text),
          item : 0..MaxItems, of : 0..MaxRequests, plain : {"yes", "no"}]


LEMMA Bounds ==
  /\ MaxItems \in Nat /\ MaxRequests \in Nat /\ 0 \in 0..MaxItems /\ 0 \in 0..MaxRequests
  /\ Requests = 1..MaxRequests /\ Items = 1..MaxItems
<1>1. MaxItems \in Nat /\ MaxRequests \in Nat
  BY TreeAssumption, Zenon
<1> QED BY <1>1 DEF Requests, Items

LEMMA DrivesFacts ==
  /\ Drives \in Seq(Name) /\ ToSet(Drives) \subseteq Name /\ Len(Drives) \in Nat \ {0}
  /\ Drives[1] \in ToSet(Drives) /\ Last(Drives) \in ToSet(Drives)
  /\ \A i \in 1..Len(Drives) : Drives[i] \in ToSet(Drives)
  /\ NoName \notin Name
<1>1. Drives \in Seq(Name) /\ Drives # <<>> /\ NoName \notin Name
  BY TreeAssumption DEF TreeAssumption
<1>2. Len(Drives) \in Nat \ {0} /\ DOMAIN Drives = 1..Len(Drives)
  BY <1>1
<1>3. \A i \in 1..Len(Drives) : Drives[i] \in Name /\ Drives[i] \in ToSet(Drives)
  BY <1>1, <1>2 DEF ToSet
<1>4. ToSet(Drives) \subseteq Name
  BY <1>2, <1>3 DEF ToSet
<1>5. 1 \in 1..Len(Drives) /\ Len(Drives) \in 1..Len(Drives)
  BY <1>2
<1> QED BY <1>1, <1>2, <1>3, <1>4, <1>5 DEF Last

LEMMA ListingFacts ==
  ASSUME NEW f \in DOMAIN Listing
  PROVE  /\ f \in Seq(Name) /\ Len(f) \in Nat \ {0} /\ f[1] \in ToSet(Drives)
         /\ Listing[f] \in Seq(Entries) /\ IsInjective(Listing[f])
BY TreeAssumption DEF TreeAssumption

(* The type invariant by whose state it is about.                           *)
WindowType ==
    /\ sel \in DOMAIN tree \cup {0}
    /\ list \in Seq([of : 0..MaxRequests, name : Text])
    /\ asked \in Seq(Asked) /\ Len(asked) <= MaxRequests
    /\ wpc \in {"idle", "test", "recv"} /\ wbuf \in Seq(Units)
    /\ m_packet \in [of : 0..MaxRequests, pkt : Entries \cup {End}] \cup Garbage \cup {Unread}

NetType ==
    /\ cur \in 0..Len(asked) /\ cpc \in {"get", "connect", "box", "recv", "show", "told"}
    /\ nbuf \in Seq(Units) /\ pack \in Packets
    /\ sock \in {"none", "made", "open"} /\ stream \in Seq(Units)

ServerType ==
    /\ drive \in ToSet(Drives) /\ DOMAIN cwd = ToSet(Drives)
    /\ \A d \in ToSet(Drives) : cwd[d] \in DOMAIN Listing
    /\ gone \subseteq {<<f, e>> : f \in DOMAIN Listing,
                                  e \in UNION {ToSet(Listing[g]) : g \in DOMAIN Listing}}
    /\ answer \in Seq(Seq(Packets)) /\ Len(answer) <= cur /\ Len(where) = Len(answer)

HistoryType ==
    /\ shown \in [Requests -> Nat] /\ read \in [Requests -> Nat]
    /\ clicked \in 0..MaxItems /\ loaded \in [Items -> 0..MaxRequests]
    /\ spoilt \subseteq Items /\ filling \in 0..MaxRequests
    /\ mixed \in {"yes", "no"} /\ stray \in {"yes", "no"}

Types == WindowType /\ NetType /\ ServerType /\ HistoryType

(* The two forms of the type invariant are the same. *)
LEMMA TypeParts == TreeOK(tree) => (TypeOK <=> Types)
<1> SUFFICES ASSUME TreeOK(tree) PROVE TypeOK <=> Types
  OBVIOUS
<1>1. /\ DOMAIN tree \subseteq Items
      /\ \A h \in DOMAIN tree : tree[h] \in [text : Text, up : (DOMAIN tree \cup {0}) \ {h}]
  BY DEF TreeOK, TreeType
<1>2. TypeOK => WindowType
  BY DEF TypeOK, WindowType, Asked
<1>3. TypeOK => NetType
  BY DEF TypeOK, NetType
<1>4. TypeOK => ServerType
  BY DEF TypeOK, ServerType
<1>5. TypeOK => HistoryType
  BY DEF TypeOK, HistoryType
<1>6. WindowType /\ NetType /\ ServerType /\ HistoryType => TypeOK
  BY <1>1 DEF TypeOK, WindowType, NetType, ServerType, HistoryType, Asked
<1> QED BY <1>2, <1>3, <1>4, <1>5, <1>6 DEF Types

AInv == Types /\ TreeOK(tree) /\ Buffers /\ Answers /\ RequestsMade /\ ListMade

(* t goes on where s ends. *)
LongerBy(s, t, n) ==
    /\ Len(t) = Len(s) + n /\ DOMAIN t = 1..(Len(s) + n) /\ DOMAIN s = 1..Len(s)
    /\ \A i \in DOMAIN s : i \in DOMAIN t /\ t[i] = s[i]

(* Requests and answers are appended, one or two at a time. *)
LEMMA OneLonger ==
  ASSUME NEW T, NEW s \in Seq(T), NEW x \in T
  PROVE  /\ Append(s, x) \in Seq(T) /\ LongerBy(s, Append(s, x), 1)
         /\ Append(s, x)[Len(s) + 1] = x
BY DEF LongerBy

LEMMA TwoLonger ==
  ASSUME NEW T, NEW s \in Seq(T), NEW x \in T, NEW y \in T
  PROVE  /\ s \o <<x, y>> \in Seq(T) /\ LongerBy(s, s \o <<x, y>>, 2)
         /\ (s \o <<x, y>>)[Len(s) + 1] = x /\ (s \o <<x, y>>)[Len(s) + 2] = y
BY DEF LongerBy

(* What the window posts are requests. *)
LEMMA RequestsType ==
  ASSUME WindowType, TreeOK(tree)
  PROVE  /\ Len(asked) \in 0..MaxRequests /\ DOMAIN asked = 1..Len(asked)
         /\ Request("drives", <<>>, 0) \in Asked
         /\ \A h \in DOMAIN tree \cup {0} : Request("list", GetPath(h), h) \in Asked
         /\ \A h \in DOMAIN tree \cup {0} : Request("list", GetPath(h), 0) \in Asked
         /\ \A h \in DOMAIN tree \cup {0} : GetPath(h) \in Seq(Text) /\ Len(GetPath(h)) > 0
<1>1. Len(asked) \in 0..MaxRequests /\ DOMAIN asked = 1..Len(asked)
  BY Bounds DEF WindowType
<1>2. \A h \in DOMAIN tree \cup {0} : h \in 0..MaxItems
  BY Bounds DEF TreeOK, TreeType
<1>3. \A h \in DOMAIN tree \cup {0} : GetPath(h) \in Seq(Text) /\ Len(GetPath(h)) > 0
  BY PathType, TreeIs
<1>4. <<>> \in Seq(Text)
  OBVIOUS
<1> QED BY <1>1, <1>2, <1>3, <1>4, Bounds DEF Request, Asked

(* The same after a step. *)
LEMMA TreeIsThen ==
  /\ \A h : GetPath(h)' = PathIn(tree', h)
  /\ GetPath(sel)' = PathIn(tree', sel')
<1>1. Chain' = ChainOf(tree')
  BY DEF Chain, ChainOf, IsChain
<1>2. \A h : GetPath(h)' = PathIn(tree', h)
  BY <1>1 DEF GetPath, PathIn
<1>3. GetPath(sel)' = PathIn(tree', sel')
  BY <1>1 DEF GetPath, PathIn
<1> QED BY <1>2, <1>3

(* The numbers of requests and answers. *)
LEMMA AnswerFacts ==
  ASSUME AInv
  PROVE  /\ DOMAIN answer = 1..Len(answer) /\ Len(answer) \in Nat /\ Len(answer) <= cur
         /\ DOMAIN asked = 1..Len(asked) /\ Len(asked) \in 0..MaxRequests
         /\ cur \in 0..Len(asked) /\ cur \in Nat
         /\ DOMAIN answer \subseteq DOMAIN asked /\ DOMAIN answer \subseteq Requests
         /\ filling \in 0..MaxRequests
<1>1. answer \in Seq(Seq(Packets)) /\ Len(answer) <= cur /\ cur \in 0..Len(asked)
      /\ asked \in Seq(Asked) /\ Len(asked) <= MaxRequests /\ filling \in 0..MaxRequests
  BY DEF AInv, Types, ServerType, NetType, WindowType, HistoryType
<1> QED BY <1>1, Bounds

(* Nothing that was said of the requests so far changes when more come.     *)
LEMMA OldRequests ==
  ASSUME AInv, NEW n \in Nat, LongerBy(asked, asked', n),
         UNCHANGED <<cur, cpc, answer, where, gone>>
  PROVE  /\ Answers'
         /\ \A r \in DOMAIN asked :
               /\ r \in DOMAIN asked' /\ asked'[r] = asked[r]
               /\ asked[r].cmd = "delete" /\ asked[r].plain = "yes"
                     => PlainDelete(asked'[r], asked', answer')
<1>1. \A r \in DOMAIN asked : r \in DOMAIN asked' /\ asked'[r] = asked[r]
  BY DEF LongerBy
<1>2. \A r \in DOMAIN answer : r \in DOMAIN asked /\ asked'[r] = asked[r]
  BY <1>1, AnswerFacts
<1>3. Answers'
  <2>1. /\ cur' = cur /\ cpc' = cpc /\ answer' = answer /\ where' = where /\ gone' = gone
    OBVIOUS
  <2>2. \A r \in DOMAIN answer' : AnswerRight(asked'[r], answer'[r], where'[r])
    BY <1>2, <2>1 DEF AInv, Answers
  <2> QED BY <2>1, <2>2 DEF AInv, Answers
<1>4. ASSUME NEW r \in DOMAIN asked, asked[r].cmd = "delete" /\ asked[r].plain = "yes"
      PROVE  PlainDelete(asked'[r], asked', answer')
  <2>1. PlainDelete(asked[r], asked, answer)
    BY <1>4 DEF AInv, RequestsMade
  <2>2. asked[r].of \in DOMAIN answer /\ asked'[asked[r].of] = asked[asked[r].of]
    BY <1>2, <2>1 DEF PlainDelete
  <2> QED BY <1>1, <2>1, <2>2 DEF PlainDelete
<1> QED BY <1>1, <1>3, <1>4

(* The first layer of the invariant, action by action. *)
LEMMA AskDrivesA ==
  ASSUME AInv, AskDrives
  PROVE  AInv'
<1> DEFINE q == Request("drives", <<>>, 0)
<1>1. /\ asked' = Append(asked, q) /\ wpc = "idle" /\ Len(asked) < MaxRequests
      /\ UNCHANGED <<tree, sel, list, wpc, wbuf, m_packet>>
      /\ UNCHANGED <<cur, cpc, nbuf, pack, sock, stream>>
      /\ UNCHANGED <<drive, cwd, gone, answer, where>>
      /\ UNCHANGED <<shown, read, clicked, loaded, spoilt, filling, mixed, stray>>
  BY DEF AskDrives, netVars, serverVars, history
<1>2. q \in Asked /\ q.cmd = "drives"
  BY RequestsType DEF AInv, Types, Request
<1>3. asked \in Seq(Asked)
  BY DEF AInv, Types, WindowType
<1> HIDE DEF q
<1>4. asked' \in Seq(Asked) /\ LongerBy(asked, asked', 1) /\ asked'[Len(asked) + 1] = q
  BY <1>1, <1>2, <1>3, OneLonger
<1>5. /\ Answers'
      /\ \A r \in DOMAIN asked :
            /\ r \in DOMAIN asked' /\ asked'[r] = asked[r]
            /\ asked[r].cmd = "delete" /\ asked[r].plain = "yes"
                  => PlainDelete(asked'[r], asked', answer')
  BY <1>1, <1>4, OldRequests
<1>6. DOMAIN asked' = DOMAIN asked \cup {Len(asked) + 1} /\ Len(asked') = Len(asked) + 1
  BY <1>4 DEF LongerBy
<1>7. Types'
  <2>1. WindowType'
    <3>1. Len(asked') <= MaxRequests
      BY <1>1, <1>6, AnswerFacts, Bounds
    <3> QED BY <1>1, <1>4, <3>1, Zenon DEF AInv, Types, WindowType
  <2>2. NetType'
    BY <1>1, <1>6, AnswerFacts DEF AInv, Types, NetType
  <2>3. ServerType' /\ HistoryType'
    BY <1>1 DEF AInv, Types, ServerType, HistoryType
  <2> QED BY <2>1, <2>2, <2>3 DEF Types
<1>8. TreeOK(tree)' /\ Buffers'
  BY <1>1 DEF AInv, Buffers, Known, Own
<1>9. RequestsMade'
  <2>1. ASSUME NEW r \in DOMAIN asked'
        PROVE  /\ asked'[r].cmd # "drives" => Len(asked'[r].path) > 0 /\ r <= filling'
               /\ asked'[r].cmd = "delete" /\ asked'[r].plain = "yes"
                     => PlainDelete(asked'[r], asked', answer')
               /\ asked'[r].cmd = "list" /\ asked'[r].item = 0 =>
                     r > 1 /\ asked'[r - 1].cmd = "delete"
    <3>1. CASE r \in DOMAIN asked
      <4>1. r > 1 => r - 1 \in DOMAIN asked
        BY <3>1, AnswerFacts
      <4>2. asked'[r] = asked[r] /\ (r > 1 => asked'[r - 1] = asked[r - 1])
        BY <1>5, <3>1, <4>1
      <4> QED BY <1>1, <1>5, <3>1, <4>2 DEF AInv, RequestsMade
    <3>2. CASE r = Len(asked) + 1
      BY <1>2, <1>4, <3>2
    <3> QED BY <1>6, <3>1, <3>2
  <2>2. \A r \in DOMAIN asked : filling = r => asked'[filling] = asked[filling]
    BY <1>5
  <2> QED BY <1>1, <1>5, <1>6, <2>1, <2>2, AnswerFacts DEF AInv, RequestsMade
<1>10. ListMade'
  <2>1. \A i \in DOMAIN list : EntryOK(list'[i], asked', answer')
    BY <1>1, <1>5, AnswerFacts DEF AInv, ListMade, EntryOK
  <2>2. Unfinished' = Unfinished
    BY <1>1, <1>2, <1>4, <1>5, <1>6 DEF Unfinished
  <2>3. filling # 0 => asked'[filling] = asked[filling]
    BY <1>5 DEF AInv, RequestsMade
  <2>4. GetPath(sel)' = GetPath(sel)
    BY <1>1, TreeIs, TreeIsThen
  <2>5. Unmixed' => Unmixed
    BY <1>1, <2>3 DEF Unmixed
  <2> QED BY <1>1, <2>1, <2>2, <2>3, <2>4, <2>5 DEF AInv, ListMade
<1> QED BY <1>5, <1>7, <1>8, <1>9, <1>10 DEF AInv

LEMMA LoadFileInfoA ==
  ASSUME AInv, NEW h \in Items, LoadFileInfo(h)
  PROVE  AInv'
<1> DEFINE q == Request("list", GetPath(h), h)
<1>1. /\ asked' = Append(asked, q) /\ wpc = "idle" /\ Len(asked) < MaxRequests
      /\ h \in DOMAIN tree /\ h # 0
      /\ tree' = [k \in DOMAIN tree \ BelowIn(tree, h) |-> tree[k]]
      /\ sel' \in {h} \cup ({sel} \ BelowIn(tree, h))
      /\ list' = <<>> /\ filling' = Len(asked) + 1 /\ clicked' = h
      /\ mixed' = IF Unfinished # {} THEN "yes" ELSE "no"
      /\ UNCHANGED <<wpc, wbuf, m_packet>>
      /\ UNCHANGED <<cur, cpc, nbuf, pack, sock, stream>>
      /\ UNCHANGED <<drive, cwd, gone, answer, where>>
      /\ UNCHANGED <<shown, read>>
  BY TreeIs, Bounds DEF LoadFileInfo, Clear, netVars, serverVars
<1>2. /\ loaded' = [loaded EXCEPT ![h] = Len(asked) + 1]
      /\ spoilt' = IF h \in Awaited THEN spoilt \cup {h} ELSE spoilt \ {h}
      /\ stray' \in {"yes", stray}
  BY DEF LoadFileInfo, Gone
<1>3. /\ q \in Asked /\ q.cmd = "list" /\ q.item = h /\ q.path = GetPath(h)
      /\ Len(q.path) > 0
  BY <1>1, RequestsType DEF AInv, Types, Request
<1>4. asked \in Seq(Asked)
  BY DEF AInv, Types, WindowType
<1>5. /\ TreeOK(tree') /\ h \in DOMAIN tree' /\ DOMAIN tree' = DOMAIN tree \ BelowIn(tree, h)
      /\ PathIn(tree', h) = PathIn(tree, h)
  <2>1. TreeOK(tree)
    BY DEF AInv
  <2>2. TreeOK(tree') /\ h \in DOMAIN tree' /\ \A k \in DOMAIN tree' : k # 0 =>
           PathIn(tree', k) = PathIn(tree, k)
    <3>1. h \in DOMAIN tree /\ h # 0 /\ tree' = [k \in DOMAIN tree \ BelowIn(tree, h) |-> tree[k]]
      BY <1>1
    <3> QED BY <2>1, <3>1, CutTree
  <2> QED BY <1>1, <2>2
<1> HIDE DEF q
<1>6. asked' \in Seq(Asked) /\ LongerBy(asked, asked', 1) /\ asked'[Len(asked) + 1] = q
  BY <1>1, <1>3, <1>4, OneLonger
<1>7. /\ Answers'
      /\ \A r \in DOMAIN asked :
            /\ r \in DOMAIN asked' /\ asked'[r] = asked[r]
            /\ asked[r].cmd = "delete" /\ asked[r].plain = "yes"
                  => PlainDelete(asked'[r], asked', answer')
  BY <1>1, <1>6, OldRequests
<1>8. DOMAIN asked' = DOMAIN asked \cup {Len(asked) + 1} /\ Len(asked') = Len(asked) + 1
      /\ Len(asked) + 1 \in 1..MaxRequests
  BY <1>1, <1>6, AnswerFacts, Bounds DEF LongerBy
<1>9. Types'
  <2>1. WindowType'
    <3>1. Len(asked') <= MaxRequests
      BY <1>8
    <3>2. sel' \in DOMAIN tree' \cup {0}
      BY <1>1, <1>5 DEF AInv, Types, WindowType
    <3>3. list' \in Seq([of : 0..MaxRequests, name : Text])
      BY <1>1
    <3> QED BY <1>1, <1>6, <3>1, <3>2, <3>3, Zenon DEF AInv, Types, WindowType
  <2>2. NetType'
    BY <1>1, <1>8, AnswerFacts DEF AInv, Types, NetType
  <2>3. ServerType'
    BY <1>1 DEF AInv, Types, ServerType
  <2>4. HistoryType'
    BY <1>1, <1>2, <1>8, Bounds DEF AInv, Types, HistoryType
  <2> QED BY <2>1, <2>2, <2>3, <2>4 DEF Types
<1>10. Buffers'
  BY <1>1 DEF AInv, Buffers, Known, Own
<1>11. RequestsMade'
  <2>1. ASSUME NEW r \in DOMAIN asked'
        PROVE  /\ asked'[r].cmd # "drives" => Len(asked'[r].path) > 0 /\ r <= filling'
               /\ asked'[r].cmd = "delete" /\ asked'[r].plain = "yes"
                     => PlainDelete(asked'[r], asked', answer')
               /\ asked'[r].cmd = "list" /\ asked'[r].item = 0 =>
                     r > 1 /\ asked'[r - 1].cmd = "delete"
    <3>1. CASE r \in DOMAIN asked
      <4>1. r > 1 => r - 1 \in DOMAIN asked
        BY <3>1, AnswerFacts
      <4>2. asked'[r] = asked[r] /\ (r > 1 => asked'[r - 1] = asked[r - 1])
        BY <1>7, <3>1, <4>1
      <4>3. r <= filling'
        BY <1>1, <3>1, AnswerFacts
      <4> QED BY <1>1, <1>7, <3>1, <4>2, <4>3 DEF AInv, RequestsMade
    <3>2. CASE r = Len(asked) + 1
      <4>1. asked'[r] = q /\ r <= filling'
        BY <1>1, <1>6, <3>2, AnswerFacts
      <4> QED BY <1>1, <1>3, <4>1
    <3> QED BY <1>8, <3>1, <3>2
  <2> QED BY <1>1, <1>3, <1>6, <1>8, <2>1 DEF RequestsMade
<1>12. ListMade'
  <2>1. Unmixed' => \A r \in Unfinished' : r = filling'
    <3>1. Unmixed' => Unfinished = {}
      BY <1>1 DEF Unmixed
    <3>2. Unfinished' \subseteq Unfinished \cup {Len(asked) + 1}
      BY <1>1, <1>7, <1>8 DEF Unfinished
    <3> QED BY <1>1, <3>1, <3>2
  <2>2. sel' = clicked' => asked'[filling'].path = GetPath(sel)'
    BY <1>1, <1>3, <1>5, <1>6, TreeIs, TreeIsThen
  <2> QED BY <1>1, <2>1, <2>2 DEF ListMade
<1> QED BY <1>5, <1>7, <1>9, <1>10, <1>11, <1>12 DEF AInv

LEMMA OnDeleteFileA ==
  ASSUME AInv, NEW e \in ToSet(list), OnDeleteFile(e)
  PROVE  AInv'
<1> DEFINE plain == IF sel = clicked /\ (e.of = filling \/ Unmixed) THEN "yes" ELSE "no"
           p == [cmd |-> "delete", path |-> Append(GetPath(sel), e.name), item |-> 0,
                 of |-> e.of, plain |-> plain]
           q == Request("list", GetPath(sel), 0)
<1>1. /\ asked' = asked \o <<p, q>> /\ wpc = "idle" /\ Len(asked) + 1 < MaxRequests
      /\ UNCHANGED <<tree, sel, wbuf, m_packet>>
      /\ list' = <<>> /\ filling' = Len(asked) + 2 /\ wpc' = "test"
      /\ mixed' \in {"yes", "no"}
      /\ UNCHANGED <<cur, cpc, nbuf, pack, sock, stream>>
      /\ UNCHANGED <<drive, cwd, gone, answer, where>>
      /\ UNCHANGED <<shown, read, clicked, loaded, spoilt, stray>>
  BY DEF OnDeleteFile, Clear, netVars, serverVars
<1>2. sel \in DOMAIN tree \cup {0} /\ asked \in Seq(Asked) /\ list # <<>>
      /\ list \in Seq([of : 0..MaxRequests, name : Text])
  BY DEF AInv, Types, WindowType, ToSet
<1>3. e \in [of : 0..MaxRequests, name : Text] /\ EntryOK(e, asked, answer)
      /\ (Unmixed => e.of = filling)
  <2>1. PICK i \in DOMAIN list : e = list[i]
    BY DEF ToSet
  <2>2. e \in [of : 0..MaxRequests, name : Text]
    <3> DEFINE T == [of : 0..MaxRequests, name : Text]
    <3>1. list \in Seq(T)
      BY <1>2
    <3> HIDE DEF T
    <3>2. e \in T
      BY <2>1, <3>1
    <3> QED BY <3>2 DEF T
  <2> QED BY <2>1, <2>2 DEF AInv, ListMade
<1>4. GetPath(sel) \in Seq(Text) /\ Len(GetPath(sel)) > 0
  BY <1>2, RequestsType DEF AInv, Types
<1>5. /\ q \in Asked /\ q.cmd = "list" /\ q.item = 0 /\ q.path = GetPath(sel)
  BY <1>2, RequestsType DEF AInv, Types, Request
<1>6. /\ p \in Asked /\ p.cmd = "delete" /\ p.path = Append(GetPath(sel), e.name) /\ p.of = e.of
      /\ p.plain = "yes" => sel = clicked /\ p.of = filling
      /\ Len(p.path) > 0
  <2>1. e.of \in 0..MaxRequests /\ e.name \in Text
    BY <1>3
  <2>2. plain \in {"yes", "no"} /\ (plain = "yes" => sel = clicked /\ e.of = filling)
    BY <1>3
  <2>3. Append(GetPath(sel), e.name) \in Seq(Text) /\ Len(Append(GetPath(sel), e.name)) > 0
    BY <1>4, <2>1
  <2> HIDE DEF plain
  <2> QED BY <2>1, <2>2, <2>3, Bounds DEF Asked
<1> HIDE DEF p, q
<1>7. /\ asked' \in Seq(Asked) /\ LongerBy(asked, asked', 2)
      /\ asked'[Len(asked) + 1] = p /\ asked'[Len(asked) + 2] = q
  BY <1>1, <1>2, <1>5, <1>6, TwoLonger
<1>8. /\ Answers'
      /\ \A r \in DOMAIN asked :
            /\ r \in DOMAIN asked' /\ asked'[r] = asked[r]
            /\ asked[r].cmd = "delete" /\ asked[r].plain = "yes"
                  => PlainDelete(asked'[r], asked', answer')
  BY <1>1, <1>7, OldRequests
<1>9. /\ DOMAIN asked' = DOMAIN asked \cup {Len(asked) + 1, Len(asked) + 2}
      /\ Len(asked') = Len(asked) + 2 /\ Len(asked) + 2 \in 1..MaxRequests
  <2>1. Len(asked) \in Nat /\ Len(asked) + 1 < MaxRequests /\ MaxRequests \in Nat
    BY <1>1, AnswerFacts, Bounds
  <2> QED BY <1>7, <2>1 DEF LongerBy
<1>10. Types'
  <2>1. WindowType'
    <3>1. Len(asked') <= MaxRequests
      BY <1>9
    <3>2. list' \in Seq([of : 0..MaxRequests, name : Text])
      BY <1>1
    <3> QED BY <1>1, <1>7, <3>1, <3>2, Zenon DEF AInv, Types, WindowType
  <2>2. NetType'
    BY <1>1, <1>9, AnswerFacts DEF AInv, Types, NetType
  <2>3. ServerType'
    BY <1>1 DEF AInv, Types, ServerType
  <2>4. HistoryType'
    <3>1. filling' \in 0..MaxRequests
      BY <1>1, <1>9, Bounds
    <3> QED BY <1>1, <3>1, Zenon DEF AInv, Types, HistoryType
  <2> QED BY <2>1, <2>2, <2>3, <2>4 DEF Types
<1>11. TreeOK(tree)' /\ Buffers'
  BY <1>1 DEF AInv, Buffers, Known, Own
<1>12. filling # 0 /\ clicked # 0
  BY <1>2 DEF AInv, RequestsMade
<1>13. p.plain = "yes" => PlainDelete(p, asked', answer')
  <2> SUFFICES ASSUME p.plain = "yes" PROVE PlainDelete(p, asked', answer')
    OBVIOUS
  <2>1. /\ p.of = filling /\ filling \in DOMAIN answer /\ answer[filling] # <<>>
        /\ asked[filling].cmd = "list" /\ e.name \in Name
    BY <1>3, <1>6, <1>12 DEF EntryOK
  <2>2. asked[filling].path = GetPath(sel) /\ asked'[filling] = asked[filling]
    BY <1>6, <1>8, <1>12, <2>1, AnswerFacts DEF AInv, ListMade
  <2> QED BY <1>1, <1>6, <2>1, <2>2 DEF PlainDelete
<1>14. RequestsMade'
  <2>1. ASSUME NEW r \in DOMAIN asked'
        PROVE  /\ asked'[r].cmd # "drives" => Len(asked'[r].path) > 0 /\ r <= filling'
               /\ asked'[r].cmd = "delete" /\ asked'[r].plain = "yes" =>
                     PlainDelete(asked'[r], asked', answer')
               /\ asked'[r].cmd = "list" /\ asked'[r].item = 0 =>
                     r > 1 /\ asked'[r - 1].cmd = "delete"
    <3>1. CASE r \in DOMAIN asked
      <4>1. r > 1 => r - 1 \in DOMAIN asked
        BY <3>1, AnswerFacts
      <4>2. asked'[r] = asked[r] /\ (r > 1 => asked'[r - 1] = asked[r - 1])
        BY <1>8, <3>1, <4>1
      <4>3. r <= filling'
        BY <1>1, <3>1, AnswerFacts
      <4> QED BY <1>1, <1>8, <3>1, <4>2, <4>3 DEF AInv, RequestsMade
    <3>2. CASE r = Len(asked) + 1
      <4>1. asked'[r] = p /\ r <= filling'
        BY <1>1, <1>7, <3>2, AnswerFacts
      <4> QED BY <1>6, <1>13, <4>1
    <3>3. CASE r = Len(asked) + 2
      <4>1. asked'[r] = q /\ r <= filling' /\ r > 1 /\ r - 1 = Len(asked) + 1
        BY <1>1, <1>7, <3>3, AnswerFacts
      <4> QED BY <1>4, <1>5, <1>6, <1>7, <4>1
    <3> QED BY <1>9, <3>1, <3>2, <3>3
  <2>2. cur' < filling' /\ cur' + 1 # filling' /\ filling' = Len(asked')
        /\ filling' \in DOMAIN asked'
    BY <1>1, <1>9, AnswerFacts
  <2>3. asked'[filling'] = q
    BY <1>1, <1>7
  <2>4. HeldUp(filling', cur', cpc', answer')
    BY <1>1, <1>5, AnswerFacts DEF HeldUp
  <2> QED BY <1>1, <1>5, <1>12, <2>1, <2>2, <2>3, <2>4, AnswerFacts DEF RequestsMade
<1>15. ListMade'
  <2>1. ~Unmixed'
    BY <1>1, <1>5, <1>7 DEF Unmixed
  <2>2. asked'[filling'].path = GetPath(sel)'
    BY <1>1, <1>5, <1>7, TreeIs, TreeIsThen
  <2> QED BY <1>1, <2>1, <2>2 DEF ListMade
<1> QED BY <1>8, <1>10, <1>11, <1>14, <1>15 DEF AInv

(* What a folder's listing gives now: all its folders, and nothing twice.   *)
LEMMA ListingNowFacts ==
  ASSUME NEW f \in DOMAIN Listing, \A g \in gone : g[2].kind = "file"
  PROVE  /\ ListingNow(f) \in Seq(Entries \cup {End}) /\ IsInjective(ListingNow(f))
         /\ ListingNow(f) # <<>> /\ Names("dir", ListingNow(f)) = Names("dir", Listing[f])
<1> DEFINE s == Listing[f]
           bad == {e \in ToSet(s) : <<f, e>> \in gone}
           w == Without(s, bad)
<1>1. s \in Seq(Entries) /\ IsInjective(s)
  BY ListingFacts
<1>2. \A e \in bad : e.kind = "file"
  <2> TAKE e \in bad
  <2>1. <<f, e>> \in gone
    OBVIOUS
  <2>2. <<f, e>>[2].kind = "file"
    BY <2>1
  <2> QED BY <2>2
<1>3. ListingNow(f) = Append(w, End)
  BY DEF ListingNow
<1> HIDE DEF s, bad
<1>4. /\ w \in Seq(Entries)
      /\ {w[i] : i \in DOMAIN w} = {s[i] : i \in DOMAIN s} \ bad
      /\ \A i, j \in DOMAIN w : w[i] = w[j] => i = j
  <2>1. \A i, j \in DOMAIN s : s[i] = s[j] => i = j
    BY <1>1 DEF IsInjective
  <2>2. /\ w \in Seq(Entries)
        /\ {w[i] : i \in DOMAIN w} = {s[i] : i \in DOMAIN s} \ bad
        /\ (\A i, j \in DOMAIN s : s[i] = s[j] => i = j) =>
              \A i, j \in DOMAIN w : w[i] = w[j] => i = j
    BY <1>1, WithoutType, Zenon
  <2> QED BY <2>1, <2>2
<1>5. End \notin Entries /\ End.kind # "dir"
  BY DEF End, Entries
<1> HIDE DEF w
<1> DEFINE a == Append(w, End)
<1>6. /\ a \in Seq(Entries \cup {End}) /\ DOMAIN a = DOMAIN w \cup {Len(w) + 1} /\ a # <<>>
      /\ a[Len(w) + 1] = End /\ \A i \in DOMAIN w : a[i] = w[i] /\ w[i] \in Entries
  BY <1>4
<1> HIDE DEF a
<1>7. IsInjective(a)
  BY <1>4, <1>5, <1>6 DEF IsInjective
<1>8. ToSet(a) = (ToSet(s) \ bad) \cup {End}
  BY <1>4, <1>6 DEF ToSet
<1>9. {e \in ToSet(a) : e.kind = "dir"} = {e \in ToSet(s) : e.kind = "dir"}
  BY <1>2, <1>5, <1>8
<1>10. Names("dir", a) = Names("dir", s)
  BY <1>9 DEF Names
<1> QED BY <1>3, <1>6, <1>7, <1>10 DEF a, s

(* The answer for a folder that is not there. *)
LEMMA EndOnly ==
  <<End>> \in Seq(Entries \cup {End}) /\ IsInjective(<<End>>) /\ Names("dir", <<End>>) = {}
<1>1. DOMAIN <<End>> = {1} /\ <<End>>[1] = End /\ <<End>> \in Seq(Entries \cup {End})
  OBVIOUS
<1>2. ToSet(<<End>>) = {End}
  BY <1>1 DEF ToSet
<1>3. End.kind # "dir"
  BY DEF End
<1> QED BY <1>1, <1>2, <1>3 DEF IsInjective, Names

(* The server's state after a command, and before one. *)
ServerThen ==
    /\ drive' \in ToSet(Drives) /\ DOMAIN cwd' = ToSet(Drives)
    /\ \A d \in ToSet(Drives) : cwd'[d] \in DOMAIN Listing
    /\ gone' \subseteq {<<f, e>> : f \in DOMAIN Listing,
                                   e \in UNION {ToSet(Listing[g]) : g \in DOMAIN Listing}}
    /\ \A g \in gone' : g[2].kind = "file"

LEMMA ServerNow ==
  ASSUME AInv
  PROVE  /\ drive \in ToSet(Drives) /\ DOMAIN cwd = ToSet(Drives)
         /\ \A d \in ToSet(Drives) : cwd[d] \in DOMAIN Listing
         /\ gone \subseteq {<<f, e>> : f \in DOMAIN Listing,
                                       e \in UNION {ToSet(Listing[g]) : g \in DOMAIN Listing}}
         /\ \A g \in gone : g[2].kind = "file"
BY DEF AInv, Types, ServerType, Answers

(* What each of the server's commands answers. *)
LEMMA DirectoryInfoFacts ==
  ASSUME AInv, NEW f, MakeDirectoryInfo(f)
  PROVE  /\ ServerThen /\ where' = Append(where, f)
         /\ \E a : /\ answer' = Append(answer, a) /\ a # <<>>
                   /\ a \in Seq(Entries \cup {End}) /\ IsInjective(a)
                   /\ Names("dir", a) = Folders(f)
<1>1. where' = Append(where, f) /\ gone' = gone
  BY DEF MakeDirectoryInfo
<1>2. CASE f \in DOMAIN Listing
  <2>1. /\ answer' = Append(answer, ListingNow(f))
        /\ drive' = f[1] /\ cwd' = [cwd EXCEPT ![f[1]] = f]
    BY <1>2 DEF MakeDirectoryInfo
  <2>2. ServerThen
    <3>1. f[1] \in ToSet(Drives)
      BY <1>2, ListingFacts
    <3>2. DOMAIN cwd' = DOMAIN cwd /\ \A d \in DOMAIN cwd : cwd'[d] \in {cwd[d], f}
      BY <2>1
    <3> QED BY <1>1, <1>2, <2>1, <3>1, <3>2, ServerNow DEF ServerThen
  <2> QED BY <1>1, <1>2, <2>1, <2>2, ListingNowFacts, ServerNow DEF Folders
<1>3. CASE f \notin DOMAIN Listing
  <2>1. answer' = Append(answer, <<End>>) /\ drive' = drive /\ cwd' = cwd
    BY <1>3 DEF MakeDirectoryInfo
  <2>2. ServerThen
    BY <1>1, <2>1, ServerNow DEF ServerThen
  <2>3. <<End>> # <<>>
    OBVIOUS
  <2> QED BY <1>1, <1>3, <2>1, <2>2, <2>3, EndOnly DEF Folders
<1> QED BY <1>2, <1>3

LEMMA DeleteFacts ==
  ASSUME AInv, NEW path, DeleteLocalFile(path)
  PROVE  ServerThen /\ where' = Append(where, Front(path)) /\ answer' = Append(answer, <<Deleted>>)
<1> DEFINE f == Front(path)
           e == [kind |-> "file", name |-> Last(path)]
<1>1. /\ answer' = Append(answer, <<Deleted>>) /\ where' = Append(where, f)
      /\ gone' = IF f \in DOMAIN Listing /\ e \in ToSet(Listing[f])
                 THEN gone \cup {<<f, e>>} ELSE gone
      /\ drive' = drive /\ cwd' = cwd
  BY DEF DeleteLocalFile
<1>2. e.kind = "file"
  OBVIOUS
<1> HIDE DEF f, e
<1>3. gone' \subseteq {<<g, d>> : g \in DOMAIN Listing,
                                  d \in UNION {ToSet(Listing[h]) : h \in DOMAIN Listing}}
  BY <1>1, ServerNow
<1>4. \A g \in gone' : g[2].kind = "file"
  <2>1. <<f, e>>[2].kind = "file"
    BY <1>2
  <2> QED BY <1>1, <2>1, ServerNow
<1> QED BY <1>1, <1>3, <1>4, ServerNow DEF ServerThen, f

(* The answer is right for the request, whatever the command. *)
LEMMA RunCommandFacts ==
  ASSUME AInv, NEW q \in Asked, RunCommand(q)
  PROVE  /\ ServerThen
         /\ \E a, w : /\ answer' = Append(answer, a) /\ where' = Append(where, w)
                      /\ a \in Seq(Packets) /\ a # <<>> /\ AnswerRight(q, a, w)
<1> DEFINE f == Resolve(q.path, drive, cwd)
<1>1. q.path[1] \in ToSet(Drives) => f = Without(q.path, {NoName})
  BY DEF Resolve
<1> HIDE DEF f
<1>2. q.cmd \in {"drives", "list", "delete"}
  BY DEF Asked
<1>3. CASE q.cmd = "drives"
  <2>1. /\ answer' = Append(answer, <<DriveList>>) /\ where' = Append(where, <<>>)
        /\ drive' = Last(Drives) /\ cwd' = cwd /\ gone' = gone
    BY <1>3 DEF RunCommand, MakeDriverInfo
  <2>2. ServerThen
    BY <2>1, ServerNow, DrivesFacts DEF ServerThen
  <2>3. <<DriveList>> \in Seq(Packets) /\ <<DriveList>> # <<>>
    BY DEF Packets
  <2>4. AnswerRight(q, <<DriveList>>, <<>>)
    BY <1>3 DEF AnswerRight, AnswerTo
  <2> QED BY <2>1, <2>2, <2>3, <2>4
<1>4. CASE q.cmd = "list"
  <2>1. MakeDirectoryInfo(f)
    BY <1>4 DEF RunCommand, f
  <2>2. ServerThen /\ where' = Append(where, f)
    BY <2>1, DirectoryInfoFacts
  <2>3. PICK a : /\ answer' = Append(answer, a) /\ a # <<>>
                 /\ a \in Seq(Entries \cup {End}) /\ IsInjective(a)
                 /\ Names("dir", a) = Folders(f)
    BY <2>1, DirectoryInfoFacts
  <2>4. a \in Seq(Packets)
    BY <2>3 DEF Packets
  <2>5. AnswerRight(q, a, f)
    BY <1>1, <1>4, <2>3 DEF AnswerRight, AnswerTo
  <2> QED BY <2>2, <2>3, <2>4, <2>5
<1>5. CASE q.cmd = "delete"
  <2>1. DeleteLocalFile(f)
    BY <1>5 DEF RunCommand, f
  <2>2. ServerThen /\ where' = Append(where, Front(f)) /\ answer' = Append(answer, <<Deleted>>)
    BY <2>1, DeleteFacts
  <2>3. <<Deleted>> \in Seq(Packets) /\ <<Deleted>> # <<>>
    BY DEF Packets
  <2>4. AnswerRight(q, <<Deleted>>, Front(f))
    BY <1>1, <1>5 DEF AnswerRight, AnswerTo
  <2> QED BY <2>2, <2>3, <2>4
<1> QED BY <1>2, <1>3, <1>4, <1>5

LEMMA KnownGrows ==
  ASSUME NEW n \in Nat, LongerBy(answer, answer', n)
  PROVE  Known \subseteq Known'
BY DEF Known, LongerBy

(* What the network thread does leaves the requests and the list as they    *)
(* are.                                                                     *)
LEMMA NetLeaves ==
  ASSUME AInv, NEW n \in Nat, LongerBy(answer, answer', n),
         UNCHANGED <<tree, sel, list, asked, wpc, filling, mixed, clicked>>,
         Unfinished' \subseteq Unfinished,
         wpc # "idle" => HeldUp(filling, cur', cpc', answer')
  PROVE  RequestsMade' /\ ListMade'
<1>1. \A r \in DOMAIN answer : r \in DOMAIN answer' /\ answer'[r] = answer[r]
  BY DEF LongerBy
<1>2. ASSUME NEW q, PlainDelete(q, asked, answer) PROVE PlainDelete(q, asked', answer')
  BY <1>1, <1>2 DEF PlainDelete
<1>3. ASSUME NEW e, EntryOK(e, asked, answer) PROVE EntryOK(e, asked', answer')
  BY <1>1, <1>3 DEF EntryOK
<1>4. RequestsMade'
  BY <1>2 DEF AInv, RequestsMade
<1>5. ListMade'
  <2>1. GetPath(sel)' = GetPath(sel)
    BY TreeIs, TreeIsThen
  <2>2. Unmixed' = Unmixed
    BY DEF Unmixed
  <2> QED BY <1>3, <2>1, <2>2 DEF AInv, ListMade
<1> QED BY <1>4, <1>5

LEMMA SameAnswers ==
  ASSUME AInv PROVE LongerBy(answer, answer, 0)
BY AnswerFacts DEF LongerBy

LEMMA MakeSocketA ==
  ASSUME AInv, MakeSocket
  PROVE  AInv'
<1>1. /\ cpc = "get" /\ cur < Len(asked)
      /\ cur' = cur + 1 /\ cpc' = "connect" /\ sock' = "made" /\ nbuf' = <<>>
      /\ UNCHANGED <<tree, sel, list, asked, wpc, wbuf, m_packet>>
      /\ UNCHANGED <<pack, stream>> /\ UNCHANGED <<drive, cwd, gone, answer, where>>
      /\ UNCHANGED <<shown, read, clicked, loaded, spoilt, filling, mixed, stray>>
  BY DEF MakeSocket, windowVars, serverVars, history
<1>2. stream = <<>> /\ cur \in Nat /\ Len(answer) = cur /\ Len(asked) \in Nat
  BY <1>1, AnswerFacts DEF AInv, Buffers, Answers
<1>3. Types'
  <2>1. WindowType' /\ HistoryType'
    BY <1>1 DEF AInv, Types, WindowType, HistoryType
  <2>2. NetType'
    BY <1>1, <1>2 DEF AInv, Types, NetType
  <2>3. ServerType'
    BY <1>1, <1>2 DEF AInv, Types, ServerType
  <2> QED BY <2>1, <2>2, <2>3 DEF Types
<1>4. TreeOK(tree)' /\ Answers'
  BY <1>1, <1>2 DEF AInv, Answers
<1>5. Buffers'
  <2>1. Known' = Known
    BY <1>1 DEF Known
  <2>2. nbuf' \in Seq(Own') /\ stream' \in Seq(Own')
    BY <1>1, <1>2
  <2> QED BY <1>1, <1>2, <2>1, <2>2 DEF AInv, Buffers
<1>6. Unfinished' \subseteq Unfinished
  BY <1>1, <1>2, AnswerFacts DEF Unfinished
<1>7. wpc # "idle" => HeldUp(filling, cur', cpc', answer')
  BY <1>1, <1>2, AnswerFacts DEF AInv, RequestsMade, HeldUp
<1>8. RequestsMade' /\ ListMade'
  BY <1>1, <1>6, <1>7, SameAnswers, NetLeaves
<1> QED BY <1>3, <1>4, <1>5, <1>8 DEF AInv

(* What is sent of an answer: its first n packets, half by half.            *)
LEMMA UnitsFacts ==
  ASSUME NEW r, NEW n \in Nat
  PROVE  /\ DOMAIN UnitsOf(r, n) = 1..(2 * n)
         /\ UnitsOf(r, n) \in Seq({UnitAt(r, i) : i \in 1..(2 * n)})
         /\ Len(UnitsOf(r, n)) = 2 * n
         /\ \A i \in 1..(2 * n) : UnitsOf(r, n)[i] = UnitAt(r, i)
         /\ \A i \in 1..(2 * n) : UnitAt(r, i).k \in 1..n /\ UnitAt(r, i).half \in 1..2
<1>1. /\ DOMAIN UnitsOf(r, n) = 1..(2 * n)
      /\ \A i \in 1..(2 * n) : UnitsOf(r, n)[i] = UnitAt(r, i)
      /\ UnitsOf(r, n) = [i \in 1..(2 * n) |-> UnitAt(r, i)]
  BY DEF UnitsOf, UnitAt
<1>2. ASSUME NEW i \in 1..(2 * n) PROVE (i + 1) \div 2 \in 1..n /\ 2 - (i % 2) \in 1..2
  OBVIOUS
<1>3. 2 * n \in Nat
  OBVIOUS
<1>4. UnitsOf(r, n) \in Seq({UnitAt(r, i) : i \in 1..(2 * n)}) /\ Len(UnitsOf(r, n)) = 2 * n
  BY <1>1, <1>3
<1> QED BY <1>1, <1>2, <1>4 DEF UnitAt

(* The request cur gets an answer, which may be none. *)
LEMMA AnswerStep ==
  ASSUME AInv, cpc = "connect", cpc' \in {"box", "recv", "told"}, cur' = cur,
         UNCHANGED <<tree, sel, list, asked, wpc, wbuf, m_packet>>, UNCHANGED <<nbuf, pack>>,
         UNCHANGED <<shown, read, clicked, loaded, spoilt, filling, mixed, stray>>,
         sock' \in {"none", "made", "open"}, ServerThen,
         NEW a \in Seq(Packets), NEW w, answer' = Append(answer, a), where' = Append(where, w),
         AnswerRight(asked[cur], a, w),
         NEW n \in 0..Len(a), stream' = UnitsOf(cur, n), cpc' # "recv" => n = 0
  PROVE  AInv' /\ LongerBy(answer, answer', 1) /\ answer'[cur] = a
<1>1. answer \in Seq(Seq(Packets)) /\ Len(answer) = cur - 1 /\ cur \in Nat /\ cur > 0
      /\ Len(where) = Len(answer) /\ cur \in 1..Len(asked) /\ nbuf = <<>>
  BY AnswerFacts DEF AInv, Types, ServerType, Answers, Buffers
<1>2. /\ answer' \in Seq(Seq(Packets)) /\ LongerBy(answer, answer', 1) /\ answer'[cur] = a
  BY <1>1, OneLonger
<1>3. /\ Len(answer') = cur /\ DOMAIN answer' = DOMAIN answer \cup {cur}
      /\ \A r \in DOMAIN answer : answer'[r] = answer[r]
  BY <1>1, <1>2 DEF LongerBy
<1>4. /\ Len(where') = cur /\ where'[cur] = w
      /\ \A r \in DOMAIN answer : where'[r] = where[r]
  BY <1>1
<1>5. stream' \in Seq(Own')
  <2>1. n \in Nat /\ Len(a) \in Nat /\ n <= Len(a) /\ DOMAIN a = 1..Len(a)
    OBVIOUS
  <2>2. cur \in Requests /\ cur \in DOMAIN answer'
    BY <1>1, <1>3, AnswerFacts, Bounds
  <2>3. \A i \in 1..(2 * n) : UnitAt(cur, i) \in Own'
    <3> TAKE i \in 1..(2 * n)
    <3>1. UnitAt(cur, i).k \in 1..n /\ UnitAt(cur, i).half \in 1..2
      BY <2>1, UnitsFacts
    <3>2. UnitAt(cur, i).of = cur /\ UnitAt(cur, i) \in Units
      BY <2>2, <3>1 DEF UnitAt, Units
    <3>3. UnitAt(cur, i).k \in DOMAIN answer'[cur]
      BY <1>2, <2>1, <3>1
    <3> QED BY <2>2, <3>2, <3>3 DEF Own, Known
  <2>4. stream' \in Seq({UnitAt(cur, i) : i \in 1..(2 * n)})
    BY <2>1, UnitsFacts
  <2>5. {UnitAt(cur, i) : i \in 1..(2 * n)} \subseteq Own'
    BY <2>3
  <2> HIDE DEF UnitAt
  <2> QED BY <2>4, <2>5
<1>6. Types'
  <2>1. WindowType' /\ HistoryType'
    BY DEF AInv, Types, WindowType, HistoryType
  <2>2. Own' \subseteq Units
    BY DEF Own, Known
  <2>3. NetType'
    BY <1>5, <2>2 DEF AInv, Types, NetType
  <2>4. ServerType'
    BY <1>1, <1>2, <1>3, <1>4 DEF ServerThen, ServerType
  <2> QED BY <2>1, <2>3, <2>4 DEF Types
<1>7. Answers'
  <2>1. \A r \in DOMAIN answer' : AnswerRight(asked[r], answer'[r], where'[r])
    BY <1>2, <1>3, <1>4 DEF AInv, Answers
  <2> QED BY <1>1, <1>3, <2>1 DEF Answers, ServerThen
<1>8. Buffers'
  <2>1. Known \subseteq Known'
    BY <1>2, KnownGrows
  <2>2. wbuf \in Seq(Known) /\ wbuf' = wbuf
    BY DEF AInv, Buffers
  <2>3. wbuf' \in Seq(Known')
    BY <2>1, <2>2
  <2>4. nbuf' \in Seq(Own') /\ nbuf' = <<>>
    BY <1>1
  <2>5. cpc' # "recv" => stream' = <<>>
    BY DEF UnitsOf
  <2> QED BY <1>3, <1>5, <2>3, <2>4, <2>5 DEF AInv, Buffers
<1>9. Unfinished' \subseteq Unfinished
  BY DEF Unfinished
<1>10. wpc # "idle" => HeldUp(filling, cur', cpc', answer')
  BY DEF AInv, RequestsMade, HeldUp
<1>11. RequestsMade' /\ ListMade'
  BY <1>2, <1>9, <1>10, NetLeaves
<1> QED BY <1>2, <1>6, <1>7, <1>8, <1>11 DEF AInv

LEMMA SendA ==
  ASSUME AInv, Send
  PROVE  AInv'
<1>1. /\ cpc = "connect" /\ RunCommand(asked[cur]) /\ sock' = "open" /\ cpc' = "recv"
      /\ \E n \in IF cur \in Faulty THEN 0..Len(answer'[cur]) ELSE {Len(answer'[cur])} :
            stream' = UnitsOf(cur, n)
      /\ UNCHANGED <<tree, sel, list, asked, wpc, wbuf, m_packet>>
      /\ UNCHANGED <<cur, nbuf, pack>>
      /\ UNCHANGED <<shown, read, clicked, loaded, spoilt, filling, mixed, stray>>
  BY DEF Send, windowVars, history
<1>2. /\ cur \in 1..Len(asked) /\ asked \in Seq(Asked) /\ asked[cur] \in Asked
      /\ answer \in Seq(Seq(Packets)) /\ Len(answer) + 1 = cur
  <2>1. asked \in Seq(Asked) /\ answer \in Seq(Seq(Packets))
    BY DEF AInv, Types, WindowType, ServerType
  <2>2. cur \in 1..Len(asked) /\ Len(answer) + 1 = cur
    BY <1>1, AnswerFacts DEF AInv, Answers
  <2> QED BY <2>1, <2>2
<1>3. PICK a, w : /\ answer' = Append(answer, a) /\ where' = Append(where, w)
                  /\ a \in Seq(Packets) /\ a # <<>> /\ AnswerRight(asked[cur], a, w)
  BY <1>1, <1>2, RunCommandFacts
<1>4. ServerThen
  BY <1>1, <1>2, RunCommandFacts
<1>5. answer'[cur] = a /\ Len(a) \in Nat
  BY <1>2, <1>3
<1>6. PICK n \in 0..Len(a) : stream' = UnitsOf(cur, n)
  BY <1>1, <1>5
<1> QED BY <1>1, <1>3, <1>4, <1>6, AnswerStep

(* No answer is right for any request. *)
LEMMA NoAnswerFacts ==
  ASSUME AInv, NEW r \in 1..Len(asked)
  PROVE  <<>> \in Seq(Packets) /\ AnswerRight(asked[r], <<>>, <<>>)
<1>1. <<>> \in Seq(Packets) /\ <<>> \in Seq(Entries \cup {End}) /\ IsInjective(<<>>)
  BY DEF IsInjective
<1>2. asked[r].cmd \in {"drives", "list", "delete"}
  <2>1. asked \in Seq(Asked)
    BY DEF AInv, Types, WindowType
  <2>2. asked[r] \in Asked
    BY <2>1
  <2> QED BY <2>2 DEF Asked
<1> QED BY <1>1, <1>2 DEF AnswerRight, AnswerTo

(* connect or send fails. *)
Fails == ConnectFails \/ SendFails

LEMMA FailsA ==
  ASSUME AInv, Fails
  PROVE  AInv'
<1>1. /\ cpc = "connect" /\ cpc' \in {"box", "told"} /\ sock' \in {sock, "none"}
      /\ answer' = Append(answer, <<>>) /\ where' = Append(where, <<>>)
      /\ UNCHANGED <<tree, sel, list, asked, wpc, wbuf, m_packet>>
      /\ UNCHANGED <<cur, nbuf, pack, stream, drive, cwd, gone>>
      /\ UNCHANGED <<shown, read, clicked, loaded, spoilt, filling, mixed, stray>>
  BY DEF Fails, ConnectFails, SendFails, NoAnswer, windowVars, history
<1>2. ServerThen
  BY <1>1, ServerNow DEF ServerThen
<1>3. cur \in 1..Len(asked)
  BY <1>1, AnswerFacts DEF AInv, Answers
<1>4. 0 \in 0..Len(<<>>)
  OBVIOUS
<1>5. <<>> \in Seq(Packets) /\ AnswerRight(asked[cur], <<>>, <<>>)
  BY <1>3, NoAnswerFacts
<1>6. stream' = UnitsOf(cur, 0)
  <2>1. stream' = <<>>
    BY <1>1 DEF AInv, Buffers
  <2>2. UnitsOf(cur, 0) = <<>>
    BY DEF UnitsOf
  <2> QED BY <2>1, <2>2
<1>7. sock' \in {"none", "made", "open"}
  BY <1>1 DEF AInv, Types, NetType
<1>8. UNCHANGED <<nbuf, pack>> /\ cur' = cur /\ cpc' \in {"box", "recv", "told"}
  BY <1>1
<1> QED BY <1>1, <1>2, <1>4, <1>5, <1>6, <1>7, <1>8, AnswerStep

(* The box takes a request. *)
LEMMA BoxTakesA ==
  ASSUME AInv, BoxTakes
  PROVE  /\ AInv' /\ LongerBy(answer, answer', 1) /\ answer'[cur'] = <<>>
         /\ cur' = cur + 1 /\ Len(answer) = cur
<1>1. /\ cpc = "box" /\ cur < Len(asked) /\ cur' = cur + 1 /\ cpc' = cpc
      /\ answer' = Append(answer, <<>>) /\ where' = Append(where, <<>>)
      /\ UNCHANGED <<tree, sel, list, asked, wpc, wbuf, m_packet>>
      /\ UNCHANGED <<nbuf, pack, sock, stream, drive, cwd, gone>>
      /\ UNCHANGED <<shown, read, clicked, loaded, spoilt, filling, mixed, stray>>
  BY DEF BoxTakes, NoAnswer, windowVars, history
<1>2. /\ answer \in Seq(Seq(Packets)) /\ Len(answer) = cur /\ Len(where) = cur /\ cur \in Nat
      /\ Len(asked) \in Nat /\ cur' \in 1..Len(asked) /\ nbuf = <<>> /\ stream = <<>>
  BY <1>1, AnswerFacts DEF AInv, Types, ServerType, Answers, Buffers
<1>3. <<>> \in Seq(Packets) /\ AnswerRight(asked[cur + 1], <<>>, <<>>)
  BY <1>1, <1>2, NoAnswerFacts
<1>4. answer' \in Seq(Seq(Packets)) /\ LongerBy(answer, answer', 1) /\ answer'[cur + 1] = <<>>
  BY <1>1, <1>2, <1>3, OneLonger
<1>5. /\ Len(answer') = cur + 1 /\ DOMAIN answer' = DOMAIN answer \cup {cur + 1}
      /\ \A r \in DOMAIN answer : answer'[r] = answer[r]
  BY <1>2, <1>4 DEF LongerBy
<1>6. /\ Len(where') = cur + 1 /\ where'[cur + 1] = <<>>
      /\ \A r \in DOMAIN answer : where'[r] = where[r]
  BY <1>1, <1>2
<1>7. Types'
  <2>1. WindowType' /\ HistoryType'
    BY <1>1 DEF AInv, Types, WindowType, HistoryType
  <2>2. NetType'
    BY <1>1, <1>2 DEF AInv, Types, NetType
  <2>3. ServerType'
    BY <1>1, <1>2, <1>4, <1>5, <1>6 DEF AInv, Types, ServerType
  <2> QED BY <2>1, <2>2, <2>3 DEF Types
<1>8. Answers'
  <2>1. \A r \in DOMAIN answer' : AnswerRight(asked[r], answer'[r], where'[r])
    BY <1>3, <1>4, <1>5, <1>6 DEF AInv, Answers
  <2> QED BY <1>1, <1>2, <1>5, <2>1 DEF AInv, Answers
<1>9. Buffers'
  <2>1. wbuf \in Seq(Known) /\ Known \subseteq Known'
    BY <1>4, KnownGrows DEF AInv, Buffers
  <2>2. wbuf' \in Seq(Known') /\ nbuf' \in Seq(Own') /\ stream' \in Seq(Own')
    BY <1>1, <1>2, <2>1
  <2> QED BY <1>1, <1>2, <1>5, <2>2 DEF AInv, Buffers
<1>10. Unfinished' \subseteq Unfinished
  BY <1>1, <1>2, AnswerFacts DEF Unfinished
<1>11. wpc # "idle" => HeldUp(filling, cur', cpc', answer')
  BY <1>1, <1>2, <1>4, AnswerFacts DEF AInv, RequestsMade, HeldUp
<1>12. RequestsMade' /\ ListMade'
  BY <1>1, <1>4, <1>10, <1>11, NetLeaves
<1>13. TreeOK(tree)'
  BY <1>1 DEF AInv
<1> QED BY <1>1, <1>2, <1>4, <1>7, <1>8, <1>9, <1>12, <1>13 DEF AInv

-----------------------------------------------------------------------------
(* Reading. *)

EndsAt(b, i) ==
    /\ i \in 2..Len(b) /\ b[i - 1].half = 1 /\ b[i] = OtherHalf(b[i - 1])
    /\ \A j \in 1..(i - 2) : b[j].half = 2

(* Where a packet ends both of its halves are there. *)
LEMMA PacketEndFacts ==
  ASSUME NEW b
  PROVE  /\ PacketEnd(b) # 0 => EndsAt(b, PacketEnd(b))
         /\ \A i : EndsAt(b, i) => PacketEnd(b) # 0 /\ PacketEnd(b) \in 2..Len(b)
<1> DEFINE ends == {i \in 2..Len(b) :
                       /\ b[i - 1].half = 1 /\ b[i] = OtherHalf(b[i - 1])
                       /\ \A j \in 1..(i - 2) : b[j].half = 2}
<1>1. PacketEnd(b) = IF ends = {} THEN 0 ELSE CHOOSE i \in ends : TRUE
  BY DEF PacketEnd
<1>2. \A i \in ends : EndsAt(b, i) /\ i # 0 /\ i \in 2..Len(b)
  BY DEF EndsAt
<1>3. \A i : EndsAt(b, i) => i \in ends
  BY DEF EndsAt
<1> HIDE DEF ends
<1> QED BY <1>1, <1>2, <1>3

LEMMA RestOf ==
  ASSUME NEW T, NEW b \in Seq(T), NEW i \in 0..Len(b)
  PROVE  SubSeq(b, i + 1, Len(b)) \in Seq(T) /\ SubSeq(b, 1, i) \in Seq(T)
OBVIOUS

(* A step of the network thread within a request that leaves the window as  *)
(* it is.                                                                   *)
LEMMA NetStep ==
  ASSUME AInv, cur' = cur, cpc \in {"recv", "show", "told", "box"},
         cpc \in {"told", "box"} => cpc' \in {"told", "get"},
         cpc' \in {"recv", "show", "told", "get"},
         nbuf' \in Seq(Own), stream' \in Seq(Own),
         cpc' \in {"told", "get"} => nbuf' = <<>> /\ stream' = <<>>,
         pack' \in Packets, cpc' = "show" => pack' \in ToSet(answer[cur]),
         sock' \in {"none", "made", "open"}, cpc' = "get" => wpc = "idle",
         UNCHANGED <<tree, sel, list, asked, wpc, wbuf, m_packet>>,
         UNCHANGED <<drive, cwd, gone, answer, where>>,
         UNCHANGED <<shown, read, clicked, loaded, spoilt, filling, mixed, stray>>
  PROVE  AInv'
<1>1. Types'
  <2>1. WindowType' /\ HistoryType' /\ ServerType'
    BY DEF AInv, Types, WindowType, HistoryType, ServerType
  <2>2. Own \subseteq Units
    BY DEF Own, Known
  <2>3. NetType'
    BY <2>2 DEF AInv, Types, NetType
  <2> QED BY <2>1, <2>3 DEF Types
<1>2. TreeOK(tree)' /\ Answers'
  BY DEF AInv, Answers
<1>3. Buffers'
  <2>1. Known' = Known /\ Own' = Own
    BY DEF Known, Own
  <2> QED BY <2>1 DEF AInv, Buffers
<1>4. Unfinished' \subseteq Unfinished
  BY DEF Unfinished
<1>5. wpc # "idle" => HeldUp(filling, cur', cpc', answer')
  BY DEF AInv, RequestsMade, HeldUp
<1>6. RequestsMade' /\ ListMade'
  <2>1. LongerBy(answer, answer', 0)
    BY SameAnswers
  <2> QED BY <1>4, <1>5, <2>1, NetLeaves
<1> QED BY <1>1, <1>2, <1>3, <1>6 DEF AInv

(* Parsing, by the network thread. *)
LEMMA ParseA ==
  ASSUME AInv, cpc = "recv", NEW b \in Seq(Own), Parse(b)
  PROVE  /\ nbuf' \in Seq(Own) /\ cpc' \in {"recv", "show"} /\ sock' = sock
         /\ pack' \in Packets /\ (cpc' = "show" => pack' \in ToSet(answer[cur]))
<1>1. CASE PacketEnd(b) # 0
  <2> DEFINE i == PacketEnd(b)
  <2>1. /\ pack' = answer[b[i].of][b[i].k] /\ nbuf' = SubSeq(b, i + 1, Len(b))
        /\ cpc' = "show" /\ sock' = sock
    BY <1>1 DEF Parse, Show
  <2>2. i \in 2..Len(b)
    BY <1>1, PacketEndFacts DEF EndsAt
  <2> HIDE DEF i
  <2>3. b[i] \in Own /\ i \in 0..Len(b)
    BY <2>2
  <2>4. nbuf' \in Seq(Own)
    BY <2>1, <2>3, RestOf
  <2>5. b[i].of = cur /\ cur \in DOMAIN answer /\ b[i].k \in DOMAIN answer[cur]
    BY <2>3 DEF Own, Known
  <2>6. pack' \in ToSet(answer[cur])
    BY <2>1, <2>5 DEF ToSet
  <2>7. pack' \in Packets
    <3>1. answer \in Seq(Seq(Packets))
      BY DEF AInv, Types, ServerType
    <3> QED BY <2>1, <2>5, <3>1
  <2> QED BY <2>1, <2>4, <2>6, <2>7
<1>2. CASE PacketEnd(b) = 0
  <2>1. nbuf' = b /\ pack' = pack /\ cpc' = "recv" /\ sock' = sock
    BY <1>2 DEF Parse
  <2> QED BY <2>1 DEF AInv, Types, NetType
<1> QED BY <1>1, <1>2

LEMMA RecvA ==
  ASSUME AInv, Recv
  PROVE  AInv'
<1>1. /\ cpc = "recv" /\ UNCHANGED <<tree, sel, list, asked, wpc, wbuf, m_packet>>
      /\ cur' = cur /\ UNCHANGED <<drive, cwd, gone, answer, where>>
      /\ UNCHANGED <<shown, read, clicked, loaded, spoilt, filling, mixed, stray>>
  BY DEF Recv, windowVars, serverVars, history
<1>2. PICK n \in 1..Len(stream) :
          /\ Parse(nbuf \o SubSeq(stream, 1, n))
          /\ stream' = SubSeq(stream, n + 1, Len(stream))
  BY DEF Recv
<1>3. stream \in Seq(Own) /\ nbuf \in Seq(Own)
  BY DEF AInv, Buffers
<1>4. SubSeq(stream, 1, n) \in Seq(Own) /\ stream' \in Seq(Own)
  <2>1. n \in 0..Len(stream)
    BY <1>3
  <2> QED BY <1>2, <1>3, <2>1, RestOf
<1>5. nbuf \o SubSeq(stream, 1, n) \in Seq(Own)
  BY <1>3, <1>4
<1>6. /\ nbuf' \in Seq(Own) /\ cpc' \in {"recv", "show"} /\ sock' = sock
      /\ pack' \in Packets /\ (cpc' = "show" => pack' \in ToSet(answer[cur]))
  BY <1>1, <1>2, <1>5, ParseA
<1>7. sock' \in {"none", "made", "open"}
  BY <1>6 DEF AInv, Types, NetType
<1>8. cpc = "recv" /\ cpc' \in {"recv", "show", "told", "get"}
      /\ (cpc' \in {"told", "get"} => nbuf' = <<>> /\ stream' = <<>>)
      /\ (cpc' = "get" => wpc = "idle")
  BY <1>1, <1>6
<1> QED BY <1>1, <1>4, <1>6, <1>7, <1>8, NetStep

LEMMA RecvEndA ==
  ASSUME AInv, RecvEnd
  PROVE  AInv'
<1>1. /\ cpc = "recv" /\ stream = <<>> /\ stream' = stream
      /\ UNCHANGED <<tree, sel, list, asked, wpc, wbuf, m_packet>>
      /\ cur' = cur /\ UNCHANGED <<drive, cwd, gone, answer, where>>
      /\ UNCHANGED <<shown, read, clicked, loaded, spoilt, filling, mixed, stray>>
      /\ IF nbuf = <<>> THEN cpc' = "told" /\ sock' = "none" /\ nbuf' = nbuf /\ pack' = pack
                        ELSE Parse(nbuf)
  BY DEF RecvEnd, windowVars, serverVars, history
<1>2. stream \in Seq(Own) /\ nbuf \in Seq(Own) /\ stream' \in Seq(Own)
  BY <1>1 DEF AInv, Buffers
<1>3. cpc \in {"recv", "show", "told", "box"} /\ cpc \notin {"told", "box"}
  BY <1>1
<1>4. CASE nbuf = <<>>
  <2>1. pack' \in Packets
    BY <1>1, <1>4 DEF AInv, Types, NetType
  <2> QED BY <1>1, <1>2, <1>3, <1>4, <2>1, NetStep
<1>5. CASE nbuf # <<>>
  <2>1. /\ nbuf' \in Seq(Own) /\ cpc' \in {"recv", "show"} /\ sock' = sock
        /\ pack' \in Packets /\ (cpc' = "show" => pack' \in ToSet(answer[cur]))
    BY <1>1, <1>2, <1>5, ParseA
  <2>2. sock' \in {"none", "made", "open"}
    BY <2>1 DEF AInv, Types, NetType
  <2>3. cpc' \in {"recv", "show", "told", "get"}
        /\ (cpc' \in {"told", "get"} => nbuf' = <<>> /\ stream' = <<>>)
        /\ (cpc' = "get" => wpc = "idle")
    BY <2>1
  <2> QED BY <1>1, <1>2, <1>3, <2>1, <2>2, <2>3, NetStep
<1> QED BY <1>4, <1>5

LEMMA OnSocketClosedA ==
  ASSUME AInv, OnSocketClosed
  PROVE  AInv'
<1>1. /\ wpc = "idle" /\ cpc = "told" /\ cpc' = "get"
      /\ UNCHANGED <<tree, sel, list, asked, wpc, wbuf, m_packet>>
      /\ UNCHANGED <<cur, nbuf, pack, sock, stream>>
      /\ UNCHANGED <<drive, cwd, gone, answer, where>>
      /\ UNCHANGED <<shown, read, clicked, loaded, spoilt, filling, mixed, stray>>
  BY DEF OnSocketClosed, windowVars, serverVars, history
<1>2. /\ stream = <<>> /\ nbuf = <<>> /\ nbuf' \in Seq(Own) /\ stream' \in Seq(Own)
  BY <1>1 DEF AInv, Buffers
<1>3. pack' \in Packets /\ sock' \in {"none", "made", "open"}
  BY <1>1 DEF AInv, Types, NetType
<1> QED BY <1>1, <1>2, <1>3, NetStep

(* The user closes the box. *)
LEMMA CloseBoxA ==
  ASSUME AInv, CloseBox
  PROVE  AInv'
<1>1. /\ cpc = "box" /\ cpc' = "told"
      /\ UNCHANGED <<tree, sel, list, asked, wpc, wbuf, m_packet>>
      /\ UNCHANGED <<cur, nbuf, pack, sock, stream>>
      /\ UNCHANGED <<drive, cwd, gone, answer, where>>
      /\ UNCHANGED <<shown, read, clicked, loaded, spoilt, filling, mixed, stray>>
  BY DEF CloseBox, windowVars, serverVars, history
<1>2. /\ stream = <<>> /\ nbuf = <<>> /\ nbuf' \in Seq(Own) /\ stream' \in Seq(Own)
  BY <1>1 DEF AInv, Buffers
<1>3. pack' \in Packets /\ sock' \in {"none", "made", "open"}
  BY <1>1 DEF AInv, Types, NetType
<1> QED BY <1>1, <1>2, <1>3, NetStep

-----------------------------------------------------------------------------
(* The window's thread in LoadFileCurrent. *)

PacketKnown(m) == m.of # 0 => m.of \in DOMAIN answer /\ m.pkt \in ToSet(answer[m.of])

(* What the window's thread may do to m_packet and its own buffer. *)
LEMMA WindowStep ==
  ASSUME AInv, wpc # "idle", wpc' \in {"idle", "test", "recv"},
         list' \in Seq([of : 0..MaxRequests, name : Text]),
         \A i \in DOMAIN list' : EntryOK(list'[i], asked, answer),
         wbuf' \in Seq(Known), stream' \in Seq(Own), stream = <<>> => stream' = <<>>,
         m_packet' \in [of : 0..MaxRequests, pkt : Entries \cup {End}] \cup Garbage \cup {Unread},
         PacketKnown(m_packet'), read' \in [Requests -> Nat],
         UNCHANGED <<tree, sel, asked>>, UNCHANGED <<cur, cpc, nbuf, pack, sock>>,
         UNCHANGED <<drive, cwd, gone, answer, where>>,
         UNCHANGED <<shown, clicked, loaded, spoilt, filling, mixed, stray>>
  PROVE  AInv'
<1>1. Types'
  <2>1. HistoryType' /\ ServerType'
    BY DEF AInv, Types, HistoryType, ServerType
  <2>2. Own \subseteq Units /\ Known \subseteq Units
    BY DEF Own, Known
  <2>3. stream' \in Seq(Units) /\ wbuf' \in Seq(Units)
    BY <2>2
  <2>4. NetType' /\ WindowType'
    BY <2>3, Zenon DEF AInv, Types, NetType, WindowType
  <2> QED BY <2>1, <2>4 DEF Types
<1>2. TreeOK(tree)' /\ Answers'
  BY DEF AInv, Answers
<1>3. Buffers'
  <2>1. Known' = Known /\ Own' = Own
    BY DEF Known, Own
  <2> QED BY <2>1 DEF AInv, Buffers, PacketKnown
<1>4. filling # 0 /\ ~Unmixed
  BY AnswerFacts DEF AInv, RequestsMade, HeldUp, Answers, Unmixed
<1>5. RequestsMade'
  BY <1>4 DEF AInv, RequestsMade
<1>6. ListMade'
  <2>1. ~Unmixed'
    BY <1>4 DEF Unmixed
  <2>2. GetPath(sel)' = GetPath(sel)
    BY TreeIs, TreeIsThen
  <2> QED BY <2>1, <2>2 DEF AInv, ListMade
<1> QED BY <1>1, <1>2, <1>3, <1>5, <1>6 DEF AInv

(* The kinds of packets tell them apart. *)
LEMMA KindsApart ==
  /\ \A p \in Entries : p.kind \in {"dir", "file", "dots"} /\ p.name \in Name
  /\ End.kind = "end" /\ DriveList.kind = "drives" /\ Deleted.kind = "deleted"
  /\ \A p \in Packets : p.kind \notin {"drives", "deleted"} => p \in Entries \cup {End}
BY DEF Entries, End, DriveList, Deleted, Packets

(* InsertItem(0, ...) puts a file before the others. *)
LEMMA PutFirst ==
  ASSUME NEW T, NEW x \in T, NEW s \in Seq(T)
  PROVE  /\ <<x>> \o s \in Seq(T) /\ Len(<<x>> \o s) = Len(s) + 1 /\ (<<x>> \o s)[1] = x
         /\ \A i \in 1..Len(s) : (<<x>> \o s)[i + 1] = s[i]
         /\ \A i \in DOMAIN (<<x>> \o s) :
               i = 1 \/ (i - 1 \in DOMAIN s /\ (<<x>> \o s)[i] = s[i - 1])
<1>1. <<x>> \in Seq(T) /\ Len(<<x>>) = 1 /\ <<x>>[1] = x /\ Len(s) \in Nat /\ DOMAIN s = 1..Len(s)
  OBVIOUS
<1> DEFINE b == <<x>>
<1>2. b \in Seq(T) /\ Len(b) = 1 /\ b[1] = x
  BY <1>1
<1> HIDE DEF b
<1> DEFINE c == b \o s
<1>3. /\ c \in Seq(T) /\ Len(c) = Len(b) + Len(s)
      /\ \A i \in 1..(Len(b) + Len(s)) : c[i] = IF i <= Len(b) THEN b[i] ELSE s[i - Len(b)]
  BY <1>1, <1>2, ConcatProperties
<1> HIDE DEF c
<1>4. Len(c) = Len(s) + 1 /\ DOMAIN c = 1..(Len(s) + 1)
      /\ \A i \in 1..(Len(s) + 1) : c[i] = IF i <= 1 THEN b[i] ELSE s[i - 1]
  BY <1>1, <1>2, <1>3
<1>5. c[1] = x
  BY <1>1, <1>2, <1>4
<1>6. \A i \in 1..Len(s) : c[i + 1] = s[i]
  <2> TAKE i \in 1..Len(s)
  <2>1. i + 1 \in 1..(Len(s) + 1) /\ ~(i + 1 <= 1) /\ (i + 1) - 1 = i
    BY <1>1
  <2> QED BY <1>4, <2>1
<1>7. \A i \in DOMAIN c : i = 1 \/ (i - 1 \in DOMAIN s /\ c[i] = s[i - 1])
  <2> SUFFICES ASSUME NEW i \in DOMAIN c, i # 1 PROVE i - 1 \in DOMAIN s /\ c[i] = s[i - 1]
    OBVIOUS
  <2>1. i \in 1..(Len(s) + 1) /\ ~(i <= 1) /\ i - 1 \in 1..Len(s)
    BY <1>1, <1>4
  <2> QED BY <1>1, <1>4, <2>1
<1>8. c \in Seq(T) /\ Len(c) = Len(s) + 1
  BY <1>3, <1>4
<1> QED BY <1>5, <1>6, <1>7, <1>8, Zenon DEF b, c

(* What m_packet may be makes an entry that may be in the list. *)
LEMMA PacketEntry ==
  ASSUME AInv, NEW m \in [of : 0..MaxRequests, pkt : Entries \cup {End}] \cup Garbage \cup {Unread},
         PacketKnown(m), m.pkt.kind = "file"
  PROVE  /\ [of |-> m.of, name |-> m.pkt.name] \in [of : 0..MaxRequests, name : Text]
         /\ EntryOK([of |-> m.of, name |-> m.pkt.name], asked, answer)
<1>1. m # Unread
  BY DEF Unread
<1>2. CASE m \in Garbage
  <2>1. m.of = 0 /\ m.pkt.name = "?"
    BY <1>2, KindsApart DEF Garbage
  <2> QED BY <2>1, Bounds DEF Text, EntryOK
<1>3. CASE m \in [of : 0..MaxRequests, pkt : Entries \cup {End}]
  <2>1. m.pkt \in Entries /\ m.of \in 0..MaxRequests
    BY <1>3, KindsApart
  <2>2. m.pkt.name \in Name
    BY <2>1, KindsApart
  <2>3. ASSUME m.of # 0
        PROVE  m.of \in DOMAIN answer /\ answer[m.of] # <<>> /\ asked[m.of].cmd = "list"
    <3>1. m.of \in DOMAIN answer /\ m.pkt \in ToSet(answer[m.of])
      BY <2>3 DEF PacketKnown
    <3>2. AnswerTo(asked[m.of], answer[m.of])
      BY <3>1 DEF AInv, Answers, AnswerRight
    <3>3. asked[m.of].cmd \in {"drives", "list", "delete"}
      <4>1. asked \in Seq(Asked) /\ m.of \in DOMAIN asked
        BY <3>1, AnswerFacts DEF AInv, Types, WindowType
      <4>2. asked[m.of] \in Asked
        BY <4>1
      <4> QED BY <4>2 DEF Asked
    <3>4. PICK i \in DOMAIN answer[m.of] : answer[m.of][i] = m.pkt
      BY <3>1 DEF ToSet
    <3>5. answer[m.of] # <<>>
      BY <3>4
    <3>6. answer[m.of] # <<DriveList>> /\ answer[m.of] # <<Deleted>>
      BY <3>4, KindsApart
    <3> QED BY <3>1, <3>2, <3>3, <3>5, <3>6 DEF AnswerTo
  <2> QED BY <2>1, <2>2, <2>3 DEF EntryOK, Text
<1> QED BY <1>1, <1>2, <1>3

LEMMA LoopTestA ==
  ASSUME AInv, LoopTest
  PROVE  AInv'
<1> DEFINE e == [of |-> m_packet'.of, name |-> m_packet'.pkt.name]
           T == [of : 0..MaxRequests, name : Text]
<1>1. /\ wpc = "test" /\ m_packet' \in IF m_packet = Unread THEN Garbage ELSE {m_packet}
      /\ list' = IF m_packet'.pkt.kind = "file" THEN <<e>> \o list ELSE list
      /\ wpc' \in {"idle", "recv"}
      /\ UNCHANGED <<tree, sel, asked>> /\ wbuf' = wbuf
      /\ UNCHANGED <<cur, cpc, nbuf, pack, sock>> /\ stream' = stream
      /\ UNCHANGED <<drive, cwd, gone, answer, where>>
      /\ UNCHANGED <<shown, clicked, loaded, spoilt, filling, mixed, stray>> /\ read' = read
  BY DEF LoopTest, netVars, serverVars, history
<1>2. m_packet \in [of : 0..MaxRequests, pkt : Entries \cup {End}] \cup Garbage \cup {Unread}
      /\ list \in Seq(T)
  BY DEF AInv, Types, WindowType
<1>3. m_packet' \in [of : 0..MaxRequests, pkt : Entries \cup {End}] \cup Garbage \cup {Unread}
  BY <1>1, <1>2
<1>4. PacketKnown(m_packet')
  <2>1. PacketKnown(m_packet)
    BY DEF AInv, Buffers, PacketKnown
  <2>2. \A m \in Garbage : m.of = 0
    BY DEF Garbage
  <2> QED BY <1>1, <2>1, <2>2 DEF PacketKnown
<1>5. m_packet'.pkt.kind = "file" => e \in T /\ EntryOK(e, asked, answer)
  BY <1>3, <1>4, PacketEntry
<1>6. \A i \in DOMAIN list : EntryOK(list[i], asked, answer)
  BY DEF AInv, ListMade
<1> HIDE DEF e, T
<1>7. list' \in Seq(T) /\ \A i \in DOMAIN list' : EntryOK(list'[i], asked, answer)
  <2>1. CASE m_packet'.pkt.kind = "file"
    <3>1. list' = <<e>> \o list /\ e \in T /\ EntryOK(e, asked, answer)
      BY <1>1, <1>5, <2>1
    <3>2. /\ list' \in Seq(T) /\ list'[1] = e
          /\ \A i \in DOMAIN list' : i = 1 \/ (i - 1 \in DOMAIN list /\ list'[i] = list[i - 1])
      BY <1>2, <3>1, PutFirst
    <3> QED BY <1>6, <3>1, <3>2
  <2>2. CASE m_packet'.pkt.kind # "file"
    BY <1>1, <1>2, <1>6, <2>2
  <2> QED BY <2>1, <2>2
<1>8. wpc # "idle" /\ wpc' \in {"idle", "test", "recv"} /\ stream = <<>> => stream' = <<>>
  BY <1>1
<1>9. wbuf' \in Seq(Known) /\ stream' \in Seq(Own)
  BY <1>1 DEF AInv, Buffers
<1>10. read' \in [Requests -> Nat]
  BY <1>1 DEF AInv, Types, HistoryType
<1> QED BY <1>1, <1>3, <1>4, <1>7, <1>8, <1>9, <1>10, WindowStep DEF T

(* The same for what DealCommand parses. *)
LEMMA ParseMineA ==
  ASSUME AInv, wpc = "recv", NEW b \in Seq(Known), ParseMine(b)
  PROVE  /\ wpc' \in {"test", "recv"} /\ wbuf' \in Seq(Known) /\ read' \in [Requests -> Nat]
         /\ m_packet' \in [of : 0..MaxRequests, pkt : Entries \cup {End}] \cup Garbage \cup {Unread}
         /\ PacketKnown(m_packet')
<1>1. m_packet \in [of : 0..MaxRequests, pkt : Entries \cup {End}] \cup Garbage \cup {Unread}
      /\ read \in [Requests -> Nat] /\ PacketKnown(m_packet)
  BY DEF AInv, Types, WindowType, HistoryType, Buffers, PacketKnown
<1>2. CASE PacketEnd(b) # 0
  <2> DEFINE i == PacketEnd(b)
             p == answer[b[i].of][b[i].k]
  <2>1. /\ m_packet' = CASE p.kind = "drives"  -> DrivesOver(m_packet)
                          [] p.kind = "deleted" -> m_packet
                          [] OTHER              -> [of |-> b[i].of, pkt |-> p]
        /\ read' = [read EXCEPT ![b[i].of] = @ + 1]
        /\ wbuf' = SubSeq(b, i + 1, Len(b)) /\ wpc' = "test"
    BY <1>2 DEF ParseMine, Assign
  <2>2. i \in 2..Len(b)
    BY <1>2, PacketEndFacts DEF EndsAt
  <2> HIDE DEF i
  <2>3. b[i] \in Known /\ i \in 0..Len(b)
    BY <2>2
  <2>4. wbuf' \in Seq(Known)
    BY <2>1, <2>3, RestOf
  <2>5. b[i].of \in DOMAIN answer /\ b[i].k \in DOMAIN answer[b[i].of]
    BY <2>3 DEF Known
  <2>6. p \in ToSet(answer[b[i].of])
    BY <2>5 DEF ToSet
  <2>7. p \in Packets
    <3>1. answer \in Seq(Seq(Packets))
      BY DEF AInv, Types, ServerType
    <3>2. answer[b[i].of] \in Seq(Packets)
      BY <2>5, <3>1
    <3> QED BY <2>5, <3>2
  <2>8. b[i].of \in Requests
    BY <2>5, AnswerFacts
  <2>9. read' \in [Requests -> Nat]
    BY <1>1, <2>1, <2>8
  <2> HIDE DEF p
  <2>10. p.kind \notin {"drives", "deleted"} => p \in Entries \cup {End}
    BY <2>7, KindsApart
  <2>11. b[i].of \in 0..MaxRequests
    BY <2>8, Bounds
  <2>12. CASE p.kind \in {"drives", "deleted"}
    <3>1. m_packet' \in {m_packet, DrivesOver(m_packet)}
      BY <2>1, <2>12
    <3>2. DrivesOver(m_packet) \in {m_packet} \cup Garbage
      BY DEF DrivesOver, Garbage
    <3>3. \A g \in Garbage : g.of = 0
      BY DEF Garbage
    <3> QED BY <1>1, <2>1, <2>4, <2>9, <3>1, <3>2, <3>3 DEF PacketKnown
  <2>13. CASE p.kind \notin {"drives", "deleted"}
    <3>1. m_packet' = [of |-> b[i].of, pkt |-> p] /\ p \in Entries \cup {End}
      BY <2>1, <2>10, <2>13
    <3>2. m_packet' \in [of : 0..MaxRequests, pkt : Entries \cup {End}]
      BY <2>11, <3>1
    <3>3. PacketKnown(m_packet')
      BY <2>5, <2>6, <3>1 DEF PacketKnown
    <3> QED BY <2>1, <2>4, <2>9, <3>2, <3>3
  <2> QED BY <2>12, <2>13
<1>3. CASE PacketEnd(b) = 0
  <2>1. wbuf' = b /\ m_packet' = m_packet /\ read' = read /\ wpc' = wpc
    BY <1>3 DEF ParseMine
  <2> QED BY <1>1, <2>1
<1> QED BY <1>2, <1>3

(* What DealCommand does, with b the buffer in which it looks for a packet. *)
LEMMA DealCommandCases ==
  ASSUME AInv, DealCommand
  PROVE  /\ wpc = "recv" /\ stream' \in Seq(Own) /\ (stream = <<>> => stream' = <<>>)
         /\ BreakLoop \/ \E b \in Seq(Known) : ParseMine(b)
<1>1. wpc = "recv"
  BY DEF DealCommand
<1>2. stream \in Seq(Own) /\ wbuf \in Seq(Known) /\ Own \subseteq Known
  BY DEF AInv, Buffers, Own
<1>3. CASE \E n \in 1..Len(stream) :
              /\ ParseMine(wbuf \o SubSeq(stream, 1, n))
              /\ stream' = SubSeq(stream, n + 1, Len(stream))
  <2>1. PICK n \in 1..Len(stream) :
              /\ ParseMine(wbuf \o SubSeq(stream, 1, n))
              /\ stream' = SubSeq(stream, n + 1, Len(stream))
    BY <1>3
  <2>2. n \in 0..Len(stream) /\ stream # <<>>
    BY <1>2
  <2>3. SubSeq(stream, 1, n) \in Seq(Own) /\ stream' \in Seq(Own)
    BY <1>2, <2>1, <2>2, RestOf
  <2>4. SubSeq(stream, 1, n) \in Seq(Known)
    BY <1>2, <2>3
  <2>5. wbuf \o SubSeq(stream, 1, n) \in Seq(Known)
    BY <1>2, <2>4
  <2> QED BY <1>1, <2>1, <2>2, <2>3, <2>5
<1>4. CASE stream' = stream /\ IF wbuf = <<>> THEN BreakLoop ELSE ParseMine(wbuf)
  BY <1>1, <1>2, <1>4
<1>5. CASE stream' = stream /\ IF wbuf = <<>> THEN BreakLoop ELSE ParseMine(Front(wbuf))
  <2>1. wbuf # <<>> => Front(wbuf) \in Seq(Known)
    <3>1. wbuf # <<>> => Len(wbuf) - 1 \in 0..Len(wbuf)
      BY <1>2
    <3> QED BY <1>2, <3>1, RestOf DEF Front
  <2> QED BY <1>1, <1>2, <1>5, <2>1
<1> QED BY <1>3, <1>4, <1>5 DEF DealCommand

LEMMA DealCommandA ==
  ASSUME AInv, DealCommand
  PROVE  AInv'
<1>1. /\ UNCHANGED <<tree, sel, asked>> /\ list' = list
      /\ UNCHANGED <<cur, cpc, nbuf, pack, sock>>
      /\ UNCHANGED <<drive, cwd, gone, answer, where>>
      /\ UNCHANGED <<shown, clicked, loaded, spoilt, filling, mixed, stray>>
  BY DEF DealCommand, serverVars
<1>2. wpc = "recv" /\ stream' \in Seq(Own) /\ (stream = <<>> => stream' = <<>>)
  BY DealCommandCases
<1>3. list' \in Seq([of : 0..MaxRequests, name : Text])
      /\ \A i \in DOMAIN list' : EntryOK(list'[i], asked, answer)
  BY <1>1 DEF AInv, Types, WindowType, ListMade
<1>4. /\ wpc' \in {"idle", "test", "recv"} /\ wbuf' \in Seq(Known) /\ read' \in [Requests -> Nat]
      /\ m_packet' \in [of : 0..MaxRequests, pkt : Entries \cup {End}] \cup Garbage \cup {Unread}
      /\ PacketKnown(m_packet')
  <2>1. CASE BreakLoop
    <3>1. wpc' = "idle" /\ wbuf' = wbuf /\ m_packet' = m_packet /\ read' = read
      BY <2>1 DEF BreakLoop
    <3>2. /\ m_packet \in [of : 0..MaxRequests, pkt : Entries \cup {End}] \cup Garbage \cup {Unread}
          /\ read \in [Requests -> Nat] /\ PacketKnown(m_packet) /\ wbuf \in Seq(Known)
      BY DEF AInv, Types, WindowType, HistoryType, Buffers, PacketKnown
    <3> QED BY <3>1, <3>2
  <2>2. CASE \E b \in Seq(Known) : ParseMine(b)
    BY <1>2, <2>2, ParseMineA
  <2> QED BY <2>1, <2>2, DealCommandCases
<1>5. wpc # "idle"
  BY <1>2
<1> QED BY <1>1, <1>2, <1>3, <1>4, <1>5, WindowStep

-----------------------------------------------------------------------------
(* What the network thread gives the window. *)

(* New items are free ones, all different. *)
LEMMA NewItemsFacts ==
  ASSUME NEW n \in Nat, NEW used, NEW s \in NewItems(n, used)
  PROVE  /\ s \in [1..n -> Items \ used] /\ ToSet(s) \subseteq Items \ used
         /\ \A i, j \in 1..n : s[i] = s[j] => i = j
         /\ ToSet(s) = {s[i] : i \in 1..n}
<1>1. s \in [1..n -> Items \ used] /\ \A i \in 1..n : s[i] \notin {s[j] : j \in 1..(i - 1)}
  BY DEF NewItems
<1>2. ASSUME NEW i \in 1..n, NEW j \in 1..n, i < j PROVE s[i] # s[j]
  <2>1. i \in 1..(j - 1)
    BY <1>2
  <2> QED BY <1>1, <2>1
<1>3. ASSUME NEW i \in 1..n, NEW j \in 1..n, s[i] = s[j] PROVE i = j
  BY <1>2, <1>3
<1>4. ToSet(s) = {s[i] : i \in 1..n}
  BY <1>1 DEF ToSet
<1> QED BY <1>1, <1>3, <1>4

LEMMA SameEnd ==
  ASSUME NEW m \in Nat, NEW n \in Nat, 1..m = 1..n
  PROVE  m = n
<1>1. CASE m < n
  <2>1. n \in 1..n /\ n \notin 1..m
    BY <1>1
  <2> QED BY <2>1
<1>2. CASE n < m
  <2>1. m \in 1..m /\ m \notin 1..n
    BY <1>2
  <2> QED BY <2>1
<1> QED BY <1>1, <1>2

LEMMA ItemFacts ==
  \A text, up : Item(text, up).text = text /\ Item(text, up).up = up
BY DEF Item

LEMMA ItemType ==
  ASSUME NEW T, NEW U, NEW text \in T, NEW up \in U
  PROVE  Item(text, up) \in [text : T, up : U]
BY DEF Item

NewHistory(hs) ==
    /\ loaded' = [h \in Items |-> IF h \in hs THEN 0 ELSE loaded[h]]
    /\ spoilt' = (spoilt \ hs) \cup (hs \cap Awaited)

(* Inserting a folder, or something without text at the root.               *)
LEMMA InsertFolderFacts ==
  ASSUME TreeOK(tree), NEW name \in Text, NEW hParent, InsertFolder(name, hParent)
  PROVE  /\ TreeOK(tree') /\ DOMAIN tree \subseteq DOMAIN tree'
         /\ \A k \in DOMAIN tree : tree'[k] = tree[k] /\ PathIn(tree', k) = PathIn(tree, k)
         /\ NewHistory(DOMAIN tree' \ DOMAIN tree)
         /\ hParent \in DOMAIN tree \cup {0} =>
               \E x, y : /\ x # y /\ DOMAIN tree' \ DOMAIN tree = {x, y}
                         /\ tree'[x] = Item(name, hParent) /\ tree'[y] = Item(NoName, x)
         /\ hParent \notin DOMAIN tree \cup {0} =>
               \A x \in DOMAIN tree' \ DOMAIN tree : tree'[x].up = 0
<1> DEFINE n == IF hParent \in DOMAIN tree \cup {0} THEN 2 ELSE 1
<1>1. n \in Nat
  OBVIOUS
<1>2. PICK hs \in NewItems(n, DOMAIN tree) :
        /\ tree' = [h \in DOMAIN tree \cup ToSet(hs) |->
                       IF h \in DOMAIN tree THEN tree[h]
                       ELSE IF Len(hs) = 1 THEN Item(NoName, 0)
                       ELSE IF h = hs[1] THEN Item(name, hParent) ELSE Item(NoName, hs[1])]
        /\ Inserted(ToSet(hs))
  BY DEF InsertFolder
<1>3. /\ hs \in [1..n -> Items \ DOMAIN tree] /\ ToSet(hs) \subseteq Items \ DOMAIN tree
      /\ \A i, j \in 1..n : hs[i] = hs[j] => i = j
      /\ ToSet(hs) = {hs[i] : i \in 1..n}
  <2> HIDE DEF n
  <2> QED BY <1>1, <1>2, NewItemsFacts
<1>4. Len(hs) = n
  <2> HIDE DEF n
  <2>1. hs \in Seq(Items \ DOMAIN tree)
    BY <1>1, <1>3
  <2>2. DOMAIN hs = 1..Len(hs) /\ DOMAIN hs = 1..n /\ Len(hs) \in Nat
    BY <1>3, <2>1, LenProperties
  <2> QED BY <1>1, <2>2, SameEnd
<1>5. /\ DOMAIN tree' = DOMAIN tree \cup ToSet(hs) /\ DOMAIN tree' \ DOMAIN tree = ToSet(hs)
      /\ \A k \in DOMAIN tree : tree'[k] = tree[k]
  BY <1>2, <1>3
<1>6. NewHistory(DOMAIN tree' \ DOMAIN tree)
  BY <1>2, <1>5 DEF Inserted, NewHistory
<1>7. /\ DOMAIN tree \subseteq Items /\ 0 \notin Items
      /\ \A h \in DOMAIN tree : tree[h] \in [text : Text, up : (DOMAIN tree \cup {0}) \ {h}]
  BY Bounds DEF TreeOK, TreeType
<1>8. NoName \in Text
  BY DEF Text
<1>9. tree' = [k \in DOMAIN tree' |-> tree'[k]]
  BY <1>2, <1>5
<1>10. CASE hParent \in DOMAIN tree \cup {0}
  <2>1. hs[1] # hs[2] /\ ToSet(hs) = {hs[1], hs[2]} /\ hs[1] \in Items /\ hs[2] \in Items
        /\ hs[1] \notin DOMAIN tree /\ hs[2] \notin DOMAIN tree
    <3>1. n = 2 /\ 1..2 = {1, 2}
      BY <1>10
    <3> HIDE DEF n
    <3> QED BY <1>3, <3>1
  <2>2. Len(hs) # 1
    BY <1>4, <1>10
  <2> HIDE DEF n
  <2>3. tree'[hs[1]] = Item(name, hParent) /\ tree'[hs[2]] = Item(NoName, hs[1])
    BY <1>2, <1>5, <2>1, <2>2
  <2>4. tree'[hs[1]] \in [text : Text, up : (DOMAIN tree' \cup {0}) \ {hs[1]}]
        /\ tree'[hs[2]] \in [text : Text, up : (DOMAIN tree' \cup {0}) \ {hs[2]}]
    BY <1>5, <1>7, <1>8, <1>10, <2>1, <2>3 DEF Item
  <2>5. \A k \in DOMAIN tree' : tree'[k] \in [text : Text, up : (DOMAIN tree' \cup {0}) \ {k}]
    BY <1>5, <1>7, <2>1, <2>4
  <2>6. TreeType(tree')
    BY <1>5, <1>7, <1>9, <2>1, <2>5 DEF TreeType
  <2>7. \A k \in DOMAIN tree' \ DOMAIN tree :
           tree'[k].up \in DOMAIN tree \cup {0} \/ tree'[tree'[k].up].up \in DOMAIN tree \cup {0}
    <3>1. tree'[hs[1]].up = hParent /\ tree'[hs[2]].up = hs[1]
      BY <2>3 DEF Item
    <3> QED BY <1>5, <1>10, <2>1, <3>1
  <2>8. TreeOK(tree') /\ \A k \in DOMAIN tree : k # 0 => PathIn(tree', k) = PathIn(tree, k)
    <3>1. DOMAIN tree \subseteq DOMAIN tree'
      BY <1>5
    <3> QED BY <1>5, <2>6, <2>7, <3>1, ExtendTree
  <2> QED BY <1>5, <1>6, <1>7, <1>10, <2>1, <2>3, <2>8
<1>11. CASE hParent \notin DOMAIN tree \cup {0}
  <2>1. ToSet(hs) = {hs[1]} /\ hs[1] \in Items /\ hs[1] \notin DOMAIN tree
    <3>1. n = 1 /\ 1..1 = {1}
      BY <1>11
    <3> HIDE DEF n
    <3> QED BY <1>3, <3>1
  <2>2. Len(hs) = 1
    BY <1>4, <1>11
  <2> HIDE DEF n
  <2>3. tree'[hs[1]] = Item(NoName, 0)
    BY <1>2, <1>5, <2>1, <2>2
  <2>4. tree'[hs[1]] \in [text : Text, up : (DOMAIN tree' \cup {0}) \ {hs[1]}]
        /\ tree'[hs[1]].up = 0
    BY <1>5, <1>7, <1>8, <2>1, <2>3 DEF Item
  <2>5. \A k \in DOMAIN tree' : tree'[k] \in [text : Text, up : (DOMAIN tree' \cup {0}) \ {k}]
    BY <1>5, <1>7, <2>1, <2>4
  <2>6. TreeType(tree')
    BY <1>5, <1>7, <1>9, <2>1, <2>5 DEF TreeType
  <2>7. \A k \in DOMAIN tree' \ DOMAIN tree :
           tree'[k].up \in DOMAIN tree \cup {0} \/ tree'[tree'[k].up].up \in DOMAIN tree \cup {0}
    BY <1>5, <2>1, <2>4
  <2>8. TreeOK(tree') /\ \A k \in DOMAIN tree : k # 0 => PathIn(tree', k) = PathIn(tree, k)
    <3>1. DOMAIN tree \subseteq DOMAIN tree'
      BY <1>5
    <3> QED BY <1>5, <2>6, <2>7, <3>1, ExtendTree
  <2> QED BY <1>5, <1>6, <1>7, <1>11, <2>1, <2>4, <2>8
<1> QED BY <1>10, <1>11

(* All items are new: at the root the drives, each with one item under it.  *)
LEMMA Str2TreeFacts ==
  ASSUME Str2Tree
  PROVE  /\ TreeOK(tree') /\ NewHistory(DOMAIN tree') /\ Gone(DOMAIN tree)
         /\ sel' = 0 /\ list' = list
         /\ \A h \in DOMAIN tree' : tree'[h].up = 0 =>
               \E i \in 1..Len(Drives) : tree'[h].text = Drives[i]
         /\ \A h, k \in DOMAIN tree' :
               tree'[h].up = 0 /\ tree'[k].up = 0 /\ tree'[h].text = tree'[k].text => h = k
<1> DEFINE n == 2 * Len(Drives)
           m == Len(Drives)
<1>1. n \in Nat /\ m \in Nat /\ n = 2 * m
  BY DrivesFacts
<1>2. PICK hs \in NewItems(n, {}) :
        /\ tree' = [h \in ToSet(hs) |->
                       LET i == CHOOSE i \in DOMAIN hs : hs[i] = h
                       IN IF i % 2 = 1 THEN Item(Drives[(i + 1) \div 2], 0)
                                       ELSE Item(NoName, hs[i - 1])]
        /\ Inserted(ToSet(hs)) /\ Gone(DOMAIN tree) /\ sel' = 0 /\ UNCHANGED list
  BY DEF Str2Tree
<1>3. /\ hs \in [1..n -> Items] /\ ToSet(hs) \subseteq Items
      /\ \A i, j \in 1..n : hs[i] = hs[j] => i = j
      /\ ToSet(hs) = {hs[i] : i \in 1..n}
  <2> HIDE DEF n
  <2> QED BY <1>1, <1>2, NewItemsFacts
<1> HIDE DEF n, m
<1>4. DOMAIN tree' = ToSet(hs)
  BY <1>2
<1>5. ASSUME NEW i \in 1..n
      PROVE  tree'[hs[i]] = IF i % 2 = 1 THEN Item(Drives[(i + 1) \div 2], 0)
                                         ELSE Item(NoName, hs[i - 1])
  <2>1. (CHOOSE j \in DOMAIN hs : hs[j] = hs[i]) = i
    BY <1>3
  <2> QED BY <1>2, <1>3, <2>1
<1>6. ASSUME NEW i \in 1..n, i % 2 = 1
      PROVE  /\ (i + 1) \div 2 \in 1..m /\ Drives[(i + 1) \div 2] \in Name
             /\ tree'[hs[i]].text = Drives[(i + 1) \div 2] /\ tree'[hs[i]].up = 0
             /\ tree'[hs[i]] = Item(Drives[(i + 1) \div 2], 0)
  <2>1. (i + 1) \div 2 \in 1..m
    BY <1>1
  <2>2. Drives[(i + 1) \div 2] \in Name
    BY <2>1, DrivesFacts DEF m
  <2>3. tree'[hs[i]] = Item(Drives[(i + 1) \div 2], 0)
    BY <1>5, <1>6
  <2> QED BY <2>1, <2>2, <2>3, ItemFacts
<1>7. ASSUME NEW i \in 1..n, i % 2 # 1
      PROVE  /\ i - 1 \in 1..n /\ (i - 1) % 2 = 1 /\ tree'[hs[i]] = Item(NoName, hs[i - 1])
             /\ tree'[hs[i]].up = hs[i - 1] /\ tree'[hs[i]].text = NoName
             /\ hs[i - 1] # 0 /\ hs[i - 1] # hs[i]
  <2>1. i - 1 \in 1..n /\ (i - 1) % 2 = 1 /\ i - 1 # i
    BY <1>1, <1>7
  <2>2. hs[i - 1] # 0 /\ hs[i - 1] # hs[i]
    BY <1>3, <2>1, Bounds
  <2>3. tree'[hs[i]] = Item(NoName, hs[i - 1])
    BY <1>5, <1>7
  <2> QED BY <2>1, <2>2, <2>3, ItemFacts
<1>8. 0 \notin Items /\ NoName \in Text /\ Name \subseteq Text
  BY Bounds DEF Text
<1>9. ASSUME NEW i \in 1..n
      PROVE  tree'[hs[i]] \in [text : Text, up : (DOMAIN tree' \cup {0}) \ {hs[i]}]
  <2>1. hs[i] \in Items
    BY <1>3
  <2>2. CASE i % 2 = 1
    <3>1. /\ tree'[hs[i]] = Item(Drives[(i + 1) \div 2], 0)
          /\ Drives[(i + 1) \div 2] \in Text
      BY <1>6, <1>8, <2>2
    <3> DEFINE U == (DOMAIN tree' \cup {0}) \ {hs[i]}
    <3>2. 0 \in U
      BY <1>8, <2>1
    <3> HIDE DEF U
    <3>3. Item(Drives[(i + 1) \div 2], 0) \in [text : Text, up : U]
      BY <3>1, <3>2, ItemType
    <3> QED BY <3>1, <3>3 DEF U
  <2>3. CASE i % 2 # 1
    <3> DEFINE U == (DOMAIN tree' \cup {0}) \ {hs[i]}
    <3>1. hs[i - 1] \in U
      BY <1>3, <1>4, <1>7, <2>3
    <3>2. tree'[hs[i]] = Item(NoName, hs[i - 1])
      BY <1>7, <2>3
    <3> HIDE DEF U
    <3>3. Item(NoName, hs[i - 1]) \in [text : Text, up : U]
      BY <1>8, <3>1, ItemType
    <3> QED BY <3>2, <3>3 DEF U
  <2> QED BY <2>2, <2>3
<1>10. \A k \in DOMAIN tree' : tree'[k] \in [text : Text, up : (DOMAIN tree' \cup {0}) \ {k}]
  BY <1>3, <1>4, <1>9
<1>11. TreeType(tree')
  <2>1. tree' = [k \in DOMAIN tree' |-> tree'[k]]
    BY <1>2
  <2> QED BY <1>3, <1>4, <1>10, <2>1 DEF TreeType
<1>12. \A k \in DOMAIN tree' : tree'[k].up = 0 \/ tree'[tree'[k].up].up = 0
  <2> TAKE k \in DOMAIN tree'
  <2>1. PICK i \in 1..n : k = hs[i]
    BY <1>3, <1>4
  <2>2. CASE i % 2 = 1
    BY <1>6, <2>1, <2>2
  <2>3. CASE i % 2 # 1
    <3>1. i - 1 \in 1..n /\ (i - 1) % 2 = 1 /\ tree'[hs[i]].up = hs[i - 1]
      BY <1>7, <2>3
    <3>2. tree'[hs[i - 1]].up = 0
      BY <1>6, <3>1
    <3> QED BY <2>1, <3>1, <3>2
  <2> QED BY <2>2, <2>3
<1>13. TreeOK(tree')
  <2> DEFINE t == <<>>
  <2>1. TreeOK(t) /\ DOMAIN t = {}
    BY NoTree
  <2> HIDE DEF t
  <2>2. DOMAIN t \subseteq DOMAIN tree' /\ \A k \in DOMAIN t : tree'[k] = t[k]
    BY <2>1
  <2>3. \A k \in DOMAIN tree' \ DOMAIN t :
            tree'[k].up \in DOMAIN t \cup {0} \/ tree'[tree'[k].up].up \in DOMAIN t \cup {0}
    BY <1>12
  <2> QED BY <1>11, <2>1, <2>2, <2>3, ExtendTree
<1>14. NewHistory(DOMAIN tree')
  BY <1>2, <1>4 DEF NewHistory, Inserted
<1>15. ASSUME NEW h \in DOMAIN tree', tree'[h].up = 0
       PROVE  \E i \in 1..n : h = hs[i] /\ i % 2 = 1
  BY <1>3, <1>4, <1>7, <1>15
<1>16. \A h \in DOMAIN tree' : tree'[h].up = 0 =>
      \E i \in 1..Len(Drives) : tree'[h].text = Drives[i]
  BY <1>6, <1>15 DEF m
<1>17. ASSUME NEW h \in DOMAIN tree', NEW k \in DOMAIN tree',
              tree'[h].up = 0, tree'[k].up = 0, tree'[h].text = tree'[k].text
       PROVE  h = k
  <2>1. PICK i \in 1..n : h = hs[i] /\ i % 2 = 1
    BY <1>15, <1>17
  <2>2. PICK j \in 1..n : k = hs[j] /\ j % 2 = 1
    BY <1>15, <1>17
  <2>3. Drives[(i + 1) \div 2] = Drives[(j + 1) \div 2]
    BY <1>6, <1>17, <2>1, <2>2
  <2>4. (i + 1) \div 2 = (j + 1) \div 2
    <3>1. \A a, b \in 1..m : Drives[a] = Drives[b] => a = b
      BY DrivesFacts, TreeAssumption DEF TreeAssumption, IsInjective, m
    <3> QED BY <1>6, <2>1, <2>2, <2>3, <3>1
  <2>5. i = j
    BY <1>1, <2>1, <2>2, <2>4
  <2> QED BY <2>1, <2>2, <2>5
<1> QED BY <1>2, <1>13, <1>14, <1>16, <1>17

(* The tree after a step of the window's that the network thread brings.    *)
TreeThen ==
    /\ TreeOK(tree') /\ \E hs : NewHistory(hs)
    /\ sel' = 0 \/ (/\ sel' = sel /\ DOMAIN tree \subseteq DOMAIN tree'
                    /\ \A k \in DOMAIN tree : PathIn(tree', k) = PathIn(tree, k))
    /\ stray' \in {"yes", "no"}

(* The three cases of OnSendPackAck. *)
LEMMA ShowCases ==
  ASSUME AInv, OnSendPackAck
  PROVE  /\ pack.kind = "drives" => Str2Tree
         /\ pack.kind = "deleted" => UNCHANGED <<tree, sel, list, loaded, spoilt, stray>>
         /\ pack.kind \notin {"drives", "deleted"} => UpdateFileInfo(pack, asked[cur].item)
         /\ wpc = "idle" /\ cpc = "show" /\ shown' = [shown EXCEPT ![cur] = @ + 1]
         /\ IF AutoClose THEN cpc' = "get" /\ sock' = "none" /\ stream' = <<>> /\ nbuf' = <<>>
                         ELSE cpc' = "recv" /\ UNCHANGED <<sock, stream, nbuf>>
         /\ UNCHANGED <<asked, wpc, wbuf, m_packet>> /\ UNCHANGED <<cur, pack>>
         /\ UNCHANGED <<drive, cwd, gone, answer, where>>
         /\ UNCHANGED <<read, clicked, filling, mixed>>
<1>1. CASE pack.kind = "drives"
  BY <1>1 DEF OnSendPackAck, serverVars
<1>2. CASE pack.kind = "deleted"
  BY <1>2 DEF OnSendPackAck, serverVars
<1>3. CASE pack.kind \notin {"drives", "deleted"}
  BY <1>3 DEF OnSendPackAck, serverVars
<1> QED BY <1>1, <1>2, <1>3

(* What is shown is a packet of the answer to the present request; it is of *)
(* the kind that the request asks for.                                      *)
LEMMA ShownPacket ==
  ASSUME AInv, cpc = "show"
  PROVE  /\ cur \in Requests /\ cur \in DOMAIN answer /\ cur \in DOMAIN asked
         /\ pack \in ToSet(answer[cur]) /\ answer[cur] # <<>> /\ pack \in Packets
         /\ asked[cur] \in Asked /\ asked[cur].cmd \in {"drives", "list", "delete"}
         /\ asked[cur].cmd = "list" <=> pack \in Entries \cup {End}
         /\ asked[cur].cmd = "list" => cur \in Unfinished /\ cur <= filling
         /\ asked[cur].cmd = "drives" => answer[cur] = <<DriveList>>
         /\ asked[cur].cmd = "delete" => answer[cur] = <<Deleted>>
<1>1. cur \in DOMAIN answer /\ pack \in ToSet(answer[cur]) /\ pack \in Packets
  <2>1. Len(answer) = cur /\ cur > 0
    BY DEF AInv, Answers
  <2> QED BY <2>1, AnswerFacts DEF AInv, Buffers, Types, NetType
<1>2. cur \in Requests /\ cur \in DOMAIN asked
  BY <1>1, AnswerFacts
<1>3. asked[cur] \in Asked
  <2>1. asked \in Seq(Asked)
    BY DEF AInv, Types, WindowType
  <2> QED BY <1>2, <2>1
<1>4. asked[cur].cmd \in {"drives", "list", "delete"} /\ AnswerTo(asked[cur], answer[cur])
  BY <1>1, <1>3 DEF Asked, AInv, Answers, AnswerRight
<1>5. PICK i \in DOMAIN answer[cur] : pack = answer[cur][i]
  BY <1>1 DEF ToSet
<1>6. answer[cur] # <<>>
  BY <1>5
<1>7. asked[cur].cmd = "list" => cur \in Unfinished /\ cur <= filling
  BY <1>2 DEF Unfinished, AInv, RequestsMade
<1>8. /\ asked[cur].cmd = "drives" => answer[cur] = <<DriveList>>
      /\ asked[cur].cmd = "delete" => answer[cur] = <<Deleted>>
  BY <1>4, <1>6 DEF AnswerTo
<1>9. asked[cur].cmd = "list" => pack \in Entries \cup {End}
  <2> SUFFICES ASSUME asked[cur].cmd = "list" PROVE pack \in Entries \cup {End}
    OBVIOUS
  <2>1. answer[cur] \in Seq(Entries \cup {End})
    BY <1>4 DEF AnswerTo
  <2> QED BY <1>5, <2>1
<1>10. asked[cur].cmd # "list" => pack \notin Entries \cup {End}
  <2>1. asked[cur].cmd = "drives" => pack = DriveList
    BY <1>5, <1>8
  <2>2. asked[cur].cmd = "delete" => pack = Deleted
    BY <1>5, <1>8
  <2>3. DriveList \notin Entries \cup {End} /\ Deleted \notin Entries \cup {End}
    BY KindsApart
  <2> QED BY <1>4, <2>1, <2>2, <2>3
<1> QED BY <1>1, <1>2, <1>3, <1>4, <1>6, <1>7, <1>8, <1>9, <1>10

(* Every packet leaves a tree, with the paths of the items that stay. *)
LEMMA TreeThenHolds ==
  ASSUME AInv, OnSendPackAck
  PROVE  TreeThen
<1>1. TreeOK(tree) /\ stray \in {"yes", "no"}
  BY DEF AInv, Types, HistoryType
<1>2. CASE pack.kind = "drives"
  <2>1. Str2Tree
    BY <1>2, ShowCases
  <2> QED BY <1>1, <2>1, Str2TreeFacts DEF TreeThen, Gone
<1>3. CASE pack.kind = "deleted"
  <2>1. tree' = tree /\ sel' = sel /\ loaded' = loaded /\ spoilt' = spoilt /\ stray' = stray
    BY <1>3, ShowCases
  <2>2. NewHistory({})
    <3>1. loaded \in [Items -> 0..MaxRequests]
      BY DEF AInv, Types, HistoryType
    <3> QED BY <2>1, <3>1 DEF NewHistory
  <2> QED BY <1>1, <2>1, <2>2 DEF TreeThen
<1>4. CASE pack.kind \notin {"drives", "deleted"}
  <2>1. UpdateFileInfo(pack, asked[cur].item)
    BY <1>4, ShowCases
  <2>2. sel' = sel /\ stray' = stray
    BY <2>1 DEF UpdateFileInfo
  <2>3. CASE IsFolder(pack)
    <3>1. InsertFolder(pack.name, asked[cur].item)
      BY <2>1, <2>3 DEF UpdateFileInfo
    <3>2. pack.name \in Text
      <4>1. pack \in Packets /\ pack.kind = "dir"
        BY <2>3, ShowCases, ShownPacket DEF IsFolder
      <4>2. pack.name \in Name
        BY <4>1, KindsApart
      <4> QED BY <4>2 DEF Text
    <3>3. /\ TreeOK(tree') /\ DOMAIN tree \subseteq DOMAIN tree'
          /\ \A k \in DOMAIN tree : tree'[k] = tree[k] /\ PathIn(tree', k) = PathIn(tree, k)
          /\ NewHistory(DOMAIN tree' \ DOMAIN tree)
      BY <1>1, <3>1, <3>2, InsertFolderFacts
    <3> QED BY <1>1, <2>2, <3>3 DEF TreeThen
  <2>4. CASE ~IsFolder(pack)
    <3>1. tree' = tree /\ loaded' = loaded /\ spoilt' = spoilt
      BY <2>1, <2>4 DEF UpdateFileInfo
    <3>2. NewHistory({})
      <4>1. loaded \in [Items -> 0..MaxRequests]
        BY DEF AInv, Types, HistoryType
      <4> QED BY <3>1, <4>1 DEF NewHistory
    <3> QED BY <1>1, <2>2, <3>1, <3>2 DEF TreeThen
  <2> QED BY <2>3, <2>4
<1> QED BY <1>2, <1>3, <1>4

(* The list: a file of the present answer is put before the others.         *)
LEMMA ListThen ==
  ASSUME AInv, OnSendPackAck
  PROVE  IF pack.kind = "file"
         THEN /\ list' = <<[of |-> cur, name |-> pack.name]>> \o list
              /\ asked[cur].cmd = "list" /\ pack.name \in Name
         ELSE list' = list
<1>1. CASE pack.kind \in {"drives", "deleted"}
  BY <1>1, ShowCases, Str2TreeFacts
<1>2. CASE pack.kind \notin {"drives", "deleted"}
  <2>1. UpdateFileInfo(pack, asked[cur].item)
    BY <1>2, ShowCases
  <2>2. list' = IF pack.kind = "file" THEN <<[of |-> cur, name |-> pack.name]>> \o list ELSE list
    BY <2>1 DEF UpdateFileInfo
  <2>3. pack.kind = "file" => asked[cur].cmd = "list" /\ pack.name \in Name
    BY ShowCases, ShownPacket, KindsApart
  <2> QED BY <2>2, <2>3
<1> QED BY <1>1, <1>2

LEMMA OnSendPackAckA ==
  ASSUME AInv, OnSendPackAck
  PROVE  AInv'
<1> DEFINE e == [of |-> cur, name |-> pack.name]
           T == [of : 0..MaxRequests, name : Text]
<1>1. /\ wpc = "idle" /\ cpc = "show" /\ shown' = [shown EXCEPT ![cur] = @ + 1]
      /\ IF AutoClose THEN cpc' = "get" /\ sock' = "none" /\ stream' = <<>> /\ nbuf' = <<>>
                      ELSE cpc' = "recv" /\ UNCHANGED <<sock, stream, nbuf>>
      /\ UNCHANGED <<asked, wpc, wbuf, m_packet>> /\ UNCHANGED <<cur, pack>>
      /\ UNCHANGED <<drive, cwd, gone, answer, where>>
      /\ UNCHANGED <<read, clicked, filling, mixed>>
  BY ShowCases
<1>2. /\ cur \in Requests /\ cur \in DOMAIN answer /\ cur \in DOMAIN asked /\ answer[cur] # <<>>
      /\ asked[cur].cmd = "list" => cur \in Unfinished /\ cur <= filling
  BY <1>1, ShownPacket
<1>3. TreeThen
  BY TreeThenHolds
<1>4. cpc' \in {"get", "recv"} /\ sock' \in {"none", "made", "open"}
      /\ nbuf' \in Seq(Own) /\ stream' \in Seq(Own)
      /\ (cpc' = "get" => nbuf' = <<>> /\ stream' = <<>>)
  <2>1. nbuf \in Seq(Own) /\ stream \in Seq(Own) /\ sock \in {"none", "made", "open"}
    BY DEF AInv, Buffers, Types, NetType
  <2>2. CASE AutoClose
    BY <1>1, <2>2
  <2>3. CASE ~AutoClose
    BY <1>1, <2>1, <2>3
  <2> QED BY <2>2, <2>3
<1>5. /\ list' \in Seq(T) /\ (filling = 0 => list' = <<>>)
      /\ \A i \in DOMAIN list' : EntryOK(list'[i], asked, answer)
      /\ Unmixed => \A i \in DOMAIN list' : list'[i].of = filling
  <2>1. /\ list \in Seq(T) /\ (filling = 0 => list = <<>>)
        /\ \A i \in DOMAIN list : EntryOK(list[i], asked, answer)
        /\ Unmixed => (\A i \in DOMAIN list : list[i].of = filling)
                       /\ \A r \in Unfinished : r = filling
    BY DEF AInv, Types, WindowType, RequestsMade, ListMade
  <2>2. CASE pack.kind = "file"
    <3>1. list' = <<e>> \o list /\ asked[cur].cmd = "list" /\ pack.name \in Name
      BY <2>2, ListThen
    <3>2. e \in T /\ e.of = cur /\ e.name \in Name
      BY <1>2, <3>1, Bounds DEF Text
    <3>3. filling # 0 /\ (Unmixed => e.of = filling)
      BY <1>2, <2>1, <3>1, <3>2, Bounds, AnswerFacts
    <3>4. EntryOK(e, asked, answer)
      BY <1>2, <3>1, <3>2 DEF EntryOK
    <3> HIDE DEF e, T
    <3>5. /\ list' \in Seq(T) /\ list'[1] = e
          /\ \A i \in DOMAIN list' : i = 1 \/ (i - 1 \in DOMAIN list /\ list'[i] = list[i - 1])
      BY <2>1, <3>1, <3>2, PutFirst
    <3> QED BY <2>1, <3>3, <3>4, <3>5
  <2>3. CASE pack.kind # "file"
    BY <2>1, <2>3, ListThen
  <2> QED BY <2>2, <2>3
<1>6. Types'
  <2>1. WindowType'
    <3>1. sel' \in DOMAIN tree' \cup {0}
      BY <1>3 DEF TreeThen, AInv, Types, WindowType
    <3>2. /\ asked' \in Seq(Asked) /\ Len(asked') <= MaxRequests
          /\ wpc' \in {"idle", "test", "recv"} /\ wbuf' \in Seq(Units)
      BY <1>1 DEF AInv, Types, WindowType
    <3>3. m_packet' \in [of : 0..MaxRequests, pkt : Entries \cup {End}] \cup Garbage \cup {Unread}
      BY <1>1 DEF AInv, Types, WindowType
    <3> QED BY <1>5, <3>1, <3>2, <3>3, Zenon DEF WindowType
  <2>2. NetType'
    <3>1. Own \subseteq Units
      BY DEF Own, Known
    <3>2. nbuf' \in Seq(Units) /\ stream' \in Seq(Units)
      BY <1>4, <3>1
    <3>3. cur' \in 0..Len(asked') /\ pack' \in Packets
      BY <1>1 DEF AInv, Types, NetType
    <3> QED BY <1>4, <3>2, <3>3 DEF NetType
  <2>3. ServerType'
    BY <1>1 DEF AInv, Types, ServerType
  <2>4. HistoryType'
    <3>1. shown' \in [Requests -> Nat] /\ read' \in [Requests -> Nat]
      BY <1>1, <1>2 DEF AInv, Types, HistoryType
    <3>2. loaded' \in [Items -> 0..MaxRequests] /\ spoilt' \subseteq Items
      <4>1. PICK hs : NewHistory(hs)
        BY <1>3 DEF TreeThen
      <4>2. Awaited \subseteq Items
        <5>1. asked \in Seq(Asked)
          BY DEF AInv, Types, WindowType
        <5>2. \A r \in DOMAIN asked : asked[r].item \in 0..MaxItems
          <6> TAKE r \in DOMAIN asked
          <6>1. asked[r] \in Asked
            BY <5>1
          <6> QED BY <6>1 DEF Asked
        <5> QED BY <5>2, Bounds DEF Awaited, Unfinished
      <4>3. loaded \in [Items -> 0..MaxRequests] /\ spoilt \subseteq Items
        BY DEF AInv, Types, HistoryType
      <4> QED BY <4>1, <4>2, <4>3, Bounds DEF NewHistory
    <3>3. stray' \in {"yes", "no"}
      BY <1>3 DEF TreeThen
    <3>4. clicked' \in 0..MaxItems /\ filling' \in 0..MaxRequests /\ mixed' \in {"yes", "no"}
      BY <1>1 DEF AInv, Types, HistoryType
    <3> QED BY <3>1, <3>2, <3>3, <3>4 DEF HistoryType
  <2> QED BY <2>1, <2>2, <2>3, <2>4 DEF Types
<1>7. TreeOK(tree)'
  BY <1>3 DEF TreeThen
<1>8. Answers'
  <2>1. cpc' # "connect" /\ Len(answer) = cur /\ cur > 0
    BY <1>1, <1>4 DEF AInv, Answers
  <2> QED BY <1>1, <2>1 DEF AInv, Answers
<1>9. Buffers'
  <2>1. Known' = Known /\ Own' = Own
    BY <1>1 DEF Known, Own
  <2> QED BY <1>1, <1>4, <2>1 DEF AInv, Buffers
<1>10. RequestsMade'
  BY <1>1, <1>5 DEF AInv, RequestsMade
<1>11. ListMade'
  <2>1. Unmixed' = Unmixed
    BY <1>1 DEF Unmixed
  <2>2. Unfinished' \subseteq Unfinished
    BY <1>1 DEF Unfinished
  <2>3. filling # 0 /\ sel' = clicked => asked[filling].path = GetPath(sel)'
    <3> SUFFICES ASSUME filling # 0, sel' = clicked PROVE asked[filling].path = GetPath(sel)'
      OBVIOUS
    <3>1. clicked # 0
      BY DEF AInv, RequestsMade
    <3>2. sel' = sel /\ sel \in DOMAIN tree /\ PathIn(tree', sel) = PathIn(tree, sel)
      BY <1>3, <3>1 DEF TreeThen, AInv, Types, WindowType
    <3>3. asked[filling].path = GetPath(sel)
      BY <3>2 DEF AInv, ListMade
    <3> QED BY <3>2, <3>3, TreeIs, TreeIsThen
  <2> QED BY <1>1, <1>5, <2>1, <2>2, <2>3 DEF AInv, ListMade
<1> QED BY <1>6, <1>7, <1>8, <1>9, <1>10, <1>11 DEF AInv

LEMMA InitA == Init => AInv
<1> SUFFICES ASSUME Init PROVE AInv
  OBVIOUS
<1>1. /\ tree = <<>> /\ sel = 0 /\ list = <<>> /\ asked = <<>>
      /\ wpc = "idle" /\ wbuf = <<>> /\ m_packet = Unread
  BY DEF Init
<1>2. /\ cur = 0 /\ cpc = "get" /\ nbuf = <<>> /\ pack = End
      /\ sock = "none" /\ stream = <<>>
  BY DEF Init
<1>3. /\ drive = Drives[1] /\ cwd = [d \in ToSet(Drives) |-> <<d>>] /\ gone = {}
      /\ answer = <<>> /\ where = <<>>
  BY DEF Init
<1>4. /\ shown = [r \in Requests |-> 0] /\ read = [r \in Requests |-> 0]
      /\ clicked = 0 /\ loaded = [h \in Items |-> 0] /\ spoilt = {}
      /\ filling = 0 /\ mixed = "no" /\ stray = "no"
  BY DEF Init
<1>5. WindowType
  <2>1. list \in Seq([of : 0..MaxRequests, name : Text]) /\ asked \in Seq(Asked)
        /\ wbuf \in Seq(Units) /\ Len(asked) <= MaxRequests /\ sel \in DOMAIN tree \cup {0}
    BY <1>1, Bounds
  <2>2. m_packet \in [of : 0..MaxRequests, pkt : Entries \cup {End}] \cup Garbage \cup {Unread}
    BY <1>1
  <2> QED BY <1>1, <2>1, <2>2 DEF WindowType
<1>6. NetType
  <2>1. nbuf \in Seq(Units) /\ stream \in Seq(Units) /\ cur \in 0..Len(asked)
    BY <1>1, <1>2
  <2> QED BY <1>2, <2>1 DEF NetType, Packets
<1>7. ServerType
  <2>1. drive \in ToSet(Drives)
    BY <1>3, DrivesFacts
  <2>2. DOMAIN cwd = ToSet(Drives) /\ \A d \in ToSet(Drives) : cwd[d] \in DOMAIN Listing
    BY <1>3, TreeAssumption DEF TreeAssumption
  <2> QED BY <1>2, <1>3, <2>1, <2>2 DEF ServerType
<1>8. HistoryType
  BY <1>4, Bounds DEF HistoryType
<1>9. TreeOK(tree)
  BY <1>1, NoTree
<1>10. Buffers
  <2>1. nbuf \in Seq(Own) /\ stream \in Seq(Own) /\ wbuf \in Seq(Known)
    BY <1>1, <1>2
  <2> QED BY <1>1, <1>2, <2>1 DEF Buffers, Unread
<1>11. Answers
  BY <1>2, <1>3 DEF Answers
<1>12. RequestsMade
  BY <1>1, <1>4 DEF RequestsMade
<1>13. ListMade
  BY <1>1, <1>4 DEF ListMade, Unmixed
<1> QED BY <1>5, <1>6, <1>7, <1>8, <1>9, <1>10, <1>11, <1>12, <1>13 DEF AInv, Types

LEMMA StutterA ==
  ASSUME AInv, UNCHANGED vars
  PROVE  AInv'
<1>1. /\ UNCHANGED <<tree, sel, list, asked, wpc, wbuf, m_packet>>
      /\ UNCHANGED <<cur, cpc, nbuf, pack, sock, stream>>
  BY DEF vars, windowVars, netVars
<1>2. /\ UNCHANGED <<drive, cwd, gone, answer, where>>
      /\ UNCHANGED <<shown, read, clicked, loaded, spoilt, filling, mixed, stray>>
  BY DEF vars, serverVars, history
<1>3. Types'
  BY <1>1, <1>2 DEF AInv, Types, WindowType, NetType, ServerType, HistoryType
<1>4. TreeOK(tree)' /\ Answers'
  BY <1>1, <1>2 DEF AInv, Answers
<1>5. Buffers'
  BY <1>1, <1>2 DEF AInv, Buffers, Known, Own
<1>6. Unfinished' \subseteq Unfinished
  BY <1>1 DEF Unfinished
<1>7. wpc # "idle" => HeldUp(filling, cur', cpc', answer')
  BY <1>1, <1>2 DEF AInv, RequestsMade, HeldUp
<1>8. LongerBy(answer, answer', 0)
  BY <1>2, SameAnswers
<1>9. RequestsMade' /\ ListMade'
  BY <1>1, <1>2, <1>6, <1>7, <1>8, NetLeaves
<1> QED BY <1>3, <1>4, <1>5, <1>9 DEF AInv

(* Every step keeps the first layer. *)
LEMMA NextA ==
  ASSUME AInv, [Next]_vars
  PROVE  AInv'
BY AskDrivesA, LoadFileInfoA, OnDeleteFileA, MakeSocketA, SendA, FailsA, BoxTakesA, RecvA,
   RecvEndA, OnSendPackAckA, OnSocketClosedA, CloseBoxA, LoopTestA, DealCommandA, StutterA, Zenon
   DEF Next, Network, Answered, LoadFileCurrent, Fails

LEMMA AlwaysA == Spec => []AInv
<1>1. Init => AInv
  BY InitA
<1>2. AInv /\ [Next]_vars => AInv'
  BY NextA
<1> QED BY <1>1, <1>2, PTL DEF Spec

(* The variables keep their types, for all drives and folders, and for any  *)
(* number of items, of requests and of those that fail.  It is what the     *)
(* lengths and indices of the code rest on: the network thread's request is *)
(* one that was posted, m_packet one that an answer has (or what memory     *)
(* had), and every item of the tree is under one that is there.             *)
THEOREM TypeCorrect == Spec => []TypeOK
<1>1. AInv => TypeOK
  BY TypeParts DEF AInv
<1> QED BY <1>1, AlwaysA, PTL

(* The folder of the file's path is the item's path. *)
LEMMA FrontOfAppend ==
  ASSUME NEW T, NEW s \in Seq(T), NEW x \in T
  PROVE  Front(Append(s, x)) = s
<1> DEFINE a == Append(s, x)
           f == SubSeq(a, 1, Len(s))
<1>1. a \in Seq(T) /\ Len(a) = Len(s) + 1 /\ Len(s) \in Nat /\ \A i \in 1..Len(s) : a[i] = s[i]
  OBVIOUS
<1>2. f \in Seq(T) /\ Len(f) = Len(s) /\ \A i \in 1..Len(s) : f[i] = s[i]
  <2> HIDE DEF a
  <2> QED BY <1>1
<1>3. f = s
  <2> HIDE DEF f
  <2> QED BY <1>1, <1>2
<1>4. Front(a) = SubSeq(a, 1, Len(a) - 1)
  BY DEF Front
<1>5. Len(a) - 1 = Len(s)
  BY <1>1
<1> QED BY <1>3, <1>4, <1>5

(* OnDeleteFile deletes a file from the folder that the list shows it in,   *)
(* as long as the item clicked last is the selected one and the file came   *)
(* with the listing that the list was cleared for, or the list has no       *)
(* others: the path made from the selected item is that listing's path, and *)
(* the server, which resolves both by itself, comes to the same folder.     *)
THEOREM DeletesShownHolds == Spec => []DeletesShown
<1>1. AInv => DeletesShown
  <2> SUFFICES ASSUME AInv, NEW r \in DOMAIN answer,
                      asked[r].cmd = "delete", asked[r].plain = "yes",
                      asked[r].path[1] \in ToSet(Drives), answer[r] # <<>>
               PROVE  where[r] = where[asked[r].of]
    BY DEF DeletesShown
  <2> DEFINE q == asked[r]
             s == asked[q.of]
  <2>1. where[r] = Front(Without(q.path, {NoName}))
    BY DEF AInv, Answers, AnswerRight
  <2>2. PlainDelete(q, asked, answer)
    BY AnswerFacts DEF AInv, RequestsMade
  <2>3. q.of \in DOMAIN answer /\ answer[q.of] # <<>> /\ s.cmd = "list"
    BY <2>2 DEF PlainDelete
  <2>4. PICK n \in Name : q.path = Append(s.path, n)
    BY <2>2 DEF PlainDelete
  <2>5. s.path \in Seq(Text) /\ Len(s.path) > 0
    <3>1. asked \in Seq(Asked) /\ q.of \in DOMAIN asked
      BY <2>3, AnswerFacts DEF AInv, Types, WindowType
    <3>2. s \in Asked
      BY <3>1
    <3> QED BY <2>3, <3>1, <3>2 DEF Asked, AInv, RequestsMade
  <2> HIDE DEF q, s
  <2>6. n \in Text /\ n \notin {NoName}
    BY <2>4, DrivesFacts DEF Text
  <2>7. q.path[1] = s.path[1]
    BY <2>4, <2>5, <2>6
  <2>8. where[q.of] = Without(s.path, {NoName})
    BY <2>3, <2>7 DEF AInv, Answers, AnswerRight, q, s
  <2>9. Without(q.path, {NoName}) = Append(Without(s.path, {NoName}), n)
    BY <2>4, <2>5, <2>6, WithoutAppend
  <2>10. Without(s.path, {NoName}) \in Seq(Text)
    BY <2>5, WithoutType
  <2>11. Front(Append(Without(s.path, {NoName}), n)) = Without(s.path, {NoName})
    BY <2>6, <2>10, FrontOfAppend
  <2> QED BY <2>1, <2>8, <2>9, <2>11 DEF q
<1> QED BY <1>1, AlwaysA, PTL

-----------------------------------------------------------------------------
(* Nothing is shown that was not sent, and nothing is shown twice.          *)

(* The types of what is counted. *)
LEMMA CountFacts ==
  ASSUME AInv
  PROVE  /\ nbuf \in Seq(Own) /\ stream \in Seq(Own) /\ wbuf \in Seq(Known)
         /\ Len(nbuf) \in Nat /\ Len(stream) \in Nat /\ Ahead \in Nat
         /\ \A r \in Requests : shown[r] \in Nat /\ read[r] \in Nat
         /\ \A r \in DOMAIN answer : /\ Len(answer[r]) \in Nat /\ answer[r] \in Seq(Packets)
                                     /\ shown[r] \in Nat /\ r \in Requests
<1>1. nbuf \in Seq(Own) /\ stream \in Seq(Own) /\ wbuf \in Seq(Known)
  BY DEF AInv, Buffers
<1>2. Len(nbuf) \in Nat /\ Len(stream) \in Nat
  BY <1>1
<1>3. \A r \in Requests : shown[r] \in Nat /\ read[r] \in Nat
  BY DEF AInv, Types, HistoryType
<1>4. answer \in Seq(Seq(Packets))
  BY DEF AInv, Types, ServerType
<1>5. \A r \in DOMAIN answer : Len(answer[r]) \in Nat
                          /\ answer[r] \in Seq(Packets) /\ r \in Requests
  BY <1>4, AnswerFacts
<1> QED BY <1>1, <1>2, <1>3, <1>5 DEF Ahead

(* What every step does to the count: an answer that is still whole was     *)
(* whole before.                                                            *)
CountStep ==
    /\ Counted'
    /\ \A r \in DOMAIN answer :
          /\ r \in DOMAIN answer' /\ answer'[r] = answer[r]
          /\ Whole(r, answer', cur', shown', Ahead') => Whole(r, answer, cur, shown, Ahead)

(* A step after which no more is ahead.                                     *)
LEMMA LessAhead ==
  ASSUME AInv, Counted, cur' = cur, answer' = answer, shown' = shown,
         Ahead' \in Nat, Ahead' <= Ahead,
         Ahead' = Ahead =>
            (nbuf \o stream)' = nbuf \o stream /\ (cpc' = "show" => cpc = "show" /\ pack' = pack),
         \A r \in Requests \ DOMAIN answer : read'[r] = read[r]
  PROVE  CountStep
<1>1. /\ Ahead \in Nat
      /\ \A r \in DOMAIN answer : Len(answer[r]) \in Nat /\ shown[r] \in Nat
  BY CountFacts
<1>2. \A r \in Requests \ DOMAIN answer' : shown'[r] = 0 /\ read'[r] = 0
  BY DEF Counted
<1>3. ASSUME cur \in DOMAIN answer
      PROVE  /\ 2 * shown[cur] + Ahead' <= 2 * Len(answer[cur])
             /\ Whole(cur, answer, cur, shown, Ahead') =>
                   Whole(cur, answer, cur, shown, Ahead) /\ Ahead' = Ahead
  BY <1>1, <1>3 DEF Counted, Whole
<1>4. Counted'
  <2>1. ASSUME cur \in DOMAIN answer, Whole(cur, answer, cur, shown, Ahead')
        PROVE  /\ RestRight((nbuf \o stream)', Len(answer[cur]), cur)
               /\ cpc' = "show" => pack' = answer[cur][shown[cur] + 1]
    BY <1>3, <2>1 DEF Counted
  <2> QED BY <1>2, <1>3, <2>1 DEF Counted
<1>5. ASSUME NEW r \in DOMAIN answer, Whole(r, answer', cur', shown', Ahead')
      PROVE  Whole(r, answer, cur, shown, Ahead)
  BY <1>1, <1>3, <1>5 DEF Whole
<1> QED BY <1>4, <1>5 DEF CountStep

(* A step that reads nothing. *)
LEMMA QuietCount ==
  ASSUME AInv, Counted, UNCHANGED <<cur, answer, shown>>, UNCHANGED <<nbuf, stream, pack>>,
         cpc' = "show" <=> cpc = "show",
         \A r \in Requests \ DOMAIN answer : read'[r] = read[r]
  PROVE  CountStep
<1>1. Ahead' = Ahead /\ Ahead \in Nat
  BY CountFacts DEF Ahead
<1>2. Ahead' <= Ahead /\ Ahead' \in Nat
  BY <1>1
<1>3. (nbuf \o stream)' = nbuf \o stream
  OBVIOUS
<1> QED BY <1>2, <1>3, LessAhead

LEMMA SecondHalf ==
  ASSUME NEW m \in Nat, NEW n \in Nat, NEW j \in Nat, 2 * m + j = 2 * n
  PROVE  2 * n - j + 2 = 2 * m + 2 /\ (2 * m + 2 + 1) \div 2 = m + 1
OBVIOUS

(* The network thread looks for a packet in b, with y still under way.      *)
LEMMA ParseCount ==
  ASSUME AInv, Counted, cpc = "recv", NEW b \in Seq(Own), NEW y \in Seq(Own), Parse(b),
         b \o y = nbuf \o stream, stream' = y,
         UNCHANGED <<cur, answer, shown>>, read' = read
  PROVE  CountStep
<1>1. /\ Len(b) \in Nat /\ Len(y) \in Nat /\ Len(b) + Len(y) = Len(nbuf) + Len(stream)
      /\ b \o y \in Seq(Own) /\ Len(b \o y) = Len(b) + Len(y)
      /\ \A j \in 1..(Len(b) + Len(y)) : (b \o y)[j] = IF j <= Len(b) THEN b[j] ELSE y[j - Len(b)]
  <2>1. Len(b \o y) = Len(b) + Len(y) /\ Len(nbuf \o stream) = Len(nbuf) + Len(stream)
        /\ b \o y \in Seq(Own)
        /\ \A j \in 1..(Len(b) + Len(y)) : (b \o y)[j] = IF j <= Len(b) THEN b[j] ELSE y[j - Len(b)]
    BY CountFacts, ConcatProperties
  <2> QED BY <2>1
<1>2. Ahead = Len(b) + Len(y)
  BY <1>1, CountFacts DEF Ahead
<1>3. CASE PacketEnd(b) = 0
  <2>1. nbuf' = b /\ pack' = pack /\ cpc' = "recv"
    BY <1>3 DEF Parse
  <2>2. Ahead' = Ahead /\ Ahead' \in Nat
    BY <1>1, <1>2, <2>1 DEF Ahead
  <2>3. (nbuf \o stream)' = nbuf \o stream
    BY <2>1
  <2>4. Ahead' <= Ahead
    BY <2>2
  <2> QED BY <2>1, <2>2, <2>3, <2>4, LessAhead
<1>4. CASE PacketEnd(b) # 0
  <2> DEFINE i == PacketEnd(b)
             z == SubSeq(b, i + 1, Len(b))
  <2>1. pack' = answer[b[i].of][b[i].k] /\ nbuf' = z /\ cpc' = "show"
    BY <1>4 DEF Parse, Show
  <2>2. i \in 2..Len(b)
    BY <1>4, PacketEndFacts DEF EndsAt
  <2> HIDE DEF i
  <2>3. z \in Seq(Own) /\ Len(z) = Len(b) - i /\ \A j \in 1..Len(z) : z[j] = b[j + i]
    BY <1>1, <2>2
  <2> HIDE DEF z
  <2>4. Ahead' = Ahead + 2 - i /\ Ahead' \in Nat
    <3>1. Ahead' = 2 + Len(z) + Len(y)
      BY <2>1 DEF Ahead
    <3>2. Len(z) \in Nat
      BY <2>3
    <3> QED BY <1>1, <1>2, <2>2, <2>3, <3>1, <3>2
  <2>5. Ahead \in Nat /\ Ahead' <= Ahead
    BY <1>1, <1>2, <2>2, <2>4
  <2>6. ASSUME cur \in DOMAIN answer
        PROVE  /\ 2 * shown[cur] + Ahead' <= 2 * Len(answer[cur])
               /\ Whole(cur, answer, cur, shown, Ahead') =>
                     Whole(cur, answer, cur, shown, Ahead) /\ i = 2
    <3>1. shown[cur] \in Nat /\ Len(answer[cur]) \in Nat
      BY <2>6, CountFacts
    <3> QED BY <2>2, <2>4, <2>5, <2>6, <3>1 DEF Counted, Whole
  <2>7. ASSUME cur \in DOMAIN answer, Whole(cur, answer, cur, shown, Ahead')
        PROVE  /\ RestRight(z \o y, Len(answer[cur]), cur)
               /\ pack' = answer[cur][shown[cur] + 1]
    <3> DEFINE n == Len(answer[cur])
               s == b \o y
    <3>1. /\ i = 2 /\ RestRight(s, n, cur) /\ 2 * shown[cur] + Len(b) + Len(y) = 2 * n
          /\ n \in Nat /\ shown[cur] \in Nat
      BY <1>1, <1>2, <2>6, <2>7, CountFacts DEF Counted, Whole
    <3>2. /\ Len(z \o y) = Len(s) - 2
          /\ \A j \in 1..Len(z \o y) : (z \o y)[j] = s[j + 2] /\ j + 2 \in 1..Len(s)
      <4>1. /\ Len(z \o y) = Len(z) + Len(y)
            /\ \A j \in 1..(Len(z) + Len(y)) : (z \o y)[j] =
                    IF j <= Len(z) THEN z[j] ELSE y[j - Len(z)]
        BY <2>3, ConcatProperties
      <4>2. Len(z) \in Nat /\ Len(z) = Len(b) - 2
        BY <2>3, <3>1
      <4>3. Len(z \o y) = Len(s) - 2
        BY <1>1, <4>1, <4>2
      <4>4. ASSUME NEW j \in 1..Len(z \o y) PROVE (z \o y)[j] = s[j + 2] /\ j + 2 \in 1..Len(s)
        <5>1. j \in 1..(Len(z) + Len(y)) /\ j + 2 \in 1..(Len(b) + Len(y)) /\ j \in Nat
          BY <1>1, <4>1, <4>2
        <5>2. CASE j <= Len(z)
          <6>1. (z \o y)[j] = b[j + 2] /\ j + 2 <= Len(b)
            BY <1>1, <2>3, <3>1, <4>1, <4>2, <5>1, <5>2
          <6> QED BY <1>1, <5>1, <6>1
        <5>3. CASE ~(j <= Len(z))
          <6>1. (z \o y)[j] = y[j - Len(z)] /\ ~(j + 2 <= Len(b)) /\ (j + 2) - Len(b) = j - Len(z)
            BY <1>1, <4>1, <4>2, <5>1, <5>3
          <6> QED BY <1>1, <5>1, <6>1
        <5> QED BY <5>2, <5>3
      <4> QED BY <4>3, <4>4
    <3>3. Len(s) \in Nat /\ Len(s) = Len(b) + Len(y) /\ Len(s) >= 2
      BY <1>1, <2>2, <3>1
    <3>4. b[2] = s[2]
      BY <1>1, <2>2, <3>1
    <3> HIDE DEF n, s
    <3>5. s[2] = UnitAt(cur, 2 * n - Len(s) + 2)
      BY <3>1, <3>3 DEF RestRight
    <3>6. 2 * shown[cur] + Len(s) = 2 * n
      <4>1. 2 * shown[cur] + (Len(b) + Len(y)) = 2 * n
        BY <1>1, <3>1
      <4> QED BY <3>3, <4>1
    <3>7. /\ 2 * n - Len(s) + 2 = 2 * shown[cur] + 2
          /\ (2 * shown[cur] + 2 + 1) \div 2 = shown[cur] + 1
      BY <3>1, <3>3, <3>6, SecondHalf
    <3>8. b[2].of = cur /\ b[2].k = shown[cur] + 1
      BY <3>4, <3>5, <3>6, <3>7 DEF UnitAt
    <3>9. pack' = answer[cur][shown[cur] + 1]
      BY <2>1, <3>1, <3>8
    <3>10. ASSUME NEW j \in 1..Len(z \o y)
           PROVE  (z \o y)[j] = UnitAt(cur, 2 * n - Len(z \o y) + j)
      <4>1. (z \o y)[j] = s[j + 2] /\ j + 2 \in 1..Len(s)
        BY <3>2
      <4>2. s[j + 2] = UnitAt(cur, 2 * n - Len(s) + (j + 2))
        BY <3>1, <4>1 DEF RestRight
      <4>3. 2 * n - Len(s) + (j + 2) = 2 * n - Len(z \o y) + j
        BY <3>1, <3>2, <3>3
      <4> QED BY <4>1, <4>2, <4>3
    <3> QED BY <3>9, <3>10 DEF RestRight, n
  <2>8. Counted'
    <3>1. \A r \in Requests \ DOMAIN answer' : shown'[r] = 0 /\ read'[r] = 0
      BY DEF Counted
    <3>2. (nbuf \o stream)' = z \o y
      BY <2>1
    <3> QED BY <2>1, <2>6, <2>7, <3>1, <3>2 DEF Counted
  <2>9. ASSUME NEW r \in DOMAIN answer, Whole(r, answer', cur', shown', Ahead')
        PROVE  Whole(r, answer, cur, shown, Ahead)
    BY <2>6, <2>9 DEF Whole
  <2> QED BY <2>8, <2>9 DEF CountStep
<1> QED BY <1>3, <1>4

(* Receiving the first n units of the stream moves them. *)
LEMMA SplitConcat ==
  ASSUME NEW T, NEW q \in Seq(T), NEW s \in Seq(T), NEW n \in 1..Len(s)
  PROVE  /\ SubSeq(s, 1, n) \in Seq(T) /\ SubSeq(s, n + 1, Len(s)) \in Seq(T)
         /\ q \o SubSeq(s, 1, n) \in Seq(T)
         /\ (q \o SubSeq(s, 1, n)) \o SubSeq(s, n + 1, Len(s)) = q \o s
<1> DEFINE x == SubSeq(s, 1, n)
           y == SubSeq(s, n + 1, Len(s))
<1>1. /\ n \in 0..Len(s) /\ Len(s) \in Nat /\ 1 \in 1..(Len(s) + 1)
      /\ n \in (1 - 1)..Len(s) /\ Len(s) \in n..Len(s)
  OBVIOUS
<1>2. x \in Seq(T) /\ y \in Seq(T)
  BY <1>1, RestOf
<1>3. x \o y = SubSeq(s, 1, Len(s))
  BY <1>1, ConcatAdjacentSubSeq
<1>4. SubSeq(s, 1, Len(s)) = s
  BY SubSeqFull
<1> HIDE DEF x, y
<1>5. (q \o x) \o y = q \o (x \o y)
  BY <1>2, ConcatAssociative
<1>6. q \o x \in Seq(T)
  BY <1>2
<1> QED BY <1>2, <1>3, <1>4, <1>5, <1>6 DEF x, y

LEMMA RecvCount ==
  ASSUME AInv, Counted, Recv
  PROVE  CountStep
<1>1. cpc = "recv" /\ UNCHANGED <<cur, answer, shown>> /\ read' = read
  BY DEF Recv, serverVars, history
<1>2. PICK n \in 1..Len(stream) :
          /\ Parse(nbuf \o SubSeq(stream, 1, n))
          /\ stream' = SubSeq(stream, n + 1, Len(stream))
  BY DEF Recv
<1>3. stream \in Seq(Own) /\ nbuf \in Seq(Own)
  BY CountFacts
<1> DEFINE x == SubSeq(stream, 1, n)
           y == SubSeq(stream, n + 1, Len(stream))
<1>4. y \in Seq(Own) /\ nbuf \o x \in Seq(Own) /\ (nbuf \o x) \o y = nbuf \o stream
  BY <1>3, SplitConcat
<1>5. Parse(nbuf \o x) /\ stream' = y
  BY <1>2
<1> HIDE DEF x, y
<1> QED BY <1>1, <1>4, <1>5, ParseCount

LEMMA RecvEndCount ==
  ASSUME AInv, Counted, RecvEnd
  PROVE  CountStep
<1>1. /\ cpc = "recv" /\ stream = <<>> /\ stream' = stream
      /\ UNCHANGED <<cur, answer, shown>> /\ read' = read
      /\ IF nbuf = <<>> THEN cpc' = "told" /\ sock' = "none" /\ nbuf' = nbuf /\ pack' = pack
                        ELSE Parse(nbuf)
  BY DEF RecvEnd, serverVars, history
<1>2. nbuf \in Seq(Own) /\ stream \in Seq(Own)
  BY CountFacts
<1>3. CASE nbuf = <<>>
  BY <1>1, <1>3, QuietCount
<1>4. CASE nbuf # <<>>
  BY <1>1, <1>2, <1>4, ParseCount
<1> QED BY <1>3, <1>4

LEMMA OnSendPackAckCount ==
  ASSUME AInv, Counted, OnSendPackAck
  PROVE  CountStep
<1>1. /\ cpc = "show" /\ shown' = [shown EXCEPT ![cur] = @ + 1]
      /\ IF AutoClose THEN cpc' = "get" /\ sock' = "none" /\ stream' = <<>> /\ nbuf' = <<>>
                      ELSE cpc' = "recv" /\ UNCHANGED <<sock, stream, nbuf>>
      /\ cur' = cur /\ answer' = answer /\ read' = read
  BY ShowCases
<1>2. /\ cur \in Requests /\ cur \in DOMAIN answer /\ shown \in [Requests -> Nat]
      /\ shown[cur] \in Nat /\ Len(answer[cur]) \in Nat
      /\ Len(nbuf) \in Nat /\ Len(stream) \in Nat
  BY <1>1, ShownPacket, CountFacts DEF AInv, Types, HistoryType
<1>3. shown'[cur] = shown[cur] + 1 /\ \A r \in Requests : r # cur => shown'[r] = shown[r]
  BY <1>1, <1>2
<1>4. Ahead = 2 + Len(nbuf) + Len(stream)
  BY <1>1 DEF Ahead
<1>5. /\ Ahead' \in Nat /\ Ahead' + 2 <= Ahead /\ cpc' # "show"
      /\ Ahead' + 2 = Ahead /\ Ahead' # 0 => nbuf' = nbuf /\ stream' = stream
      /\ Ahead' = 0 => Len(nbuf') = 0 /\ Len(stream') = 0
  <2>1. CASE AutoClose
    <3>1. Len(<<>>) = 0
      OBVIOUS
    <3>2. Ahead' = 0
      BY <1>1, <2>1, <3>1 DEF Ahead
    <3> QED BY <1>1, <1>2, <1>4, <2>1, <3>1, <3>2
  <2>2. CASE ~AutoClose
    <3>1. nbuf' = nbuf /\ stream' = stream /\ cpc' = "recv"
      BY <1>1, <2>2
    <3>2. Ahead' = Len(nbuf) + Len(stream)
      BY <3>1 DEF Ahead
    <3> QED BY <1>2, <1>4, <3>1, <3>2
  <2> QED BY <2>1, <2>2
<1>6. \A r \in DOMAIN answer : Len(answer[r]) \in Nat /\ shown[r] \in Nat /\ r \in Requests
  BY CountFacts
<1>7. 2 * shown[cur] + Ahead <= 2 * Len(answer[cur]) /\ Ahead \in Nat
  BY <1>2, CountFacts DEF Counted
<1>8. /\ 2 * (shown[cur] + 1) + Ahead' <= 2 * Len(answer[cur])
      /\ 2 * (shown[cur] + 1) + Ahead' = 2 * Len(answer[cur]) =>
            2 * shown[cur] + Ahead = 2 * Len(answer[cur]) /\ Ahead' + 2 = Ahead
  <2> DEFINE k == shown[cur]
             n == Len(answer[cur])
             a == Ahead
             b == Ahead'
  <2>1. k \in Nat /\ n \in Nat /\ a \in Nat /\ b \in Nat /\ b + 2 <= a /\ 2 * k + a <= 2 * n
    BY <1>2, <1>5, <1>7
  <2> HIDE DEF k, n, a, b
  <2>2. 2 * (k + 1) + b <= 2 * n
    BY <2>1
  <2>3. 2 * (k + 1) + b = 2 * n => 2 * k + a = 2 * n /\ b + 2 = a
    BY <2>1
  <2> QED BY <2>2, <2>3 DEF k, n, a, b
<1>9. /\ 2 * shown'[cur] + Ahead' <= 2 * Len(answer[cur])
      /\ Whole(cur, answer, cur, shown', Ahead') =>
            Whole(cur, answer, cur, shown, Ahead) /\ Ahead' + 2 = Ahead
  BY <1>3, <1>8 DEF Whole
<1>10. ASSUME Whole(cur, answer, cur, shown', Ahead')
       PROVE  RestRight((nbuf \o stream)', Len(answer[cur]), cur)
  <2>1. RestRight(nbuf \o stream, Len(answer[cur]), cur)
    BY <1>2, <1>9, <1>10 DEF Counted
  <2>2. CASE Ahead' # 0
    <3>1. nbuf' = nbuf /\ stream' = stream
      BY <1>5, <1>9, <1>10, <2>2
    <3> QED BY <2>1, <3>1
  <2>3. CASE Ahead' = 0
    <3>1. Len(nbuf') = 0 /\ Len(stream') = 0
      BY <1>5, <2>3
    <3>2. nbuf' \in Seq(Own') /\ stream' \in Seq(Own')
      BY OnSendPackAckA DEF AInv, Buffers
    <3>3. Len((nbuf \o stream)') = 0
      BY <3>1, <3>2
    <3> QED BY <3>3 DEF RestRight
  <2> QED BY <2>2, <2>3
<1>11. Counted'
  <2>1. \A r \in Requests \ DOMAIN answer' : shown'[r] = 0 /\ read'[r] = 0
    BY <1>1, <1>2, <1>3 DEF Counted
  <2> QED BY <1>1, <1>5, <1>9, <1>10, <2>1 DEF Counted
<1>12. ASSUME NEW r \in DOMAIN answer, Whole(r, answer', cur', shown', Ahead')
       PROVE  Whole(r, answer, cur, shown, Ahead)
  BY <1>1, <1>3, <1>6, <1>9, <1>12 DEF Whole
<1> QED BY <1>1, <1>11, <1>12 DEF CountStep

LEMMA MakeSocketCount ==
  ASSUME AInv, Counted, MakeSocket
  PROVE  CountStep
<1>1. /\ cpc = "get" /\ cur' = cur + 1 /\ cpc' = "connect"
      /\ answer' = answer /\ shown' = shown /\ read' = read
  BY DEF MakeSocket, serverVars, history
<1>2. nbuf = <<>> /\ stream = <<>> /\ Len(answer) = cur /\ cur \in Nat
  BY <1>1, AnswerFacts DEF AInv, Buffers, Answers
<1>3. cur' \notin DOMAIN answer
  BY <1>1, <1>2, AnswerFacts
<1>4. Ahead = 0
  BY <1>1, <1>2 DEF Ahead
<1>5. Counted'
  BY <1>1, <1>3 DEF Counted
<1>6. ASSUME NEW r \in DOMAIN answer, Whole(r, answer', cur', shown', Ahead')
      PROVE  Whole(r, answer, cur, shown, Ahead)
  <2>1. r # cur' /\ shown[r] \in Nat
    BY <1>3, CountFacts
  <2> QED BY <1>1, <1>4, <1>6, <2>1 DEF Whole
<1> QED BY <1>1, <1>5, <1>6 DEF CountStep

(* The first n packets of the answer a begin to be under way.               *)
LEMMA AnswerCount ==
  ASSUME AInv, Counted, cpc = "connect", cpc' # "show", cur' = cur, shown' = shown, read' = read,
         nbuf' = nbuf, NEW a \in Seq(Packets), answer' = Append(answer, a),
         NEW n \in 0..Len(a), stream' = UnitsOf(cur, n)
  PROVE  CountStep
<1>1. answer \in Seq(Seq(Packets)) /\ Len(answer) = cur - 1 /\ cur \in Nat /\ cur > 0 /\ nbuf = <<>>
      /\ cur \in 1..Len(asked)
  BY AnswerFacts DEF AInv, Types, ServerType, Answers, Buffers
<1>2. LongerBy(answer, answer', 1) /\ answer'[cur] = a
  BY <1>1, OneLonger
<1>3. /\ DOMAIN answer' = DOMAIN answer \cup {cur} /\ cur \notin DOMAIN answer
      /\ \A r \in DOMAIN answer : r \in DOMAIN answer' /\ answer'[r] = answer[r]
  BY <1>1, <1>2, AnswerFacts DEF LongerBy
<1>4. cur \in Requests
  BY <1>1, AnswerFacts, Bounds
<1>5. shown[cur] = 0
  BY <1>3, <1>4 DEF Counted
<1>6. n \in Nat /\ Len(a) \in Nat /\ n <= Len(a)
  OBVIOUS
<1>7. Len(stream') = 2 * n /\ \A i \in 1..(2 * n) : stream'[i] = UnitAt(cur, i)
  BY <1>6, UnitsFacts
<1>8. Ahead' = 2 * n
  <2>1. Len(nbuf') = 0
    BY <1>1
  <2> QED BY <1>6, <1>7, <2>1 DEF Ahead
<1>9. (nbuf \o stream)' = stream'
  <2>1. stream' \in Seq({UnitAt(cur, i) : i \in 1..(2 * n)})
    BY <1>6, UnitsFacts
  <2>2. <<>> \o stream' = stream'
    BY <2>1, ConcatEmptySeq
  <2> QED BY <1>1, <2>2
<1>10. Counted'
  <2>1. \A r \in Requests \ DOMAIN answer' : shown'[r] = 0 /\ read'[r] = 0
    BY <1>3 DEF Counted
  <2>2. 2 * shown'[cur] + Ahead' <= 2 * Len(answer'[cur])
    BY <1>2, <1>5, <1>6, <1>8
  <2>3. ASSUME Whole(cur, answer', cur, shown', Ahead')
        PROVE  RestRight(stream', Len(answer'[cur]), cur)
    <3>1. 2 * n = 2 * Len(a)
      BY <1>2, <1>5, <1>6, <1>8, <2>3 DEF Whole
    <3>2. \A i \in 1..Len(stream') : 2 * Len(a) - Len(stream') + i = i
      BY <1>6, <1>7, <3>1
    <3> QED BY <1>2, <1>7, <3>2 DEF RestRight
  <2> QED BY <1>9, <2>1, <2>2, <2>3 DEF Counted
<1>11. ASSUME NEW r \in DOMAIN answer, Whole(r, answer', cur', shown', Ahead')
       PROVE  Whole(r, answer, cur, shown, Ahead)
  BY <1>3, <1>11 DEF Whole
<1> QED BY <1>3, <1>10, <1>11 DEF CountStep

LEMMA SendCount ==
  ASSUME AInv, Counted, Send
  PROVE  CountStep
<1>1. /\ cpc = "connect" /\ RunCommand(asked[cur]) /\ cpc' = "recv"
      /\ \E n \in IF cur \in Faulty THEN 0..Len(answer'[cur]) ELSE {Len(answer'[cur])} :
            stream' = UnitsOf(cur, n)
      /\ cur' = cur /\ nbuf' = nbuf /\ shown' = shown /\ read' = read
  BY DEF Send, history
<1>2. /\ cur \in 1..Len(asked) /\ asked[cur] \in Asked
      /\ answer \in Seq(Seq(Packets)) /\ Len(answer) + 1 = cur
  <2>1. asked \in Seq(Asked) /\ answer \in Seq(Seq(Packets))
    BY DEF AInv, Types, WindowType, ServerType
  <2>2. cur \in 1..Len(asked) /\ Len(answer) + 1 = cur
    BY <1>1, AnswerFacts DEF AInv, Answers
  <2> QED BY <2>1, <2>2
<1>3. PICK a : answer' = Append(answer, a) /\ a \in Seq(Packets)
  BY <1>1, <1>2, RunCommandFacts
<1>4. answer'[cur] = a /\ Len(a) \in Nat
  BY <1>2, <1>3
<1>5. PICK n \in 0..Len(a) : stream' = UnitsOf(cur, n)
  BY <1>1, <1>4
<1>6. cpc' # "show"
  BY <1>1
<1> QED BY <1>1, <1>3, <1>5, <1>6, AnswerCount

LEMMA FailsCount ==
  ASSUME AInv, Counted, Fails
  PROVE  CountStep
<1>1. /\ cpc = "connect" /\ cpc' \in {"box", "told"} /\ answer' = Append(answer, <<>>)
      /\ cur' = cur /\ nbuf' = nbuf /\ stream' = stream /\ shown' = shown /\ read' = read
  BY DEF Fails, ConnectFails, SendFails, NoAnswer, history
<1>2. <<>> \in Seq(Packets) /\ 0 \in 0..Len(<<>>)
  OBVIOUS
<1>3. stream' = UnitsOf(cur, 0)
  <2>1. stream' = <<>>
    BY <1>1 DEF AInv, Buffers
  <2>2. UnitsOf(cur, 0) = <<>>
    BY DEF UnitsOf
  <2> QED BY <2>1, <2>2
<1>4. cpc' # "show"
  BY <1>1
<1> QED BY <1>1, <1>2, <1>3, <1>4, AnswerCount

(* Nothing is shown of a request that the box takes. *)
LEMMA BoxTakesCount ==
  ASSUME AInv, Counted, BoxTakes
  PROVE  CountStep
<1>1. /\ cpc = "box" /\ cpc' = "box" /\ cur < Len(asked) /\ nbuf' = nbuf /\ stream' = stream
      /\ shown' = shown /\ read' = read
  BY DEF BoxTakes, history
<1>2. /\ LongerBy(answer, answer', 1) /\ answer'[cur + 1] = <<>> /\ cur' = cur + 1
      /\ Len(answer) = cur
  BY BoxTakesA
<1>3. nbuf = <<>> /\ stream = <<>> /\ cur \in Nat
  BY <1>1, AnswerFacts DEF AInv, Buffers
<1>4. /\ DOMAIN answer' = DOMAIN answer \cup {cur + 1} /\ cur + 1 \notin DOMAIN answer
      /\ \A r \in DOMAIN answer : r \in DOMAIN answer' /\ answer'[r] = answer[r]
  BY <1>2, <1>3, AnswerFacts DEF LongerBy
<1>5. cur + 1 \in Requests
  BY <1>1, <1>3, AnswerFacts, Bounds
<1>6. shown[cur + 1] = 0
  BY <1>4, <1>5 DEF Counted
<1>7. Ahead = 0 /\ Ahead' = 0
  BY <1>1, <1>3 DEF Ahead
<1>8. Counted'
  <2>1. \A r \in Requests \ DOMAIN answer' : shown'[r] = 0 /\ read'[r] = 0
    BY <1>1, <1>4 DEF Counted
  <2>2. 2 * shown'[cur'] + Ahead' <= 2 * Len(answer'[cur'])
    BY <1>1, <1>2, <1>6, <1>7
  <2>3. (nbuf \o stream)' = <<>>
    BY <1>1, <1>3
  <2>4. RestRight((nbuf \o stream)', Len(answer'[cur']), cur')
    BY <2>3 DEF RestRight
  <2> QED BY <1>1, <2>1, <2>2, <2>4 DEF Counted
<1>9. ASSUME NEW r \in DOMAIN answer, Whole(r, answer', cur', shown', Ahead')
      PROVE  Whole(r, answer, cur, shown, Ahead)
  <2>1. shown[r] \in Nat /\ r # cur'
    BY <1>2, <1>4, CountFacts
  <2> QED BY <1>1, <1>4, <1>7, <1>9, <2>1 DEF Whole
<1> QED BY <1>4, <1>8, <1>9 DEF CountStep

(* What the window's thread takes from under way is lost to the other one.  *)
LEMMA DealCommandCount ==
  ASSUME AInv, Counted, DealCommand
  PROVE  CountStep
<1>1. /\ UNCHANGED <<cur, cpc, nbuf, pack>> /\ answer' = answer /\ shown' = shown
  BY DEF DealCommand, serverVars
<1>2. \A r \in Requests \ DOMAIN answer : read'[r] = read[r]
  <2>1. CASE BreakLoop
    BY <2>1 DEF BreakLoop
  <2>2. CASE \E b \in Seq(Known) : ParseMine(b)
    <3>1. PICK b \in Seq(Known) : ParseMine(b)
      BY <2>2
    <3>2. CASE PacketEnd(b) # 0
      <4> DEFINE i == PacketEnd(b)
      <4>1. read' = [read EXCEPT ![b[i].of] = @ + 1]
        BY <3>1, <3>2 DEF ParseMine, Assign
      <4>2. i \in 2..Len(b)
        BY <3>2, PacketEndFacts DEF EndsAt
      <4> HIDE DEF i
      <4>3. b[i] \in Known
        BY <4>2
      <4>4. b[i].of \in DOMAIN answer
        BY <4>3 DEF Known
      <4>5. read \in [Requests -> Nat]
        BY DEF AInv, Types, HistoryType
      <4> QED BY <4>1, <4>4, <4>5
    <3>3. CASE PacketEnd(b) = 0
      BY <3>1, <3>3 DEF ParseMine
    <3> QED BY <3>2, <3>3
  <2> QED BY <2>1, <2>2, DealCommandCases
<1>3. stream' = stream \/ (Len(stream') \in Nat /\ Len(stream') < Len(stream))
  <2>1. ASSUME NEW n \in 1..Len(stream), stream' = SubSeq(stream, n + 1, Len(stream))
        PROVE  Len(stream') \in Nat /\ Len(stream') < Len(stream)
    <3>1. stream \in Seq(Own) /\ Len(stream) \in Nat
      BY CountFacts
    <3>2. Len(stream') = Len(stream) - n
      BY <2>1, <3>1
    <3> QED BY <3>1, <3>2
  <2> QED BY <2>1 DEF DealCommand
<1>4. Ahead' \in Nat /\ Ahead' <= Ahead
      /\ (Ahead' = Ahead => (nbuf \o stream)' = nbuf \o stream)
  <2>1. Len(nbuf) \in Nat /\ Len(stream) \in Nat
    BY CountFacts
  <2> QED BY <1>1, <1>3, <2>1 DEF Ahead
<1> QED BY <1>1, <1>2, <1>4, LessAhead

(* Every step counts right. *)
LEMMA NextCount ==
  ASSUME AInv, Counted, [Next]_vars
  PROVE  CountStep
<1>1. CASE \/ AskDrives \/ \E h \in Items : LoadFileInfo(h)
           \/ \E e \in ToSet(list) : OnDeleteFile(e)
           \/ LoopTest \/ OnSocketClosed \/ CloseBox \/ UNCHANGED vars
  <2>1. /\ UNCHANGED <<cur, answer, shown>> /\ UNCHANGED <<nbuf, stream, pack>>
        /\ cpc' = "show" <=> cpc = "show"
        /\ read' = read
    BY <1>1 DEF AskDrives, LoadFileInfo, OnDeleteFile, LoopTest, OnSocketClosed, CloseBox,
                vars, netVars, serverVars, history
  <2> QED BY <2>1, QuietCount
<1> QED BY <1>1, MakeSocketCount, SendCount, FailsCount, BoxTakesCount, RecvCount, RecvEndCount,
           OnSendPackAckCount, DealCommandCount
           DEF Next, Network, Answered, LoadFileCurrent, Fails

-----------------------------------------------------------------------------
(* The list. *)

(* A request that was posted stays as it was. *)
LEMMA AppendKeeps ==
  ASSUME NEW T, NEW s \in Seq(T), NEW x, NEW y
  PROVE  /\ \A i \in DOMAIN s : i \in DOMAIN Append(s, x) /\ Append(s, x)[i] = s[i]
         /\ \A i \in DOMAIN s : i \in DOMAIN (s \o <<x, y>>) /\ (s \o <<x, y>>)[i] = s[i]
<1> DEFINE S == T \cup {x, y}
<1>1. s \in Seq(S) /\ x \in S /\ y \in S
  OBVIOUS
<1> HIDE DEF S
<1>2. LongerBy(s, Append(s, x), 1) /\ LongerBy(s, s \o <<x, y>>, 2)
  BY <1>1, OneLonger, TwoLonger
<1> QED BY <1>2 DEF LongerBy

LEMMA AskedGrows ==
  ASSUME AInv, [Next]_vars
  PROVE  /\ \A r \in DOMAIN asked : r \in DOMAIN asked' /\ asked'[r] = asked[r]
         /\ DOMAIN asked' \subseteq Requests
<1>1. asked \in Seq(Asked)
  BY DEF AInv, Types, WindowType
<1>2. DOMAIN asked' \subseteq Requests
  <2>1. AInv'
    BY NextA
  <2>2. asked' \in Seq(Asked) /\ Len(asked') <= MaxRequests
    BY <2>1 DEF AInv, Types, WindowType
  <2> QED BY <2>2, Bounds
<1>3. \/ asked' = asked
      \/ \E x : asked' = Append(asked, x)
      \/ \E x, y : asked' = asked \o <<x, y>>
  BY Zenon DEF Next, AskDrives, LoadFileInfo, OnDeleteFile, Network, Answered, LoadFileCurrent,
     MakeSocket,
     Send, SendFails, ConnectFails, BoxTakes, CloseBox, Recv, RecvEnd, OnSendPackAck,
     OnSocketClosed, LoopTest, DealCommand, windowVars, vars
<1>4. CASE \E x : asked' = Append(asked, x)
  <2>1. PICK x : asked' = Append(asked, x)
    BY <1>4
  <2>2. \A r \in DOMAIN asked : r \in DOMAIN Append(asked, x) /\ Append(asked, x)[r] = asked[r]
    BY <1>1, AppendKeeps
  <2> QED BY <1>2, <2>1, <2>2
<1>5. CASE \E x, y : asked' = asked \o <<x, y>>
  <2>1. PICK x, y : asked' = asked \o <<x, y>>
    BY <1>5
  <2>2. \A r \in DOMAIN asked : r \in DOMAIN (asked \o <<x, y>>)
                               /\ (asked \o <<x, y>>)[r] = asked[r]
    BY <1>1, AppendKeeps
  <2> QED BY <1>2, <2>1, <2>2
<1> QED BY <1>2, <1>3, <1>4, <1>5

(* LoadFileCurrent reads nothing of the listing that it asks for: until it  *)
(* is back the network thread cannot show how the deletion before it ended, *)
(* or a box has thrown the listing away.                                    *)
LEMMA NextNoneRead ==
  ASSUME AInv, Counted, NoneRead, [Next]_vars
  PROVE  NoneRead'
<1>1. /\ \A r \in DOMAIN asked : r \in DOMAIN asked' /\ asked'[r] = asked[r]
      /\ DOMAIN asked' \subseteq Requests
  BY AskedGrows
<1>2. CASE read' = read
  <2> SUFFICES ASSUME NEW r \in DOMAIN asked', asked'[r].cmd = "list",
                      \A s \in DOMAIN asked' : asked'[s].cmd = "delete" => s < r
               PROVE  read[r] = 0
    BY <1>2 DEF NoneRead
  <2>1. CASE r \in DOMAIN asked
    BY <1>1, <2>1 DEF NoneRead
  <2>2. CASE r \notin DOMAIN asked
    BY <1>1, <2>2, AnswerFacts DEF Counted
  <2> QED BY <2>1, <2>2
<1>3. CASE DealCommand
  <2>1. asked' = asked
    BY <1>3 DEF DealCommand
  <2>2. CASE BreakLoop
    BY <1>2, <2>2 DEF BreakLoop
  <2>3. CASE \E b \in Seq(Known) : ParseMine(b)
    <3>1. PICK b \in Seq(Known) : ParseMine(b)
      BY <2>3
    <3>2. CASE PacketEnd(b) = 0
      BY <1>2, <3>1, <3>2 DEF ParseMine
    <3>3. CASE PacketEnd(b) # 0
      <4> DEFINE i == PacketEnd(b)
                 o == b[i].of
      <4>1. read' = [read EXCEPT ![o] = @ + 1]
        BY <3>1, <3>3 DEF ParseMine, Assign
      <4>2. i \in 2..Len(b)
        BY <3>3, PacketEndFacts DEF EndsAt
      <4>3. o \in DOMAIN answer
        <5> HIDE DEF i
        <5>1. b[i] \in Known
          BY <4>2
        <5> QED BY <5>1 DEF Known
      <4> HIDE DEF o
      (* The listing asked for after the deletion has no packets. *)
      <4>4. /\ filling = Len(asked) /\ filling \in DOMAIN asked /\ asked[filling].cmd = "list"
            /\ asked[filling].item = 0 /\ o # filling
        <5>1. wpc # "idle"
          BY <1>3, DealCommandCases
        <5>2. answer[o] # <<>>
          <6> HIDE DEF i
          <6>1. b[i].k \in DOMAIN answer[b[i].of]
            BY <4>2 DEF Known
          <6> QED BY <6>1 DEF o
        <5>3. filling # 0
          BY <5>1, AnswerFacts DEF AInv, RequestsMade, HeldUp, Answers
        <5> QED BY <4>3, <5>1, <5>2, <5>3, AnswerFacts DEF AInv, RequestsMade, HeldUp
      <4>5. filling > 1 /\ asked[filling - 1].cmd = "delete"
        BY <4>4 DEF AInv, RequestsMade
      <4>6. filling - 1 \in DOMAIN asked /\ o <= filling - 1
        BY <4>3, <4>4, <4>5, AnswerFacts
      <4>7. read \in [Requests -> Nat]
        BY DEF AInv, Types, HistoryType
      <4> SUFFICES ASSUME NEW r \in DOMAIN asked, asked[r].cmd = "list",
                          \A s \in DOMAIN asked : asked[s].cmd = "delete" => s < r
                   PROVE  read'[r] = 0
        BY <2>1 DEF NoneRead
      <4>8. r # o
        BY <4>5, <4>6, AnswerFacts
      <4>9. read'[r] = read[r]
        BY <1>1, <2>1, <4>1, <4>7, <4>8
      <4> QED BY <4>9 DEF NoneRead
    <3> QED BY <3>2, <3>3
  <2> QED BY <1>3, <2>2, <2>3, DealCommandCases
<1>4. read' = read \/ DealCommand
  BY Zenon DEF Next, AskDrives, LoadFileInfo, OnDeleteFile, Network, Answered, LoadFileCurrent,
     MakeSocket,
     Send, SendFails, ConnectFails, BoxTakes, CloseBox, Recv, RecvEnd, OnSendPackAck,
     OnSocketClosed, LoopTest, history, vars
<1> QED BY <1>2, <1>3, <1>4

(* A file that is not in the list yet is put there. *)
LEMMA PutFile ==
  ASSUME NEW T, NEW e \in T, NEW l \in Seq(T), NEW r
  PROVE  /\ e.of = r => FilesOf(<<e>> \o l, r) = FilesOf(l, r) \cup {e.name}
         /\ e.of # r => FilesOf(<<e>> \o l, r) = FilesOf(l, r)
         /\ Once(l, r) /\ (e.of = r => e.name \notin FilesOf(l, r)) => Once(<<e>> \o l, r)
<1> DEFINE c == <<e>> \o l
<1>1. /\ c \in Seq(T) /\ Len(c) = Len(l) + 1 /\ c[1] = e
      /\ \A i \in 1..Len(l) : c[i + 1] = l[i]
      /\ \A i \in DOMAIN c : i = 1 \/ (i - 1 \in DOMAIN l /\ c[i] = l[i - 1])
  BY PutFirst
<1> HIDE DEF c
<1>2. Len(l) \in Nat /\ DOMAIN l = 1..Len(l) /\ DOMAIN c = 1..(Len(l) + 1) /\ 1 \in DOMAIN c
  BY <1>1
<1>3. ASSUME NEW i \in DOMAIN l PROVE i + 1 \in DOMAIN c /\ c[i + 1] = l[i]
  BY <1>1, <1>2
<1>4. FilesOf(l, r) \subseteq FilesOf(c, r)
  <2> SUFFICES ASSUME NEW i \in DOMAIN l, l[i].of = r PROVE l[i].name \in FilesOf(c, r)
    BY DEF FilesOf
  <2>1. i + 1 \in DOMAIN c /\ c[i + 1] = l[i]
    BY <1>3
  <2> QED BY <2>1 DEF FilesOf
<1>5. FilesOf(c, r) \subseteq FilesOf(l, r) \cup (IF e.of = r THEN {e.name} ELSE {})
  <2> SUFFICES ASSUME NEW i \in DOMAIN c, c[i].of = r
               PROVE  c[i].name \in FilesOf(l, r) \cup (IF e.of = r THEN {e.name} ELSE {})
    BY DEF FilesOf
  <2>1. i = 1 \/ (i - 1 \in DOMAIN l /\ c[i] = l[i - 1])
    BY <1>1
  <2>2. CASE i = 1
    BY <1>1, <2>2
  <2>3. CASE i - 1 \in DOMAIN l /\ c[i] = l[i - 1]
    BY <2>3 DEF FilesOf
  <2> QED BY <2>1, <2>2, <2>3
<1>6. e.of = r => e.name \in FilesOf(c, r)
  BY <1>1, <1>2 DEF FilesOf
<1>7. ASSUME Once(l, r), e.of = r => e.name \notin FilesOf(l, r)
      PROVE  Once(c, r)
  <2> SUFFICES ASSUME NEW i \in DOMAIN c, NEW j \in DOMAIN c, c[i].of = r, c[i] = c[j], i # j
               PROVE  FALSE
    BY DEF Once
  <2>1. ASSUME NEW k \in DOMAIN c, k # 1, c[1].of = r, c[1] = c[k] PROVE FALSE
    <3>1. k - 1 \in DOMAIN l /\ c[k] = l[k - 1]
      BY <1>1, <2>1
    <3>2. c[1].name \in FilesOf(l, r)
      BY <2>1, <3>1 DEF FilesOf
    <3> QED BY <1>1, <1>7, <2>1, <3>2
  <2>2. CASE i = 1
    BY <2>1, <2>2
  <2>3. CASE j = 1
    BY <2>1, <2>3
  <2>4. CASE i # 1 /\ j # 1
    <3>1. i - 1 \in DOMAIN l /\ c[i] = l[i - 1] /\ j - 1 \in DOMAIN l /\ c[j] = l[j - 1]
      BY <1>1, <2>4
    <3>2. i - 1 = j - 1
      BY <1>7, <3>1 DEF Once
    <3> QED BY <1>2, <3>2
  <2> QED BY <2>2, <2>3, <2>4
<1> QED BY <1>4, <1>5, <1>6, <1>7 DEF c

(* A listing has no two entries of one kind with one name.                  *)
LEMMA NamesApart ==
  ASSUME NEW a \in Seq(Entries \cup {End}), IsInjective(a),
         NEW i \in DOMAIN a, NEW j \in DOMAIN a, a[i].kind = a[j].kind, a[i].name = a[j].name
  PROVE  i = j
<1>1. a[i] \in Entries \cup {End} /\ a[j] \in Entries \cup {End}
  OBVIOUS
<1>2. a[i] = a[j]
  <2>1. CASE a[i] = End
    BY <1>1, <2>1, KindsApart
  <2>2. CASE a[j] = End
    BY <1>1, <2>2, KindsApart
  <2>3. CASE a[i] \in Entries /\ a[j] \in Entries
    BY <2>3 DEF Entries
  <2> QED BY <1>1, <2>1, <2>2, <2>3
<1> QED BY <1>2 DEF IsInjective

(* One more packet was shown. *)
LEMMA ShownOfMore ==
  ASSUME NEW kind, NEW a, NEW n \in Nat
  PROVE  /\ ShownOf(kind, a, 0) = {}
         /\ a[n + 1].kind = kind =>
               ShownOf(kind, a, n + 1) = ShownOf(kind, a, n) \cup {a[n + 1].name}
         /\ a[n + 1].kind # kind => ShownOf(kind, a, n + 1) = ShownOf(kind, a, n)
<1>1. 1..(n + 1) = 1..n \cup {n + 1} /\ 1..0 = {}
  OBVIOUS
<1> QED BY <1>1 DEF ShownOf

(* A step that leaves the list and shows nothing. *)
LEMMA FilesQuiet ==
  ASSUME AInv, Counted, FilesSoFar, CountStep,
         filling' = filling, list' = list, shown' = shown, DOMAIN answer' \subseteq Requests
  PROVE  FilesSoFar'
<1> SUFFICES ASSUME filling \in DOMAIN answer', Whole(filling, answer', cur', shown', Ahead')
             PROVE  /\ FilesOf(list, filling) = ShownOf("file", answer'[filling], shown[filling])
                    /\ Once(list, filling)
  BY DEF FilesSoFar
<1>1. CASE filling \in DOMAIN answer
  BY <1>1 DEF FilesSoFar, CountStep
<1>2. CASE filling \notin DOMAIN answer
  <2>1. filling \in Requests /\ filling # 0
    BY Bounds
  <2>2. shown[filling] = 0
    BY <1>2, <2>1 DEF Counted
  <2>3. \A i \in DOMAIN list : list[i].of # filling
    BY <1>2, <2>1 DEF AInv, ListMade, EntryOK
  <2>4. FilesOf(list, filling) = {} /\ Once(list, filling)
    BY <2>3 DEF FilesOf, Once
  <2> QED BY <2>2, <2>4, ShownOfMore
<1> QED BY <1>1, <1>2

(* A packet of the listing that fills the list adds the file that it is. *)
LEMMA OnSendPackAckFiles ==
  ASSUME AInv, Counted, FilesSoFar, OnSendPackAck
  PROVE  FilesSoFar'
<1> DEFINE e == [of |-> cur, name |-> pack.name]
           T == [of : 0..MaxRequests, name : Text]
<1>1. /\ cpc = "show" /\ shown' = [shown EXCEPT ![cur] = @ + 1]
      /\ cur' = cur /\ answer' = answer /\ filling' = filling
  BY ShowCases
<1>2. /\ cur \in Requests /\ cur \in DOMAIN answer /\ shown \in [Requests -> Nat]
      /\ shown[cur] \in Nat
  BY <1>1, ShownPacket, CountFacts DEF AInv, Types, HistoryType
<1>3. /\ shown'[cur] = shown[cur] + 1
      /\ \A r \in DOMAIN answer : r # cur => shown'[r] = shown[r]
  BY <1>1, <1>2, CountFacts
<1>4. CountStep
  BY OnSendPackAckCount
<1>5. list \in Seq(T)
  BY DEF AInv, Types, WindowType
<1>6. IF pack.kind = "file"
      THEN list' = <<e>> \o list /\ asked[cur].cmd = "list" /\ pack.name \in Name /\ e \in T
      ELSE list' = list
  <2>1. pack.kind = "file" => pack.name \in Name
    BY ListThen
  <2>2. pack.kind = "file" => e \in T
    BY <1>2, <2>1, Bounds DEF Text
  <2> QED BY <2>2, ListThen
<1>7. e.of = cur /\ e.name = pack.name
  OBVIOUS
<1> HIDE DEF e, T
<1> SUFFICES ASSUME filling \in DOMAIN answer, Whole(filling, answer', cur', shown', Ahead')
             PROVE  /\ FilesOf(list', filling) = ShownOf("file", answer[filling], shown'[filling])
                    /\ Once(list', filling)
  BY <1>1 DEF FilesSoFar
<1>8. Whole(filling, answer, cur, shown, Ahead)
  BY <1>4 DEF CountStep
<1>9. /\ FilesOf(list, filling) = ShownOf("file", answer[filling], shown[filling])
      /\ Once(list, filling)
  BY <1>8 DEF FilesSoFar
<1>10. CASE cur # filling
  <2>1. shown'[filling] = shown[filling]
    BY <1>3, <1>10
  <2>2. CASE pack.kind = "file"
    <3>1. list' = <<e>> \o list /\ e \in T /\ e.of # filling
      BY <1>6, <1>7, <1>10, <2>2
    <3>2. FilesOf(<<e>> \o list, filling) = FilesOf(list, filling) /\ Once(<<e>> \o list, filling)
      BY <1>5, <1>9, <3>1, PutFile
    <3> QED BY <1>9, <2>1, <3>1, <3>2
  <2>3. CASE pack.kind # "file"
    BY <1>6, <1>9, <2>1, <2>3
  <2> QED BY <2>2, <2>3
<1>11. CASE cur = filling
  <2> DEFINE a == answer[cur]
             n == shown[cur]
  <2>1. pack = a[n + 1] /\ n + 1 \in DOMAIN a /\ n \in Nat
    <3>1. pack = answer[cur][shown[cur] + 1] /\ 2 * shown[cur] + Ahead <= 2 * Len(answer[cur])
      BY <1>1, <1>2, <1>8, <1>11 DEF Counted
    <3>2. Len(nbuf) \in Nat /\ Len(stream) \in Nat /\ Len(answer[cur]) \in Nat
          /\ DOMAIN answer[cur] = 1..Len(answer[cur])
      BY <1>2, CountFacts
    <3>3. Ahead >= 2 /\ Ahead \in Nat
      BY <1>1, <3>2 DEF Ahead
    <3>4. shown[cur] + 1 \in 1..Len(answer[cur])
      BY <1>2, <3>1, <3>2, <3>3
    <3> QED BY <1>2, <3>1, <3>2, <3>4
  <2>2. shown'[filling] = n + 1 /\ FilesOf(list, cur) = ShownOf("file", a, n) /\ Once(list, cur)
    BY <1>3, <1>9, <1>11
  <2>3. CASE pack.kind = "file"
    <3>1. a \in Seq(Entries \cup {End}) /\ IsInjective(a)
      BY <1>2, <1>6, <2>3 DEF AInv, Answers, AnswerRight, AnswerTo
    <3> HIDE DEF a, n
    <3>2. pack.name \notin ShownOf("file", a, n)
      <4> SUFFICES ASSUME NEW k \in 1..n, a[k].kind = "file", a[k].name = pack.name PROVE FALSE
        BY DEF ShownOf
      <4>1. k \in DOMAIN a /\ k # n + 1
        BY <2>1, <3>1
      <4> QED BY <2>1, <2>3, <3>1, <4>1, NamesApart
    <3>3. FilesOf(<<e>> \o list, cur) = FilesOf(list, cur) \cup {pack.name}
          /\ Once(<<e>> \o list, cur)
      BY <1>5, <1>6, <1>7, <2>2, <2>3, <3>2, PutFile
    <3>4. ShownOf("file", a, n + 1) = ShownOf("file", a, n) \cup {pack.name}
      BY <2>1, <2>3, ShownOfMore
    <3> QED BY <1>6, <1>11, <2>2, <2>3, <3>3, <3>4 DEF a
  <2>4. CASE pack.kind # "file"
    <3> HIDE DEF a, n
    <3>1. ShownOf("file", a, n + 1) = ShownOf("file", a, n)
      BY <2>1, <2>4, ShownOfMore
    <3> QED BY <1>6, <1>11, <2>2, <2>4, <3>1 DEF a
  <2> QED BY <2>3, <2>4
<1> QED BY <1>10, <1>11

LEMMA NextFiles ==
  ASSUME AInv, Counted, FilesSoFar, [Next]_vars
  PROVE  FilesSoFar'
<1>1. CountStep /\ AInv'
  BY NextCount, NextA
<1>2. DOMAIN answer' \subseteq Requests
  <2>1. /\ answer' \in Seq(Seq(Packets)) /\ Len(answer') <= cur' /\ cur' \in 0..Len(asked')
        /\ asked' \in Seq(Asked) /\ Len(asked') <= MaxRequests
    BY <1>1 DEF AInv, Types, ServerType, NetType, WindowType
  <2> QED BY <2>1, Bounds
<1>3. CASE LoopTest
  <2>1. /\ wpc # "idle" /\ answer' = answer /\ filling' = filling /\ shown' = shown
        /\ UNCHANGED <<cur, cpc, nbuf, stream>>
        /\ list' \in {list, <<[of |-> m_packet'.of, name |-> m_packet'.pkt.name]>> \o list}
    BY <1>3 DEF LoopTest, netVars, serverVars, history
  <2>2. CASE filling \notin DOMAIN answer
    BY <2>1, <2>2 DEF FilesSoFar
  (* A box has thrown away the listing asked for: no packet is from it. *)
  <2>3. CASE filling \in DOMAIN answer
    <3> DEFINE e == [of |-> m_packet'.of, name |-> m_packet'.pkt.name]
               T == [of : 0..MaxRequests, name : Text]
               S == T \cup {e}
    <3>1. answer[filling] = <<>> /\ filling # 0
      BY <2>1, <2>3, AnswerFacts DEF AInv, RequestsMade, HeldUp
    <3>2. m_packet'.of # filling
      BY <1>1, <2>1, <3>1 DEF AInv, Buffers, ToSet
    <3>3. list \in Seq(T)
      BY DEF AInv, Types, WindowType
    <3>4. list \in Seq(S) /\ e \in S
      <4> HIDE DEF e, T
      <4> QED BY <3>3
    <3>5. /\ FilesOf(<<e>> \o list, filling) = FilesOf(list, filling)
          /\ Once(list, filling) => Once(<<e>> \o list, filling)
      <4>1. e.of # filling
        BY <3>2
      <4> HIDE DEF e, S
      <4> QED BY <3>4, <4>1, PutFile
    <3>6. Ahead' = Ahead
      BY <2>1 DEF Ahead
    <3> HIDE DEF e
    <3>7. FilesOf(list', filling) = FilesOf(list, filling)
          /\ (Once(list, filling) => Once(list', filling))
      BY <2>1, <3>5 DEF e
    <3> QED BY <2>1, <3>6, <3>7 DEF FilesSoFar
  <2> QED BY <2>2, <2>3
<1>4. CASE (\E h \in Items : LoadFileInfo(h)) \/ \E e \in ToSet(list) : OnDeleteFile(e)
  <2>1. answer' = answer /\ filling' \in {Len(asked) + 1, Len(asked) + 2}
    BY <1>4, Zenon DEF LoadFileInfo, OnDeleteFile, Clear, serverVars
  <2>2. filling' \notin DOMAIN answer
    BY <2>1, AnswerFacts
  <2> QED BY <2>1, <2>2 DEF FilesSoFar
<1>5. CASE OnSendPackAck
  BY <1>5, OnSendPackAckFiles
<1>6. CASE filling' = filling /\ list' = list /\ shown' = shown
  BY <1>1, <1>2, <1>6, FilesQuiet
<1>7. \/ LoopTest \/ (\E h \in Items : LoadFileInfo(h)) \/ (\E e \in ToSet(list) : OnDeleteFile(e))
      \/ OnSendPackAck \/ (filling' = filling /\ list' = list /\ shown' = shown)
  BY Zenon DEF Next, AskDrives, Network, Answered, LoadFileCurrent, MakeSocket, Send, SendFails,
     ConnectFails, BoxTakes, CloseBox, Recv, RecvEnd, OnSocketClosed, DealCommand, windowVars, history, vars
<1> QED BY <1>3, <1>4, <1>5, <1>6, <1>7

FilesInv == AInv /\ Counted /\ NoneRead /\ FilesSoFar

LEMMA AlwaysFiles == Spec => []FilesInv
<1>1. Init => FilesInv
  <2> SUFFICES ASSUME Init PROVE FilesInv
    OBVIOUS
  <2>1. AInv
    BY InitA
  <2>2. /\ asked = <<>> /\ cur = 0 /\ answer = <<>> /\ filling = 0
        /\ shown = [r \in Requests |-> 0] /\ read = [r \in Requests |-> 0]
    BY DEF Init
  <2>3. Counted /\ NoneRead /\ FilesSoFar
    BY <2>2 DEF Counted, NoneRead, FilesSoFar
  <2> QED BY <2>1, <2>3 DEF FilesInv
<1>2. FilesInv /\ [Next]_vars => FilesInv'
  <2> SUFFICES ASSUME FilesInv, [Next]_vars PROVE FilesInv'
    OBVIOUS
  <2>1. AInv'
    BY NextA DEF FilesInv
  <2>2. Counted'
    BY NextCount DEF FilesInv, CountStep
  <2>3. NoneRead'
    BY NextNoneRead DEF FilesInv
  <2>4. FilesSoFar'
    BY NextFiles DEF FilesInv
  <2> QED BY <2>1, <2>2, <2>3, <2>4 DEF FilesInv
<1> QED BY <1>1, <1>2, PTL DEF Spec

(* What has been shown completely was not lost. *)
LEMMA ShownWhole ==
  ASSUME AInv, Counted, NEW r \in DOMAIN answer, shown[r] = Len(answer[r])
  PROVE  Whole(r, answer, cur, shown, Ahead)
<1>1. Ahead \in Nat /\ Len(answer[r]) \in Nat /\ shown[r] \in Nat
  BY CountFacts
<1>2. r = cur => 2 * shown[r] + Ahead <= 2 * Len(answer[r])
  BY DEF Counted
<1> QED BY <1>1, <1>2 DEF Whole

(* When all were shown those are all there are. *)
LEMMA AllOf ==
  ASSUME NEW T, NEW a \in Seq(T), NEW kind
  PROVE  ShownOf(kind, a, Len(a)) = Names(kind, a)
BY DEF ShownOf, Names, ToSet

(* The list shows the folder.  Whatever was lost on the way, read by the    *)
(* window's own thread or clicked meanwhile: if all packets of the listing  *)
(* that the list was cleared for were given to OnSendPackAck, each file of  *)
(* it is in the list once, and nothing else is there unless another listing *)
(* was under way; and LoadFileCurrent reads nothing of a listing asked for  *)
(* after the last deletion.                                                 *)
THEOREM FilesShownHolds == Spec => []FilesShown
<1>1. FilesInv => FilesShown
  <2> SUFFICES ASSUME FilesInv PROVE FilesShown
    OBVIOUS
  <2> DEFINE mine   == {e \in ToSet(list) : e.of = filling}
             others == ToSet(list) \ mine
  <2>1. AInv /\ Counted /\ NoneRead /\ FilesSoFar
    BY DEF FilesInv
  <2>2. ASSUME filling \in DOMAIN answer, AllShown(filling)
        PROVE  /\ {e.name : e \in mine} = Names("file", answer[filling])
               /\ \A i, j \in DOMAIN list : list[i].of = filling /\ list[i] = list[j] => i = j
    <3>1. shown[filling] = Len(answer[filling])
      BY <2>2 DEF AllShown
    <3>2. /\ FilesOf(list, filling) = ShownOf("file", answer[filling], shown[filling])
          /\ Once(list, filling)
      BY <2>1, <2>2, <3>1, ShownWhole DEF FilesSoFar
    <3>3. ShownOf("file", answer[filling], Len(answer[filling])) = Names("file", answer[filling])
      <4>1. answer[filling] \in Seq(Packets)
        BY <2>1, <2>2, CountFacts
      <4> QED BY <4>1, AllOf
    <3>4. FilesOf(list, filling) = {e.name : e \in mine}
      BY DEF FilesOf, ToSet
    <3> QED BY <3>1, <3>2, <3>3, <3>4 DEF Once
  <2>3. Unmixed => others = {}
    BY <2>1 DEF AInv, ListMade, ToSet
  <2> QED BY <2>1, <2>2, <2>3 DEF FilesShown, NoneRead
<1> QED BY <1>1, AlwaysFiles, PTL

-----------------------------------------------------------------------------
(* The tree. *)

TreeRight == LoadedRight /\ FoldersSoFar /\ RootRight

(* Where two trees have the same items under h they show the same there.    *)
LEMMA SameUnder ==
  ASSUME NEW t, NEW u, NEW h, Under(u, h) = Under(t, h), \A k \in Under(t, h) : u[k] = t[k]
  PROVE  TextsUnder(u, h) = TextsUnder(t, h) /\ (Apart(t, h) => Apart(u, h))
<1> HIDE DEF Under
<1> QED BY DEF TextsUnder, Apart

(* An item that was emptied. *)
LEMMA NothingUnder ==
  ASSUME NEW t, NEW h, Under(t, h) = {}
  PROVE  TextsUnder(t, h) = {} /\ Apart(t, h)
BY DEF TextsUnder, Apart

(* Only a click makes an item wait for a listing.                           *)
LEMMA UnfinishedLess ==
  ASSUME AInv, [Next]_vars, ~ \E h \in Items : LoadFileInfo(h)
  PROVE  \A r \in Unfinished' : r \in Unfinished \/ asked'[r].item = 0
<1>1. CASE AskDrives
  <2>1. asked' = Append(asked, Request("drives", <<>>, 0)) /\ cur' = cur /\ cpc' = cpc
    BY <1>1 DEF AskDrives, netVars
  <2>2. asked \in Seq(Asked) /\ Request("drives", <<>>, 0) \in Asked
        /\ Request("drives", <<>>, 0).cmd = "drives"
    BY RequestsType DEF AInv, Types, WindowType, Request
  <2>3. LongerBy(asked, asked', 1) /\ asked'[Len(asked) + 1].cmd = "drives"
    BY <2>1, <2>2, OneLonger
  <2>4. DOMAIN asked' = DOMAIN asked \cup {Len(asked) + 1}
    BY <2>3, AnswerFacts DEF LongerBy
  <2> QED BY <2>1, <2>3, <2>4 DEF Unfinished, LongerBy
<1>2. CASE \E e \in ToSet(list) : OnDeleteFile(e)
  <2>1. PICK e \in ToSet(list) : OnDeleteFile(e)
    BY <1>2
  <2>2. PICK p, q : asked' = asked \o <<p, q>> /\ p.cmd = "delete" /\ q.item = 0
    <3> DEFINE p == [cmd |-> "delete", path |-> Append(GetPath(sel), e.name), item |-> 0,
                         of |-> e.of,
                     plain |-> IF sel = clicked /\ (e.of = filling \/ Unmixed) THEN "yes" ELSE "no"]
               q == Request("list", GetPath(sel), 0)
    <3>1. asked' = asked \o <<p, q>>
      BY <2>1 DEF OnDeleteFile
    <3>2. p.cmd = "delete" /\ q.item = 0
      BY DEF Request
    <3> HIDE DEF p, q
    <3> QED BY <3>1, <3>2
  <2>3. cur' = cur /\ cpc' = cpc
    BY <2>1 DEF OnDeleteFile, netVars
  <2> DEFINE S == Asked \cup {p, q}
  <2>4. asked \in Seq(S) /\ p \in S /\ q \in S
    BY DEF AInv, Types, WindowType
  <2> HIDE DEF S
  <2>5. LongerBy(asked, asked', 2) /\ asked'[Len(asked) + 1] = p /\ asked'[Len(asked) + 2] = q
    BY <2>2, <2>4, TwoLonger
  <2>6. DOMAIN asked' = DOMAIN asked \cup {Len(asked) + 1, Len(asked) + 2}
    BY <2>5, AnswerFacts DEF LongerBy
  <2> QED BY <2>2, <2>3, <2>5, <2>6 DEF Unfinished, LongerBy
<1>3. CASE MakeSocket \/ BoxTakes
  <2>1. asked' = asked /\ cur' = cur + 1 /\ (cpc' # "get" => cpc # "get" \/ cur < Len(asked))
    BY <1>3 DEF MakeSocket, BoxTakes, windowVars
  <2> QED BY <2>1, AnswerFacts DEF Unfinished
<1>4. CASE asked' = asked /\ cur' = cur /\ (cpc' # "get" => cpc # "get")
  BY <1>4 DEF Unfinished
<1>5. \/ AskDrives \/ (\E e \in ToSet(list) : OnDeleteFile(e)) \/ (MakeSocket \/ BoxTakes)
      \/ asked' = asked /\ cur' = cur /\ (cpc' # "get" => cpc # "get")
  BY DEF Next, Network, Answered, LoadFileCurrent, Send, SendFails, ConnectFails, CloseBox,
         Recv, RecvEnd,
         OnSendPackAck, OnSocketClosed, LoopTest, DealCommand, windowVars, netVars, vars
<1> QED BY <1>1, <1>2, <1>3, <1>4, <1>5

LEMMA AwaitedLess ==
  ASSUME AInv, [Next]_vars, \A r \in Unfinished' : r \in Unfinished \/ asked'[r].item = 0
  PROVE  Awaited' \subseteq Awaited
<1>1. \A r \in Unfinished : asked'[r] = asked[r]
  BY AskedGrows DEF Unfinished
<1> QED BY <1>1 DEF Awaited

(* A step that leaves the tree, and what was shown.                         *)
LEMMA QuietTree ==
  ASSUME FilesInv, TreeRight, [Next]_vars, UNCHANGED <<tree, loaded, spoilt, shown, stray>>,
         \A r \in Unfinished' : r \in Unfinished \/ asked'[r].item = 0
  PROVE  TreeRight'
<1>1. AInv /\ Counted /\ CountStep /\ LoadedRight /\ FoldersSoFar /\ RootRight
  BY NextCount DEF FilesInv, TreeRight
<1>2. \A r \in DOMAIN asked : r \in DOMAIN asked' /\ asked'[r] = asked[r]
  BY <1>1, AskedGrows
<1>3. DOMAIN tree \subseteq Items
  BY <1>1 DEF AInv, TreeOK, TreeType
<1>4. LoadedRight'
  <2>1. ASSUME NEW h \in DOMAIN tree, loaded[h] # 0
        PROVE  /\ loaded[h] \in DOMAIN asked' /\ asked'[loaded[h]].cmd = "list"
               /\ asked'[loaded[h]].item = h /\ asked'[loaded[h]].path = PathIn(tree, h)
    BY <1>1, <1>2, <2>1 DEF LoadedRight
  <2>2. ASSUME NEW h \in DOMAIN tree \ spoilt, NEW r \in Unfinished', asked'[r].item = h
        PROVE  r = loaded[h]
    <3>1. r \in Unfinished
      BY <1>3, <2>2, Bounds
    <3> QED BY <1>1, <1>2, <2>2, <3>1 DEF LoadedRight, Unfinished
  <2> QED BY <2>1, <2>2 DEF LoadedRight
<1>5. FoldersSoFar'
  <2> SUFFICES ASSUME NEW h \in DOMAIN tree \ spoilt, loaded[h] # 0
               PROVE  HasFolders(tree, h, loaded[h], answer', cur', shown', Ahead')
    BY DEF FoldersSoFar
  <2>1. CASE loaded[h] \in DOMAIN answer
    BY <1>1, <2>1 DEF FoldersSoFar, HasFolders, CountStep
  <2>2. CASE loaded[h] \notin DOMAIN answer
    <3>1. Under(tree, h) = {}
      BY <1>1, <2>2 DEF FoldersSoFar, HasFolders
    <3>2. loaded[h] \in Requests
      BY <1>1, AnswerFacts, Bounds DEF LoadedRight
    <3>3. shown[loaded[h]] = 0
      BY <1>1, <2>2, <3>2 DEF Counted
    <3> QED BY <3>1, <3>3, NothingUnder, ShownOfMore DEF HasFolders
  <2> QED BY <2>1, <2>2
<1>6. RootRight'
  <2>1. Awaited' \subseteq Awaited
    BY <1>1, AwaitedLess
  <2>2. NoDeletes' => NoDeletes
    BY <1>2 DEF NoDeletes
  <2> QED BY <1>1, <2>1, <2>2 DEF RootRight
<1> QED BY <1>4, <1>5, <1>6 DEF TreeRight

(* As long as nothing was lost the next packet of the answer is shown.      *)
LEMMA NextPacket ==
  ASSUME AInv, Counted, cpc = "show", Whole(cur, answer, cur, shown, Ahead)
  PROVE  /\ shown[cur] \in Nat /\ shown[cur] + 1 \in DOMAIN answer[cur]
         /\ pack = answer[cur][shown[cur] + 1]
<1>1. /\ cur \in Requests /\ cur \in DOMAIN answer /\ shown[cur] \in Nat
      /\ Len(nbuf) \in Nat /\ Len(stream) \in Nat /\ Len(answer[cur]) \in Nat
      /\ DOMAIN answer[cur] = 1..Len(answer[cur])
  BY ShownPacket, CountFacts
<1>2. pack = answer[cur][shown[cur] + 1] /\ 2 * shown[cur] + Ahead <= 2 * Len(answer[cur])
  BY <1>1 DEF Counted
<1>3. Ahead >= 2 /\ Ahead \in Nat
  BY <1>1 DEF Ahead
<1>4. shown[cur] + 1 \in 1..Len(answer[cur])
  BY <1>1, <1>2, <1>3
<1> QED BY <1>1, <1>2, <1>4

(* Asking for the drives puts a new tree in place of the old one.           *)
LEMMA DrivesTree ==
  ASSUME FilesInv, TreeRight, Str2Tree, Unfinished' \subseteq Unfinished, asked' = asked
  PROVE  TreeRight'
<1>1. DOMAIN tree' \subseteq Items /\ 0 \notin Items
  BY Str2TreeFacts, Bounds DEF TreeOK, TreeType
<1>2. \A h \in DOMAIN tree' : loaded'[h] = 0
  BY <1>1, Str2TreeFacts DEF NewHistory
<1>3. Awaited' \subseteq Awaited
  BY DEF Awaited
<1>4. LoadedRight'
  <2>1. ASSUME NEW h \in DOMAIN tree', h \notin spoilt' PROVE h \notin Awaited
    BY <2>1, Str2TreeFacts DEF NewHistory
  <2>2. ASSUME NEW h \in DOMAIN tree', h \notin spoilt', NEW r \in Unfinished', asked[r].item = h
        PROVE  FALSE
    BY <1>1, <2>1, <2>2 DEF Awaited
  <2> QED BY <1>2, <2>2 DEF LoadedRight
<1>5. FoldersSoFar'
  BY <1>2 DEF FoldersSoFar
<1>6. RootRight'
  <2> SUFFICES ASSUME stray' = "no", NoDeletes'
               PROVE  /\ Awaited' \subseteq DOMAIN tree'
                      /\ TextsUnder(tree', 0) \subseteq ToSet(Drives) /\ Apart(tree', 0)
    BY DEF RootRight
  <2>1. stray = "no" /\ DOMAIN tree \cap Awaited = {}
    BY Str2TreeFacts DEF Gone
  <2>2. Awaited \subseteq DOMAIN tree
    BY <2>1 DEF TreeRight, RootRight, NoDeletes
  <2>3. TextsUnder(tree', 0) \subseteq ToSet(Drives) /\ Apart(tree', 0)
    BY Str2TreeFacts, DrivesFacts DEF TextsUnder, Apart, Under
  <2> QED BY <1>3, <2>1, <2>2, <2>3
<1> QED BY <1>4, <1>5, <1>6 DEF TreeRight

(* A packet that is no folder leaves the tree.                              *)
LEMMA NoFolderTree ==
  ASSUME FilesInv, TreeRight, OnSendPackAck, pack.kind # "dir",
         UNCHANGED <<tree, loaded, spoilt, stray>>, Unfinished' \subseteq Unfinished
  PROVE  TreeRight'
<1>1. /\ AInv /\ Counted /\ LoadedRight /\ FoldersSoFar /\ RootRight
      /\ asked' = asked /\ answer' = answer /\ cur' = cur /\ cpc = "show"
      /\ shown' = [shown EXCEPT ![cur] = @ + 1]
  BY ShowCases DEF FilesInv, TreeRight
<1>2. CountStep
  BY <1>1, OnSendPackAckCount
<1>3. LoadedRight'
  BY <1>1 DEF LoadedRight
<1>4. RootRight'
  <2>1. Awaited' \subseteq Awaited
    BY <1>1 DEF Awaited
  <2> QED BY <1>1, <2>1 DEF RootRight, NoDeletes
<1>5. FoldersSoFar'
  <2> SUFFICES ASSUME NEW h \in DOMAIN tree \ spoilt, loaded[h] # 0
               PROVE  HasFolders(tree, h, loaded[h], answer', cur', shown', Ahead')
    BY <1>1 DEF FoldersSoFar
  <2> DEFINE r == loaded[h]
  <2>1. r \notin DOMAIN answer => Under(tree, h) = {}
    BY <1>1 DEF FoldersSoFar, HasFolders
  <2> SUFFICES ASSUME r \in DOMAIN answer, Whole(r, answer', cur', shown', Ahead')
               PROVE  /\ TextsUnder(tree, h) = ShownOf("dir", answer[r], shown'[r])
                      /\ Apart(tree, h)
    BY <1>1, <2>1 DEF HasFolders
  <2>2. Whole(r, answer, cur, shown, Ahead)
    BY <1>2 DEF CountStep
  <2>3. TextsUnder(tree, h) = ShownOf("dir", answer[r], shown[r]) /\ Apart(tree, h)
    BY <1>1, <2>2 DEF FoldersSoFar, HasFolders
  <2>4. r \in Requests /\ shown \in [Requests -> Nat]
    BY <1>1, CountFacts DEF AInv, Types, HistoryType
  <2> HIDE DEF r
  <2>5. CASE r # cur
    BY <1>1, <2>3, <2>4, <2>5
  <2>6. CASE r = cur
    <3>1. /\ shown[cur] \in Nat /\ pack = answer[cur][shown[cur] + 1]
          /\ shown'[cur] = shown[cur] + 1
      BY <1>1, <2>2, <2>4, <2>6, NextPacket
    <3>2. ShownOf("dir", answer[cur], shown[cur] + 1) = ShownOf("dir", answer[cur], shown[cur])
      BY <3>1, ShownOfMore
    <3> QED BY <2>3, <2>6, <3>1, <3>2
  <2> QED BY <2>5, <2>6
<1> QED BY <1>3, <1>4, <1>5 DEF TreeRight

(* A folder is put under the item that the present request is for.          *)
LEMMA FolderTree ==
  ASSUME FilesInv, TreeRight, OnSendPackAck, pack.kind = "dir", Unfinished' \subseteq Unfinished
  PROVE  TreeRight'
<1> DEFINE hParent == asked[cur].item
           D == DOMAIN tree' \ DOMAIN tree
<1>1. /\ AInv /\ Counted /\ LoadedRight /\ FoldersSoFar /\ RootRight
      /\ asked' = asked /\ answer' = answer /\ cur' = cur /\ cpc = "show"
      /\ shown' = [shown EXCEPT ![cur] = @ + 1]
  BY ShowCases DEF FilesInv, TreeRight
<1>2. CountStep
  BY <1>1, OnSendPackAckCount
<1>3. /\ cur \in DOMAIN asked /\ cur \in DOMAIN answer /\ pack \in Packets
      /\ asked[cur].cmd = "list" <=> pack \in Entries \cup {End}
      /\ asked[cur].cmd = "list" => cur \in Unfinished
  BY <1>1, ShownPacket
<1>4. pack.name \in Name /\ pack \in Entries
  BY <1>3, KindsApart
<1>5. asked[cur].cmd = "list" /\ cur \in Unfinished
  BY <1>3, <1>4
<1>6. InsertFolder(pack.name, hParent) /\ stray' = stray
  <2>1. UpdateFileInfo(pack, hParent)
    BY <1>1, ShowCases
  <2> QED BY <2>1 DEF UpdateFileInfo, IsFolder
<1> HIDE DEF hParent
<1>7. /\ TreeOK(tree') /\ DOMAIN tree \subseteq DOMAIN tree'
      /\ \A k \in DOMAIN tree : tree'[k] = tree[k] /\ PathIn(tree', k) = PathIn(tree, k)
      /\ NewHistory(D)
      /\ hParent \in DOMAIN tree \cup {0} =>
            \E x, y : /\ x # y /\ D = {x, y}
                      /\ tree'[x] = Item(pack.name, hParent) /\ tree'[y] = Item(NoName, x)
      /\ hParent \notin DOMAIN tree \cup {0} => \A x \in D : tree'[x].up = 0
  <2>1. pack.name \in Text /\ TreeOK(tree)
    BY <1>1, <1>4 DEF Text, AInv
  <2> QED BY <1>6, <2>1, InsertFolderFacts
<1>8. DOMAIN tree' \subseteq Items /\ 0 \notin Items
  BY <1>7, Bounds DEF TreeOK, TreeType
<1>9. /\ \A h \in D : loaded'[h] = 0 /\ (h \notin spoilt' => h \notin Awaited)
      /\ \A h \in DOMAIN tree : loaded'[h] = loaded[h] /\ (h \notin spoilt' => h \notin spoilt)
  BY <1>7, <1>8 DEF NewHistory
<1>10. LoadedRight'
  <2>1. ASSUME NEW h \in DOMAIN tree', loaded'[h] # 0
        PROVE  /\ loaded'[h] \in DOMAIN asked /\ asked[loaded'[h]].cmd = "list"
               /\ asked[loaded'[h]].item = h /\ asked[loaded'[h]].path = PathIn(tree', h)
    <3>1. h \in DOMAIN tree
      BY <1>9, <2>1
    <3> QED BY <1>1, <1>7, <1>9, <2>1, <3>1 DEF LoadedRight
  <2>2. ASSUME NEW h \in DOMAIN tree', h \notin spoilt', NEW r \in Unfinished', asked[r].item = h
        PROVE  r = loaded'[h]
    <3>1. CASE h \in DOMAIN tree
      BY <1>1, <1>9, <2>2, <3>1 DEF LoadedRight
    <3>2. CASE h \in D
      BY <1>8, <1>9, <2>2, <3>2 DEF Awaited
    <3> QED BY <3>1, <3>2
  <2> QED BY <1>1, <2>1, <2>2 DEF LoadedRight
<1>11. ASSUME NEW h \in DOMAIN tree \cup {0}, h # hParent, h = 0 => hParent \in DOMAIN tree
       PROVE  Under(tree', h) = Under(tree, h)
  <2>1. \A k \in D : tree'[k].up # h
    <3>1. CASE hParent \in DOMAIN tree \cup {0}
      <4>1. PICK x, y : /\ D = {x, y}
                        /\ tree'[x] = Item(pack.name, hParent) /\ tree'[y] = Item(NoName, x)
        BY <1>7, <3>1
      <4>2. tree'[x].up = hParent /\ tree'[y].up = x /\ x \in D
        BY <4>1, ItemFacts
      <4> QED BY <1>8, <1>11, <4>1, <4>2
    <3>2. CASE hParent \notin DOMAIN tree \cup {0}
      BY <1>7, <1>8, <1>11, <3>2
    <3> QED BY <3>1, <3>2
  <2> QED BY <1>7, <2>1 DEF Under
<1>12. RootRight'
  <2> SUFFICES ASSUME stray = "no", NoDeletes
               PROVE  /\ Awaited' \subseteq DOMAIN tree'
                      /\ TextsUnder(tree', 0) \subseteq ToSet(Drives) /\ Apart(tree', 0)
    BY <1>1, <1>6 DEF RootRight, NoDeletes
  <2>1. Awaited' \subseteq Awaited
    BY <1>1 DEF Awaited
  <2>2. /\ Awaited \subseteq DOMAIN tree
        /\ TextsUnder(tree, 0) \subseteq ToSet(Drives) /\ Apart(tree, 0)
    BY <1>1 DEF RootRight
  <2>3. hParent # 0
    <3> SUFFICES ASSUME hParent = 0 PROVE FALSE
      OBVIOUS
    <3>1. cur > 1 /\ asked[cur - 1].cmd = "delete"
      BY <1>1, <1>3, <1>5 DEF AInv, RequestsMade, hParent
    <3>2. cur - 1 \in DOMAIN asked
      BY <1>1, <1>3, <3>1, AnswerFacts
    <3> QED BY <3>1, <3>2 DEF NoDeletes
  <2>4. hParent \in DOMAIN tree
    BY <1>5, <2>2, <2>3 DEF Awaited, hParent
  <2>5. Under(tree', 0) = Under(tree, 0)
    BY <1>11, <2>3, <2>4
  <2>6. TextsUnder(tree', 0) = TextsUnder(tree, 0) /\ Apart(tree', 0)
    <3>1. \A k \in Under(tree, 0) : tree'[k] = tree[k]
      BY <1>7 DEF Under
    <3> QED BY <2>2, <2>5, <3>1, SameUnder
  <2> QED BY <1>7, <2>1, <2>2, <2>6
<1>13. FoldersSoFar'
  <2> SUFFICES ASSUME NEW h \in DOMAIN tree', h \notin spoilt', loaded'[h] # 0
               PROVE  HasFolders(tree', h, loaded'[h], answer', cur', shown', Ahead')
    BY <1>1 DEF FoldersSoFar
  <2>1. h \in DOMAIN tree /\ h \notin spoilt /\ loaded'[h] = loaded[h] /\ h # 0
    BY <1>8, <1>9
  <2> DEFINE r == loaded[h]
  <2>2. /\ r \notin DOMAIN answer => Under(tree, h) = {}
        /\ r \in DOMAIN answer /\ Whole(r, answer, cur, shown, Ahead) =>
              /\ TextsUnder(tree, h) = ShownOf("dir", answer[r], shown[r])
              /\ Apart(tree, h)
    BY <1>1, <2>1 DEF FoldersSoFar, HasFolders
  <2>3. r \in DOMAIN asked /\ asked[r].item = h
    BY <1>1, <2>1 DEF LoadedRight
  <2>4. r \in DOMAIN answer /\ Whole(r, answer', cur', shown', Ahead') =>
           Whole(r, answer, cur, shown, Ahead)
    BY <1>2 DEF CountStep
  <2>5. shown \in [Requests -> Nat] /\ cur \in Requests /\ (r \in DOMAIN answer => r \in Requests)
    BY <1>1, <1>3, CountFacts DEF AInv, Types, HistoryType
  <2>6. h = hParent => r = cur
    BY <1>1, <1>5, <2>1 DEF LoadedRight, hParent
  <2>7. \A k \in Under(tree, h) : tree'[k] = tree[k]
    BY <1>7 DEF Under
  <2> HIDE DEF r
  <2>8. CASE h # hParent
    <3>1. Under(tree', h) = Under(tree, h)
      BY <1>11, <2>1, <2>8
    <3>2. TextsUnder(tree', h) = TextsUnder(tree, h) /\ (Apart(tree, h) => Apart(tree', h))
      BY <2>7, <3>1, SameUnder
    <3>3. r # cur
      BY <2>3, <2>8 DEF hParent
    <3>4. r \in DOMAIN answer => shown'[r] = shown[r]
      BY <1>1, <2>5, <3>3
    <3> QED BY <1>1, <2>1, <2>2, <2>4, <3>1, <3>2, <3>4 DEF r, HasFolders
  <2>9. CASE h = hParent
    <3>1. r = cur /\ r \in DOMAIN answer
      BY <1>3, <2>6, <2>9
    <3> SUFFICES ASSUME Whole(r, answer', cur', shown', Ahead')
                 PROVE  /\ TextsUnder(tree', h) = ShownOf("dir", answer[r], shown'[r])
                        /\ Apart(tree', h)
      BY <1>1, <2>1, <3>1 DEF r, HasFolders
    <3> DEFINE a == answer[cur]
               n == shown[cur]
    <3>2. Whole(cur, answer, cur, shown, Ahead)
      BY <2>4, <3>1
    <3>3. TextsUnder(tree, h) = ShownOf("dir", a, n) /\ Apart(tree, h)
      BY <2>2, <3>1, <3>2
    <3>4. n \in Nat /\ n + 1 \in DOMAIN a /\ pack = a[n + 1] /\ shown'[cur] = n + 1
      BY <1>1, <2>5, <3>2, NextPacket
    <3>5. a \in Seq(Entries \cup {End}) /\ IsInjective(a)
      BY <1>1, <1>3, <1>5 DEF AInv, Answers, AnswerRight, AnswerTo
    <3> HIDE DEF a, n
    <3>6. pack.name \notin ShownOf("dir", a, n)
      <4> SUFFICES ASSUME NEW k \in 1..n, a[k].kind = "dir", a[k].name = pack.name PROVE FALSE
        BY DEF ShownOf
      <4>1. k \in DOMAIN a /\ k # n + 1
        BY <3>4, <3>5
      <4> QED BY <3>4, <3>5, <4>1, NamesApart
    <3>7. ShownOf("dir", a, n + 1) = ShownOf("dir", a, n) \cup {pack.name}
      BY <3>4, ShownOfMore
    <3>8. PICK x, y : /\ x # y /\ D = {x, y}
                      /\ tree'[x] = Item(pack.name, h) /\ tree'[y] = Item(NoName, x)
      BY <1>7, <2>1, <2>9
    <3>9. /\ tree'[x].up = h /\ tree'[x].text = pack.name /\ tree'[y].up = x /\ x \notin DOMAIN tree
          /\ DOMAIN tree' = DOMAIN tree \cup {x, y}
      <4>1. x \notin DOMAIN tree /\ DOMAIN tree' = DOMAIN tree \cup {x, y}
        BY <1>7, <3>8
      <4> QED BY <3>8, <4>1, ItemFacts
    <3>10. Under(tree', h) = Under(tree, h) \cup {x}
      BY <1>7, <2>1, <3>8, <3>9 DEF Under
    <3>11. TextsUnder(tree', h) = TextsUnder(tree, h) \cup {pack.name}
      <4> HIDE DEF Under
      <4> QED BY <2>7, <3>9, <3>10 DEF TextsUnder
    <3>12. Apart(tree', h)
      <4>1. \A k \in Under(tree, h) : tree'[k].text \in TextsUnder(tree, h)
        BY <2>7 DEF TextsUnder
      <4>2. \A k \in Under(tree, h) : tree'[k].text # pack.name
        BY <3>3, <3>6, <4>1
      <4> HIDE DEF Under
      <4> QED BY <2>7, <3>3, <3>9, <3>10, <4>2 DEF Apart
    <3> QED BY <3>1, <3>3, <3>4, <3>7, <3>11, <3>12 DEF a
  <2> QED BY <2>8, <2>9
<1> QED BY <1>10, <1>12, <1>13 DEF TreeRight

(* The three kinds of packets together. *)
LEMMA OnSendPackAckTree ==
  ASSUME FilesInv, TreeRight, OnSendPackAck
  PROVE  TreeRight'
<1>1. AInv
  BY DEF FilesInv
<1>2. asked' = asked /\ cur' = cur /\ cpc = "show"
  BY <1>1, ShowCases
<1>3. Unfinished' \subseteq Unfinished
  BY <1>2 DEF Unfinished
<1>4. CASE pack.kind = "drives"
  BY <1>1, <1>2, <1>3, <1>4, ShowCases, DrivesTree
<1>5. CASE pack.kind = "deleted"
  <2>1. UNCHANGED <<tree, loaded, spoilt, stray>> /\ pack.kind # "dir"
    BY <1>1, <1>5, ShowCases
  <2> QED BY <1>3, <2>1, NoFolderTree
<1>6. CASE pack.kind = "dir"
  BY <1>3, <1>6, FolderTree
<1>7. CASE pack.kind \notin {"drives", "deleted", "dir"}
  <2>1. UpdateFileInfo(pack, asked[cur].item)
    BY <1>1, <1>7, ShowCases
  <2>2. UNCHANGED <<tree, loaded, spoilt, stray>>
    BY <1>7, <2>1 DEF UpdateFileInfo, IsFolder
  <2> QED BY <1>3, <1>7, <2>2, NoFolderTree
<1> QED BY <1>4, <1>5, <1>6, <1>7

(* A click empties an item, and makes it wait for a listing.                *)
LEMMA LoadFileInfoTree ==
  ASSUME FilesInv, TreeRight, NEW h \in Items, LoadFileInfo(h)
  PROVE  TreeRight'
<1> DEFINE q == Request("list", GetPath(h), h)
           n == Len(asked) + 1
<1>1. AInv /\ LoadedRight /\ FoldersSoFar /\ RootRight
  BY DEF FilesInv, TreeRight
<1>2. /\ asked' = Append(asked, q) /\ h \in DOMAIN tree /\ h # 0
      /\ tree' = [k \in DOMAIN tree \ BelowIn(tree, h) |-> tree[k]]
      /\ stray' = IF BelowIn(tree, h) \cap Awaited # {} THEN "yes" ELSE stray
      /\ loaded' = [loaded EXCEPT ![h] = n]
      /\ spoilt' = IF h \in Awaited THEN spoilt \cup {h} ELSE spoilt \ {h}
      /\ UNCHANGED <<cur, cpc, nbuf, pack, sock, stream>> /\ answer' = answer /\ shown' = shown
  BY TreeIs, Bounds DEF LoadFileInfo, Gone, netVars, serverVars
<1>3. /\ q \in Asked /\ q.cmd = "list" /\ q.item = h /\ q.path = PathIn(tree, h)
      /\ asked \in Seq(Asked)
  BY <1>1, <1>2, TreeIs, RequestsType DEF AInv, Types, WindowType, Request
<1>4. /\ TreeOK(tree') /\ h \in DOMAIN tree' /\ DOMAIN tree' = DOMAIN tree \ BelowIn(tree, h)
      /\ \A k \in DOMAIN tree' : tree'[k] = tree[k] /\ tree'[k].up # h
      /\ \A k \in DOMAIN tree' : k # 0 => PathIn(tree', k) = PathIn(tree, k)
      /\ \A k \in DOMAIN tree : tree[k].up \in DOMAIN tree' \ {h} /\ tree[k].up # 0 =>
            k \in DOMAIN tree'
  <2>1. TreeOK(tree)
    BY <1>1 DEF AInv
  <2>2. h \in DOMAIN tree /\ h # 0 /\ tree' = [k \in DOMAIN tree \ BelowIn(tree, h) |-> tree[k]]
    BY <1>2
  <2>3. DOMAIN tree' = DOMAIN tree \ BelowIn(tree, h)
    BY <1>2
  <2> QED BY <2>1, <2>2, <2>3, CutTree
<1>5. DOMAIN tree \subseteq Items /\ DOMAIN tree' \subseteq Items /\ 0 \notin Items
  BY <1>1, <1>4, Bounds DEF AInv, TreeOK, TreeType
<1> HIDE DEF q
<1>6. LongerBy(asked, asked', 1) /\ asked'[n] = q
  BY <1>2, <1>3, OneLonger
<1>7. /\ \A r \in DOMAIN asked : r \in DOMAIN asked' /\ asked'[r] = asked[r]
      /\ DOMAIN asked' = DOMAIN asked \cup {n} /\ n \notin DOMAIN asked /\ n # 0
      /\ n \notin DOMAIN answer
  BY <1>1, <1>6, AnswerFacts DEF LongerBy
<1> HIDE DEF n
<1>8. Unfinished' \subseteq Unfinished \cup {n}
  BY <1>2, <1>7 DEF Unfinished
<1>9. loaded'[h] = n /\ \A k \in DOMAIN tree : k # h => loaded'[k] = loaded[k]
  <2>1. loaded \in [Items -> 0..MaxRequests]
    BY <1>1 DEF AInv, Types, HistoryType
  <2> QED BY <1>2, <1>5, <2>1
<1>10. LoadedRight'
  <2>1. ASSUME NEW k \in DOMAIN tree', loaded'[k] # 0
        PROVE  /\ loaded'[k] \in DOMAIN asked' /\ asked'[loaded'[k]].cmd = "list"
               /\ asked'[loaded'[k]].item = k /\ asked'[loaded'[k]].path = PathIn(tree', k)
    <3>1. CASE k = h
      BY <1>2, <1>3, <1>4, <1>6, <1>7, <1>9, <3>1
    <3>2. CASE k # h
      <4>1. k \in DOMAIN tree /\ k # 0 /\ loaded'[k] = loaded[k]
        BY <1>4, <1>5, <1>9, <3>2
      <4> QED BY <1>1, <1>4, <1>7, <2>1, <4>1 DEF LoadedRight
    <3> QED BY <3>1, <3>2
  <2>2. ASSUME NEW k \in DOMAIN tree', k \notin spoilt', NEW r \in Unfinished', asked'[r].item = k
        PROVE  r = loaded'[k]
    <3>1. CASE r = n
      BY <1>3, <1>6, <1>9, <2>2, <3>1
    <3>2. CASE r \in Unfinished
      <4>1. asked[r].item = k
        BY <1>7, <2>2, <3>2 DEF Unfinished
      <4>2. k # h
        BY <1>2, <2>2, <3>2, <4>1 DEF Awaited
      <4>3. k \in DOMAIN tree \ spoilt
        BY <1>2, <1>4, <2>2, <4>2
      <4> QED BY <1>1, <1>9, <3>2, <4>1, <4>2, <4>3 DEF LoadedRight
    <3> QED BY <1>8, <3>1, <3>2
  <2> QED BY <2>1, <2>2 DEF LoadedRight
<1>11. FoldersSoFar'
  <2> SUFFICES ASSUME NEW k \in DOMAIN tree', k \notin spoilt', loaded'[k] # 0
               PROVE  HasFolders(tree', k, loaded'[k], answer', cur', shown', Ahead')
    BY <1>2 DEF FoldersSoFar
  <2>1. CASE k = h
    BY <1>2, <1>4, <1>7, <1>9, <2>1 DEF Under, HasFolders
  <2>2. CASE k # h
    <3>1. k \in DOMAIN tree \ spoilt /\ loaded'[k] = loaded[k] /\ k # 0
      BY <1>2, <1>4, <1>5, <1>9, <2>2
    <3>2. Under(tree', k) = Under(tree, k)
      <4>1. \A j \in DOMAIN tree : tree[j].up = k => j \in DOMAIN tree'
        BY <1>4, <2>2, <3>1
      <4> QED BY <1>4, <4>1 DEF Under
    <3>3. \A j \in Under(tree, k) : tree'[j] = tree[j]
      BY <1>4, <3>2 DEF Under
    <3>4. TextsUnder(tree', k) = TextsUnder(tree, k) /\ (Apart(tree, k) => Apart(tree', k))
      BY <3>2, <3>3, SameUnder
    <3>5. Ahead' = Ahead
      BY <1>2 DEF Ahead
    <3> QED BY <1>1, <1>2, <3>1, <3>2, <3>4, <3>5 DEF FoldersSoFar, HasFolders
  <2> QED BY <2>1, <2>2
<1>12. RootRight'
  <2> SUFFICES ASSUME stray' = "no", NoDeletes'
               PROVE  /\ Awaited' \subseteq DOMAIN tree'
                      /\ TextsUnder(tree', 0) \subseteq ToSet(Drives) /\ Apart(tree', 0)
    BY DEF RootRight
  <2>1. stray = "no" /\ BelowIn(tree, h) \cap Awaited = {}
    BY <1>2
  <2>2. NoDeletes
    BY <1>7 DEF NoDeletes
  <2>3. /\ Awaited \subseteq DOMAIN tree /\ TextsUnder(tree, 0) \subseteq ToSet(Drives)
        /\ Apart(tree, 0)
    BY <1>1, <2>1, <2>2 DEF RootRight
  <2>4. Awaited' \subseteq Awaited \cup {h}
    <3>1. \A r \in Unfinished' : r = n \/ (r \in Unfinished /\ asked'[r] = asked[r])
      BY <1>7, <1>8 DEF Unfinished
    <3> QED BY <1>3, <1>6, <3>1 DEF Awaited
  <2>5. Under(tree', 0) \subseteq Under(tree, 0)
    BY <1>4 DEF Under
  <2>6. \A k \in Under(tree', 0) : tree'[k] = tree[k]
    BY <1>4 DEF Under
  <2>7. TextsUnder(tree', 0) \subseteq TextsUnder(tree, 0) /\ Apart(tree', 0)
    <3> HIDE DEF Under
    <3> QED BY <2>3, <2>5, <2>6 DEF TextsUnder, Apart
  <2> QED BY <1>4, <2>1, <2>3, <2>4, <2>7
<1> QED BY <1>10, <1>11, <1>12 DEF TreeRight

(* Every step keeps what the tree shows. *)
LEMMA NextTree ==
  ASSUME FilesInv, TreeRight, [Next]_vars
  PROVE  TreeRight'
<1>1. CASE \E h \in Items : LoadFileInfo(h)
  BY <1>1, LoadFileInfoTree
<1>2. CASE OnSendPackAck
  BY <1>2, OnSendPackAckTree
<1>3. CASE (~ \E h \in Items : LoadFileInfo(h)) /\ ~ OnSendPackAck
  <2>1. UNCHANGED <<tree, loaded, spoilt, shown, stray>>
    BY <1>3, Zenon DEF Next, AskDrives, OnDeleteFile, Clear, Network, Answered, LoadFileCurrent,
       MakeSocket, Send, SendFails, ConnectFails, BoxTakes, CloseBox, Recv, RecvEnd,
       OnSocketClosed, LoopTest, DealCommand, windowVars, history, vars
  <2>2. AInv
    BY DEF FilesInv
  <2>3. \A r \in Unfinished' : r \in Unfinished \/ asked'[r].item = 0
    BY <1>3, <2>2, UnfinishedLess
  <2> QED BY <2>1, <2>3, QuietTree
<1> QED BY <1>1, <1>2, <1>3

TreeInv == FilesInv /\ TreeRight

LEMMA AlwaysTree == Spec => []TreeInv
<1>1. Init => TreeRight
  <2> SUFFICES ASSUME Init PROVE TreeRight
    OBVIOUS
  <2>1. asked = <<>> /\ tree = <<>> /\ DOMAIN asked = {} /\ DOMAIN tree = {}
    BY DEF Init
  <2>2. Unfinished = {} /\ Awaited = {}
    BY <2>1 DEF Unfinished, Awaited
  <2>3. Under(tree, 0) = {}
    BY <2>1 DEF Under
  <2>4. LoadedRight /\ FoldersSoFar
    BY <2>1 DEF LoadedRight, FoldersSoFar
  <2>5. RootRight
    BY <2>2, <2>3, NothingUnder DEF RootRight
  <2> QED BY <2>4, <2>5 DEF TreeRight
<1>2. TreeRight /\ FilesInv /\ [Next]_vars => TreeRight'
  BY NextTree
<1> QED BY <1>1, <1>2, AlwaysFiles, PTL DEF Spec, TreeInv

(* The tree shows the folder: under an item whose last listing was given to *)
(* OnSendPackAck as a whole are the folders of it, each once, wherever the  *)
(* user clicked meanwhile, unless the item was clicked again before its     *)
(* listing came or had the HTREEITEM of one that waits; and the root has    *)
(* the drives, each once, unless files were deleted or an awaited item was. *)
THEOREM TreeShownHolds == Spec => []TreeShown
<1>1. TreeInv => TreeShown
  <2> SUFFICES ASSUME TreeInv PROVE TreeShown
    OBVIOUS
  <2>1. AInv /\ Counted /\ LoadedRight /\ FoldersSoFar /\ RootRight
    BY DEF TreeInv, TreeRight, FilesInv
  <2>2. ASSUME NEW h \in DOMAIN tree \ spoilt, NEW path, path = GetPath(h),
               NEW f, f = Resolve(path, drive, cwd),
               loaded[h] # 0, AllShown(loaded[h]), path[1] \in ToSet(Drives)
        PROVE  /\ {tree[k].text : k \in Children(h)} = Folders(f)
               /\ \A k, l \in Children(h) : tree[k].text = tree[l].text => k = l
    <3> DEFINE r == loaded[h]
    <3>1. /\ r \in DOMAIN asked /\ asked[r].cmd = "list" /\ asked[r].path = PathIn(tree, h)
      BY <2>1, <2>2 DEF LoadedRight
    <3>2. r <= Len(answer) /\ answer[r] # <<>> /\ shown[r] = Len(answer[r])
      BY <2>2 DEF AllShown
    <3>3. asked[r].path = path
      BY <2>2, <3>1, TreeIs
    <3> HIDE DEF r
    <3>4. r \in DOMAIN answer
      BY <2>1, <3>1, <3>2, AnswerFacts
    <3>5. Whole(r, answer, cur, shown, Ahead)
      BY <2>1, <3>2, <3>4, ShownWhole
    <3>6. TextsUnder(tree, h) = ShownOf("dir", answer[r], shown[r]) /\ Apart(tree, h)
      BY <2>1, <2>2, <3>4, <3>5 DEF FoldersSoFar, HasFolders, r
    <3>7. ShownOf("dir", answer[r], Len(answer[r])) = Names("dir", answer[r])
      <4>1. answer[r] \in Seq(Packets)
        BY <2>1, <3>4, CountFacts
      <4> QED BY <4>1, AllOf
    <3>8. /\ AnswerRight(asked[r], answer[r], where[r])
          /\ f = Without(path, {NoName})
      BY <2>1, <2>2, <3>4 DEF AInv, Answers, Resolve
    <3>9. Names("dir", answer[r]) = Folders(f)
      BY <2>2, <3>1, <3>2, <3>3, <3>8 DEF AnswerRight
    <3>10. Children(h) = Under(tree, h)
      BY DEF Children, Under
    <3> HIDE DEF Under, Folders
    <3> QED BY <3>2, <3>6, <3>7, <3>9, <3>10 DEF TextsUnder, Apart
  <2>3. FolderShown
    BY <2>2 DEF FolderShown, Folders
  <2>4. Children(0) = Under(tree, 0)
    BY DEF Children, Under
  <2> HIDE DEF Under
  <2> QED BY <2>1, <2>3, <2>4 DEF TreeShown, RootRight, NoDeletes, TextsUnder, Apart
<1> QED BY <1>1, AlwaysTree, PTL
=============================================================================
