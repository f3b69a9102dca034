----------------------------- MODULE BuildProofs -----------------------------
(***************************************************************************)
(* Proofs about Build, for every bundle, every path, every text and every  *)
(* limit.                                                                  *)
(*                                                                         *)
(* Three parts: what the two rules for paths have in common (the fold of   *)
(* virtual_path leaves the names that valid_path accepts alone), what      *)
(* clipping and truncating do to a text, and the open files.               *)
(***************************************************************************)
EXTENDS Build, SequenceLemmas

(***************************************************************************)
(* Folds from the left, as the community modules define them.              *)
(***************************************************************************)

\* A nonempty set of naturals below a bound contains its greatest element.
LEMMA MaxOfNats ==
  ASSUME NEW T \in SUBSET Nat, T # {}, NEW b \in Nat, \A y \in T : y <= b
  PROVE  Max(T) \in T /\ \A y \in T : y <= Max(T)
<1>1. \E m \in T : \A y \in T : m >= y
  BY GreatestNat
<1>2. Max(T) \in T /\ \A y \in T : Max(T) >= y
  BY <1>1 DEF Max
<1> QED BY <1>2

\* g solves the recursion of the fold of Enter for every set of D.
IsWalkOn(g, path, D) ==
  g = [s \in D |-> IF s = {} THEN <<>> ELSE Enter(g[s \ {Max(s)}], path[Max(s)])]

\* The fold of virtual_path is that recursion.
LEMMA WalkIs ==
  ASSUME NEW path
  PROVE  FoldLeft(Enter, <<>>, path)
           = (CHOOSE g : IsWalkOn(g, path, SUBSET DOMAIN path))[DOMAIN path]
BY DEF FoldLeft, MapThenFoldSet, IsWalkOn

\* A set of positions without its greatest one has one element less.
LEMMA MaxOne ==
  ASSUME NEW n \in Nat, NEW s \in SUBSET (1..n), s # {}
  PROVE  /\ Max(s) \in s /\ IsFiniteSet(s)
         /\ Cardinality(s) \in Nat /\ Cardinality(s \ {Max(s)}) \in Nat
         /\ Cardinality(s \ {Max(s)}) = Cardinality(s) - 1
<1>1. s \in SUBSET Nat /\ \A y \in s : y <= n
  OBVIOUS
<1>2. Max(s) \in s
  BY <1>1, MaxOfNats
<1>3. IsFiniteSet(s)
  <2>1. IsFiniteSet(1..n)
    BY FS_Interval
  <2> QED BY <2>1, FS_Subset
<1> QED BY <1>2, <1>3, FS_RemoveElement, FS_CardinalityType

\* It has a solution.
LEMMA WalkExists ==
  ASSUME NEW path, NEW n \in Nat, NEW S, S = 1..n
  PROVE  \E g : IsWalkOn(g, path, SUBSET S)
<1> DEFINE Bad == {k \in Nat : ~ \E g : IsWalkOn(g, path, Small(S, k))}
<1>1. IsFiniteSet(S) /\ \A s \in SUBSET S : IsFiniteSet(s) /\ Cardinality(s) \in Nat
  <2>1. IsFiniteSet(S)
    BY FS_Interval
  <2> QED BY <2>1, FS_Subset, FS_CardinalityType
<1>2. Bad = {}
  <2> SUFFICES ASSUME Bad # {} PROVE FALSE
    OBVIOUS
  <2>1. PICK m \in Bad : \A k \in Bad : m <= k
    <3>1. Bad \in SUBSET Nat
      OBVIOUS
    <3> HIDE DEF Bad
    <3> QED BY <3>1, LeastNat
  <2>2. CASE m = 0
    <3> DEFINE g == [s \in Small(S, 0) |-> <<>>]
    <3>1. \A s \in Small(S, 0) : s = {}
      BY <1>1, FS_EmptySet DEF Small
    <3>2. IsWalkOn(g, path, Small(S, 0))
      BY <3>1 DEF IsWalkOn
    <3> QED BY <2>2, <3>2
  <2>3. CASE m # 0
    <3>1. m - 1 \in Nat /\ m - 1 \notin Bad
      BY <2>1, <2>3
    <3>2. PICK h : IsWalkOn(h, path, Small(S, m - 1))
      BY <3>1
    <3> DEFINE g == [s \in Small(S, m) |->
                      IF s = {} THEN <<>> ELSE Enter(h[s \ {Max(s)}], path[Max(s)])]
    <3>3. ASSUME NEW s \in Small(S, m - 1)
          PROVE  s \in Small(S, m) /\ g[s] = h[s]
      <4>1. s \in Small(S, m)
        BY <1>1, <2>1 DEF Small
      <4>2. h[s] = IF s = {} THEN <<>> ELSE Enter(h[s \ {Max(s)}], path[Max(s)])
        BY <3>2 DEF IsWalkOn
      <4> QED BY <4>1, <4>2
    <3>4. ASSUME NEW s \in Small(S, m), s # {}
          PROVE  s \ {Max(s)} \in Small(S, m - 1)
      <4>1. Cardinality(s) \in Nat /\ Cardinality(s) <= m /\ s \in SUBSET (1..n)
        BY <1>1 DEF Small
      <4>2. Cardinality(s \ {Max(s)}) = Cardinality(s) - 1
        BY <3>4, <4>1, MaxOne
      <4>3. Cardinality(s \ {Max(s)}) <= m - 1
        BY <2>1, <4>1, <4>2
      <4> QED BY <4>1, <4>3 DEF Small
    <3>5. \A s \in Small(S, m) :
            g[s] = IF s = {} THEN <<>> ELSE Enter(g[s \ {Max(s)}], path[Max(s)])
      BY <3>3, <3>4
    <3>6. IsWalkOn(g, path, Small(S, m))
      <4>1. g = [s \in Small(S, m) |-> g[s]]
        OBVIOUS
      <4> HIDE DEF g
      <4> QED BY <3>5, <4>1 DEF IsWalkOn
    <3> QED BY <2>1, <3>6
  <2> QED BY <2>2, <2>3
<1>3. Cardinality(S) \in Nat /\ Small(S, Cardinality(S)) = SUBSET S
  <2>1. \A s \in SUBSET S : Cardinality(s) <= Cardinality(S)
    BY <1>1, FS_Subset
  <2> QED BY <1>1, <2>1 DEF Small
<1>4. PICK g : IsWalkOn(g, path, Small(S, Cardinality(S)))
  BY <1>2, <1>3
<1> QED BY <1>3, <1>4

-----------------------------------------------------------------------------
(* Paths.                                                                  *)

\* The parts of paths; that literals are strings is nothing the provers know.
Part == STRING \cup {Empty, "src", "spinfoam.h"}

\* No name is empty.
LEMMA EmptyIsNoName ==
  /\ Empty # "src" /\ Empty # "spinfoam.h" /\ Empty # "none" /\ Empty # "long"
  /\ Empty # "." /\ Empty # ".."
BY Zenon DEF Empty

\* The names that virtual_path does not look at.
Plain(n) == n \in Seq(Part) /\ \A i \in 1..Len(n) : n[i] \notin {Empty, ".", ".."}

\* The path under which the compiler opens the source file n, and the name
\* of that file in Context::files.
SourcePath(n) == <<Empty, "src">> \o n
FileName(n) == <<"src">> \o n

\* One or two parts in front of a path, and what is where.
LEMMA PrefixParts ==
  ASSUME NEW S, NEW n \in Seq(S), NEW a \in S, NEW b \in S
  PROVE  /\ <<a, b>> \o n \in Seq(S) /\ Len(<<a, b>> \o n) = Len(n) + 2
         /\ (<<a, b>> \o n)[1] = a /\ (<<a, b>> \o n)[2] = b
         /\ \A i \in 1..Len(n) : (<<a, b>> \o n)[i + 2] = n[i]
         /\ <<b>> \o n \in Seq(S) /\ Len(<<b>> \o n) = Len(n) + 1
         /\ (<<b>> \o n)[1] = b
         /\ \A i \in 1..Len(n) : (<<b>> \o n)[i + 1] = n[i]
OBVIOUS

\* The parts of both, one by one.
LEMMA SourcePathParts ==
  ASSUME NEW n \in Seq(Part)
  PROVE  /\ SourcePath(n) \in Seq(Part) /\ Len(SourcePath(n)) = Len(n) + 2
         /\ SourcePath(n)[1] = Empty /\ SourcePath(n)[2] = "src"
         /\ \A i \in 1..Len(n) : SourcePath(n)[i + 2] = n[i]
         /\ FileName(n) \in Seq(Part) /\ Len(FileName(n)) = Len(n) + 1
         /\ FileName(n)[1] = "src"
         /\ \A i \in 1..Len(n) : FileName(n)[i + 1] = n[i]
<1>1. PICK a \in Part, b \in Part : a = Empty /\ b = "src"
  BY DEF Part
<1>2. SourcePath(n) = <<a, b>> \o n /\ FileName(n) = <<b>> \o n
  BY <1>1 DEF SourcePath, FileName
<1> QED BY <1>1, <1>2, PrefixParts

\* The parts of a path that the fold has entered after k of them.
Trail(path, k) == [i \in 1..(k - 1) |-> path[i + 1]]

\* They are a sequence.
LEMMA TrailParts ==
  ASSUME NEW S, NEW path \in Seq(S), NEW k \in 1..Len(path)
  PROVE  /\ Trail(path, k) \in Seq(S) /\ Len(Trail(path, k)) = k - 1
         /\ \A i \in 1..(k - 1) : Trail(path, k)[i] = path[i + 1]
BY DEF Trail

\* A plain part is entered.
LEMMA EnterPlain ==
  ASSUME NEW S, NEW path \in Seq(S), NEW k \in 2..Len(path),
         path[2] = "src", path[k] \notin {Empty, ".", ".."}
  PROVE  Enter(Trail(path, k - 1), path[k]) = Trail(path, k)
<1>1. PICK t : t = Trail(path, k - 1)
  OBVIOUS
<1>2. /\ t \in Seq(S) /\ Len(t) = k - 2 /\ \A i \in 1..(k - 2) : t[i] = path[i + 1]
  <2>1. \A j : j = k - 1 => j \in 1..Len(path)
    OBVIOUS
  <2>2. \A j \in 1..Len(path) :
          /\ Trail(path, j) \in Seq(S) /\ Len(Trail(path, j)) = j - 1
          /\ \A i \in 1..(j - 1) : Trail(path, j)[i] = path[i + 1]
    BY TrailParts
  <2>3. PICK j \in 1..Len(path) : j = k - 1
    BY <2>1
  <2>4. /\ t \in Seq(S) /\ Len(t) = j - 1 /\ \A i \in 1..(j - 1) : t[i] = path[i + 1]
    BY <1>1, <2>2, <2>3
  <2>5. j - 1 = k - 2
    BY <2>3
  <2> QED BY <2>4, <2>5
<1>3. t # Nowhere
  <2>1. Len(Nowhere) = 1 /\ Nowhere[1] # "src"
    BY DEF Nowhere
  <2>2. k - 2 = 1 => t[1] = "src"
    BY <1>2
  <2> QED BY <1>2, <2>1, <2>2
<1>4. Enter(t, path[k]) = Append(t, path[k])
  BY <1>3 DEF Enter
<1>5. Append(t, path[k]) = Trail(path, k)
  <2>1. /\ Trail(path, k) \in Seq(S) /\ Len(Trail(path, k)) = k - 1
        /\ \A i \in 1..(k - 1) : Trail(path, k)[i] = path[i + 1]
    BY TrailParts
  <2>2. /\ Append(t, path[k]) \in Seq(S) /\ Len(Append(t, path[k])) = k - 1
        /\ \A i \in 1..(k - 1) : Append(t, path[k])[i] = path[i + 1]
    BY <1>2
  <2> QED BY <2>1, <2>2
<1> QED BY <1>1, <1>4, <1>5

\* virtual_path is the identity on the names that valid_path accepts: what
\* the bundle was accepted with is what the compiler finds.
LEMMA VirtualPathOfSource ==
  ASSUME NEW n, Plain(n)
  PROVE  virtual_path(SourcePath(n)) = FileName(n)
<1> DEFINE path == SourcePath(n)
           l == Len(path)
           D == DOMAIN path
<1>1. /\ path \in Seq(Part) /\ l = Len(n) + 2 /\ l \in Nat /\ l >= 2
      /\ path[1] = Empty /\ path[2] = "src"
      /\ D = 1..l
      /\ \A i \in 1..Len(n) : path[i + 2] = n[i]
  <2>1. n \in Seq(Part)
    BY DEF Plain
  <2>2. /\ path \in Seq(Part) /\ l = Len(n) + 2
        /\ path[1] = Empty /\ path[2] = "src"
        /\ \A i \in 1..Len(n) : path[i + 2] = n[i]
    BY <2>1, SourcePathParts
  <2> HIDE DEF path
  <2> QED BY <2>1, <2>2
<1>11. Len(n) \in Nat
  BY DEF Plain
<1>2. \A k \in 2..l : path[k] \notin {Empty, ".", ".."}
  <2> SUFFICES ASSUME NEW k \in 2..l PROVE path[k] \notin {Empty, ".", ".."}
    OBVIOUS
  <2>1. CASE k = 2
    BY <1>1, <2>1, EmptyIsNoName
  <2>2. CASE k # 2
    <3>1. k - 2 \in 1..Len(n) /\ path[k] = n[k - 2]
      BY <1>1, <1>11, <2>2
    <3> QED BY <3>1 DEF Plain
  <2> QED BY <2>1, <2>2
<1> HIDE DEF path, l
<1>3. PICK g : IsWalkOn(g, path, SUBSET D) /\ FoldLeft(Enter, <<>>, path) = g[D]
  <2>1. \E g : IsWalkOn(g, path, SUBSET D)
    <3> HIDE DEF D
    <3> QED BY <1>1, WalkExists
  <2> QED BY <2>1, WalkIs
<1>4. \A s \in SUBSET D : g[s] = IF s = {} THEN <<>> ELSE Enter(g[s \ {Max(s)}], path[Max(s)])
  BY <1>3 DEF IsWalkOn
<1>5. ASSUME NEW k \in 1..l
      PROVE  g[1..k] = Enter(g[1..(k - 1)], path[k]) /\ g[1..0] = <<>>
  <2>1. Max(1..k) = k
    <3>1. \A s : s = 1..k => s \in SUBSET Nat /\ s # {} /\ k \in s /\ \A y \in s : y <= k
      OBVIOUS
    <3>2. k \in Nat
      OBVIOUS
    <3>3. \A s : s = 1..k => Max(s) \in s /\ \A y \in s : y <= Max(s)
      BY <3>1, <3>2, MaxOfNats
    <3>4. Max(1..k) \in 1..k /\ k <= Max(1..k)
      BY <3>1, <3>3
    <3> QED BY <3>4
  <2>2. (1..k) \ {k} = 1..(k - 1) /\ 1..k \in SUBSET D /\ 1..k # {} /\ 1..0 = {}
    <3>1. D = 1..l /\ l \in Nat
      BY <1>1
    <3> HIDE DEF D
    <3>2. 1..k \in SUBSET D
      BY <3>1
    <3>3. (1..k) \ {k} = 1..(k - 1)
      OBVIOUS
    <3>4. 1..k # {} /\ 1..0 = {}
      OBVIOUS
    <3> QED BY <3>2, <3>3, <3>4
  <2> QED BY <1>4, <2>1, <2>2
<1>6. \A k \in 1..l : g[1..k] = Trail(path, k)
  <2> DEFINE Bad == {k \in Nat : k \in 1..l /\ g[1..k] # Trail(path, k)}
  <2> SUFFICES ASSUME Bad # {} PROVE FALSE
    BY <1>1
  <2>1. PICK m \in Bad : \A k \in Bad : m <= k
    <3>1. Bad \in SUBSET Nat
      OBVIOUS
    <3> HIDE DEF Bad
    <3> QED BY <3>1, LeastNat
  <2>2. CASE m = 1
    <3>1. g[1..1] = Enter(<<>>, Empty)
      <4>1. \E k \in 1..l : k = 1
        BY <1>1
      <4>2. g[1..1] = Enter(g[1..(1 - 1)], path[1]) /\ g[1..0] = <<>>
        BY <1>5, <4>1
      <4>3. 1 - 1 = 0
        OBVIOUS
      <4> QED BY <1>1, <4>2, <4>3
    <3>2. Enter(<<>>, Empty) = <<>> /\ Trail(path, 1) = <<>>
      BY DEF Enter, Trail
    <3> QED BY <2>1, <2>2, <3>1, <3>2
  <2>3. CASE m # 1
    <3>1. m \in 2..l /\ m - 1 \in 1..l /\ m - 1 \notin Bad
      BY <1>1, <2>1, <2>3
    <3>2. g[1..(m - 1)] = Trail(path, m - 1)
      BY <3>1
    <3>3. Enter(Trail(path, m - 1), path[m]) = Trail(path, m)
      BY <1>1, <1>2, <3>1, EnterPlain DEF l
    <3> QED BY <1>5, <2>1, <3>2, <3>3
  <2> QED BY <2>2, <2>3
<1>7. g[D] = Trail(path, l)
  BY <1>1, <1>6
<1>8. Trail(path, l) = FileName(n)
  <2>1. /\ FileName(n) \in Seq(Part) /\ Len(FileName(n)) = l - 1 /\ FileName(n)[1] = "src"
        /\ \A i \in 1..Len(n) : FileName(n)[i + 1] = n[i]
    BY <1>1, SourcePathParts DEF Plain
  <2>2. ASSUME NEW i \in 1..(l - 1) PROVE path[i + 1] = FileName(n)[i]
    <3>1. CASE i = 1
      BY <1>1, <2>1, <3>1
    <3>2. CASE i # 1
      <4>1. i - 1 \in 1..Len(n)
        BY <1>1, <1>11, <3>2
      <4>2. path[(i - 1) + 2] = n[i - 1] /\ FileName(n)[(i - 1) + 1] = n[i - 1]
        BY <1>1, <2>1, <4>1
      <4>3. (i - 1) + 2 = i + 1 /\ (i - 1) + 1 = i
        OBVIOUS
      <4> QED BY <4>2, <4>3
    <3> QED BY <3>1, <3>2
  <2>3. /\ Trail(path, l) \in Seq(Part) /\ Len(Trail(path, l)) = l - 1
        /\ \A i \in 1..(l - 1) : Trail(path, l)[i] = path[i + 1]
    <3>1. path \in Seq(Part) /\ \E k \in 1..Len(path) : k = l
      BY <1>1 DEF l
    <3> QED BY <3>1, TrailParts
  <2> QED BY <1>1, <2>1, <2>2, <2>3
<1>9. FileName(n)[1] = "src" /\ FileName(n) # <<>>
  BY SourcePathParts DEF Plain
<1>10. virtual_path(path) = FileName(n)
  BY <1>1, <1>3, <1>7, <1>8, <1>9 DEF virtual_path, l
<1> QED BY <1>10 DEF path

\* Every part has a length.
LEMMA PartLengthType == \A p : PartLength(p) \in Nat
BY BuildAssumption DEF PartLength

\* The parts of a path by their lengths.
PartLengths(path) == [i \in DOMAIN path |-> PartLength(path[i])]

\* They are as many numbers as there are parts.
LEMMA LengthsOfParts ==
  ASSUME NEW S, NEW path \in Seq(S)
  PROVE  /\ PartLengths(path) \in Seq(Nat) /\ Len(PartLengths(path)) = Len(path)
         /\ \A i \in 1..Len(path) : PartLengths(path)[i] = PartLength(path[i])
<1>1. Len(path) \in Nat /\ DOMAIN path = 1..Len(path)
  OBVIOUS
<1>2. PartLengths(path) = [i \in 1..Len(path) |-> PartLength(path[i])]
  BY <1>1 DEF PartLengths
<1> QED BY <1>1, <1>2, PartLengthType

\* A path with one part more in front is longer by that part and a slash.
LEMMA PathLengthBehind ==
  ASSUME NEW S, NEW v \in Seq(S), NEW w \in Seq(S), Len(w) = Len(v) + 1,
         \A i \in 1..Len(v) : w[i + 1] = v[i]
  PROVE  PathLength(w) = PathLength(v) + 1 + PartLength(w[1])
<1>1. \A path \in Seq(S) : /\ PartLengths(path) \in Seq(Nat)
                          /\ Len(PartLengths(path)) = Len(path)
                          /\ \A i \in 1..Len(path) : PartLengths(path)[i] = PartLength(path[i])
  BY LengthsOfParts
<1>2. PICK a, b, k : a = PartLengths(w) /\ b = PartLengths(v) /\ k = 1
  OBVIOUS
<1>3. /\ a \in Seq(Nat) /\ b \in Seq(Nat) /\ k \in 1..Len(a) /\ Len(b) = Len(a) - 1
      /\ \A i \in 1..(Len(a) - 1) : b[i] = IF i < k THEN a[i] ELSE a[i + 1]
  <2>1. /\ a \in Seq(Nat) /\ b \in Seq(Nat) /\ Len(a) = Len(w) /\ Len(b) = Len(v)
        /\ \A i \in 1..Len(w) : a[i] = PartLength(w[i])
        /\ \A i \in 1..Len(v) : b[i] = PartLength(v[i])
    BY <1>1, <1>2
  <2>2. Len(v) \in Nat
    OBVIOUS
  <2> QED BY <1>2, <2>1, <2>2
<1>4. SumFunction(b) = SumFunction(a) - a[k]
  BY ONLY <1>3, SumWithout
<1>5. a[k] = PartLength(w[1]) /\ a[k] \in Nat /\ SumFunction(a) \in Nat
  <2>1. 1 \in 1..Len(w)
    OBVIOUS
  <2>2. SumFunction(a) \in Nat
    BY ONLY <1>3, SumOfSeq
  <2> QED BY <1>1, <1>2, <2>1, <2>2, PartLengthType
<1>6. PathLength(w) = Len(w) - 1 + SumFunction(a) /\ PathLength(v) = Len(v) - 1 + SumFunction(b)
  BY <1>2 DEF PathLength, PartLengths
<1>7. Len(v) \in Nat
  OBVIOUS
<1>8. SumFunction(a) = SumFunction(b) + PartLength(w[1]) /\ SumFunction(b) \in Int
  BY <1>4, <1>5
<1>9. PartLength(w[1]) \in Nat
  BY PartLengthType
<1> HIDE DEF PathLength
<1> QED BY <1>6, <1>7, <1>8, <1>9

\* "/src/" is five bytes long.
LEMMA LengthOfSource ==
  ASSUME NEW n \in Seq(Part), PathLength(n) \in Int
  PROVE  PathLength(SourcePath(n)) = PathLength(n) + 5
<1>1. PICK w, v : w = SourcePath(n) /\ v = FileName(n)
  OBVIOUS
<1>2. /\ w \in Seq(Part) /\ v \in Seq(Part) /\ Len(v) = Len(n) + 1 /\ Len(w) = Len(v) + 1
      /\ w[1] = Empty /\ v[1] = "src" /\ w[2] = "src"
      /\ \A i \in 1..Len(n) : w[i + 2] = n[i] /\ v[i + 1] = n[i]
  <2>1. /\ w \in Seq(Part) /\ Len(w) = Len(n) + 2 /\ w[1] = Empty /\ w[2] = "src"
        /\ \A i \in 1..Len(n) : w[i + 2] = n[i]
        /\ v \in Seq(Part) /\ Len(v) = Len(n) + 1 /\ v[1] = "src"
        /\ \A i \in 1..Len(n) : v[i + 1] = n[i]
    BY <1>1, Zenon, SourcePathParts
  <2> QED BY <2>1
<1>3. \A i \in 1..Len(n) : v[i + 1] = n[i]
  BY <1>2
<1>4. ASSUME NEW i \in 1..Len(v) PROVE w[i + 1] = v[i]
  <2>1. Len(n) \in Nat
    OBVIOUS
  <2>2. CASE i = 1
    BY <1>2, <2>2
  <2>3. CASE i # 1
    <3>1. PICK j \in 1..Len(n) : i = j + 1
      BY <1>2, <2>1, <2>3
    <3>2. w[j + 2] = n[j] /\ v[j + 1] = n[j] /\ i + 1 = j + 2
      BY <1>2, <3>1
    <3> QED BY <3>1, <3>2
  <2> QED BY <2>2, <2>3
<1>5. PathLength(v) = PathLength(n) + 1 + PartLength(v[1])
  BY <1>2, <1>3, PathLengthBehind
<1>6. PathLength(w) = PathLength(v) + 1 + PartLength(w[1])
  BY <1>2, <1>4, PathLengthBehind
<1>7. PartLength("src") = 3
  BY EmptyIsNoName DEF PartLength
<1>8. PartLength(Empty) = 0
  BY EmptyIsNoName DEF PartLength
<1> QED BY <1>1, <1>2, <1>5, <1>6, <1>7, <1>8

\* A path that valid_path accepts is plain, has at least one part, at most
\* MAX_PATH + 1, and spinfoam.h is none of them.
LEMMA ValidPathIsPlain ==
  ASSUME NEW n \in Seq(STRING), valid_path(n)
  PROVE  /\ Plain(n) /\ Len(n) \in 1..(MAX_PATH + 1)
         /\ PathLength(n) \in 1..MAX_PATH
         /\ n[1] # "spinfoam.h"
<1>1. /\ PathLength(n) \in 1..MAX_PATH
      /\ \A i \in 1..Len(n) : n[i] \notin {Empty, ".", "..", "spinfoam.h"}
  <2>1. PathLength(n) \in 1..MAX_PATH
    BY DEF valid_path
  <2>2. ToSet(n) \cap {Empty, "bad", ".", "..", "spinfoam.h"} = {}
    BY DEF valid_path
  <2>3. \A i \in 1..Len(n) : n[i] \in ToSet(n)
    BY DEF ToSet
  <2> QED BY <2>1, <2>2, <2>3
<1>2. Plain(n)
  <2>1. n \in Seq(Part)
    BY DEF Part
  <2> QED BY <1>1, <2>1 DEF Plain
<1>3. SumFunction(PartLengths(n)) \in Nat /\ PathLength(n) = Len(n) - 1 + SumFunction(PartLengths(n))
  <2>1. PartLengths(n) \in Seq(Nat)
    BY LengthsOfParts
  <2>2. SumFunction(PartLengths(n)) \in Nat
    BY <2>1, SumOfSeq
  <2> QED BY <2>2 DEF PathLength, PartLengths
<1>4. n # <<>>
  <2>1. ASSUME n = <<>> PROVE FALSE
    <3>1. PartLengths(n) = <<>> /\ Len(n) = 0
      BY <2>1 DEF PartLengths
    <3>2. SumFunction(PartLengths(n)) = 0
      BY <3>1, EmptySum
    <3> QED BY <1>1, <1>3, <3>1, <3>2
  <2> QED BY <2>1
<1>5. Len(n) \in 1..(MAX_PATH + 1)
  <2>1. Len(n) \in Nat /\ Len(n) # 0
    BY <1>4
  <2>2. MAX_PATH \in Nat
    BY BuildAssumption
  <2>3. PathLength(n) \in Int /\ PathLength(n) <= MAX_PATH
    BY <1>1, <2>2
  <2>4. Len(n) <= MAX_PATH + 1
    BY <1>3, <2>1, <2>2, <2>3
  <2> QED BY <2>1, <2>2, <2>4
<1>6. n[1] # "spinfoam.h"
  <2>1. 1 \in 1..Len(n)
    BY <1>5, BuildAssumption
  <2> QED BY <1>1, <2>1
<1> QED BY <1>1, <1>2, <1>5, <1>6

-----------------------------------------------------------------------------
(* The bundle.                                                             *)

\* What run() makes of a request.
Loaded(r) ==
  [p \in {<<"src">> \o n : n \in DOMAIN r.files} \cup {Header} |->
     IF p = Header THEN SDK ELSE r.files[Tail(p)]]

\* Every file of a valid request is found under its own path.
LEMMA SourceIsFound ==
  ASSUME request.files \in Bundles, Valid(request), NEW n \in DOMAIN request.files
  PROVE  /\ Plain(n) /\ Len(n) \in 1..(MAX_PATH + 1) /\ n \in Seq(Part) /\ n[1] # "spinfoam.h"
         /\ PathLength(SourcePath(n)) <= MAX_NAME
         /\ FileName(n) # Header /\ FileName(n) \in DOMAIN Loaded(request)
         /\ Loaded(request)[FileName(n)] = request.files[n]
<1>1. n \in Seq(STRING) /\ valid_path(n)
  BY ContentAssumption DEF Valid, PathsOfNames
<1>2. /\ Plain(n) /\ Len(n) \in 1..(MAX_PATH + 1) /\ n[1] # "spinfoam.h"
      /\ PathLength(n) \in 1..MAX_PATH
  BY <1>1, ValidPathIsPlain
<1>3. n \in Seq(Part)
  BY <1>2 DEF Plain
<1>4. PathLength(SourcePath(n)) <= MAX_NAME
  <2>1. PathLength(n) \in Int /\ PathLength(n) <= MAX_PATH /\ MAX_PATH \in Nat /\ MAX_NAME \in Nat
    BY <1>2, BuildAssumption
  <2>2. PathLength(SourcePath(n)) = PathLength(n) + 5
    BY <1>3, <2>1, LengthOfSource
  <2> QED BY <2>1, <2>2, BuildAssumption
<1>5. FileName(n) # Header
  <2>1. FileName(n)[2] = n[1]
    <3>1. \A i \in 1..Len(n) : FileName(n)[i + 1] = n[i]
      BY <1>3, SourcePathParts
    <3>2. 1 \in 1..Len(n) /\ 1 + 1 = 2
      BY <1>2, BuildAssumption
    <3> QED BY <3>1, <3>2
  <2> QED BY <1>2, <2>1 DEF Header
<1>6. FileName(n) \in DOMAIN Loaded(request)
  BY DEF Loaded, FileName
<1>7. Tail(FileName(n)) = n
  <2>1. PICK w : w = FileName(n)
    OBVIOUS
  <2>2. /\ w \in Seq(Part) /\ Len(w) = Len(n) + 1
        /\ \A i \in 1..Len(n) : w[i + 1] = n[i]
    BY <1>3, <2>1, Zenon, SourcePathParts
  <2>3. /\ Tail(w) \in Seq(Part) /\ Len(Tail(w)) = Len(n)
        /\ \A i \in 1..Len(n) : Tail(w)[i] = w[i + 1]
    BY <1>3, <2>2
  <2>4. Tail(w) = n
    BY <1>3, <2>2, <2>3
  <2> QED BY <2>1, <2>4
<1>8. Loaded(request)[FileName(n)] = request.files[n]
  BY <1>5, <1>6, <1>7 DEF Loaded
<1> QED BY <1>2, <1>3, <1>4, <1>5, <1>6, <1>8

\* A strict prefix is shorter and agrees with what it is a prefix of.
LEMMA StrictPrefixParts ==
  ASSUME NEW S, NEW p \in Seq(S), NEW r \in Seq(S), IsStrictPrefix(p, r)
  PROVE  /\ Len(p) < Len(r)
         /\ \A i \in 1..Len(p) : p[i] = r[i]
<1>1. Len(p) <= Len(r) /\ SubSeq(p, 1, Len(p)) = SubSeq(r, 1, Len(p)) /\ p # r
  BY DEF IsStrictPrefix, IsPrefix
<1>2. ASSUME NEW i \in 1..Len(p) PROVE p[i] = r[i]
  <2>1. SubSeq(p, 1, Len(p))[i] = p[i]
    OBVIOUS
  <2>2. SubSeq(r, 1, Len(p))[i] = r[i]
    BY <1>1
  <2> QED BY <1>1, <2>1, <2>2
<1>3. Len(p) # Len(r)
  BY <1>1, <1>2
<1> QED BY <1>1, <1>2, <1>3

\* No file of a valid request is a directory of another.
LEMMA NoFileIsDirectory ==
  ASSUME request.files \in Bundles, Valid(request),
         NEW p \in DOMAIN Loaded(request), NEW r \in DOMAIN Loaded(request)
  PROVE  ~IsStrictPrefix(p, r)
<1> SUFFICES ASSUME IsStrictPrefix(p, r) PROVE FALSE
  OBVIOUS
<1>1. \A x \in DOMAIN Loaded(request) :
        x = Header \/ \E n \in DOMAIN request.files : x = FileName(n)
  BY DEF Loaded, FileName
<1>2. \A n \in DOMAIN request.files :
        /\ n \in Seq(Part) /\ Len(n) \in Nat /\ Len(n) >= 1 /\ Len(n) <= MAX_PATH + 1
        /\ n[1] # "spinfoam.h"
  BY SourceIsFound, BuildAssumption
<1>3. \A n \in DOMAIN request.files :
        /\ FileName(n) \in Seq(Part) /\ Len(FileName(n)) = Len(n) + 1
        /\ \A i \in 1..Len(n) : FileName(n)[i + 1] = n[i]
  BY <1>2, SourcePathParts
<1>4. Header \in Seq(Part) /\ Len(Header) = 2 /\ Header[2] = "spinfoam.h"
  BY DEF Header, Part
<1>10. Len(Header) = 2
  BY DEF Header
<1>5. p \in Seq(Part) /\ r \in Seq(Part)
  BY <1>1, <1>3, <1>4
<1>6. Len(p) < Len(r) /\ Len(p) \in Nat /\ \A i \in 1..Len(p) : p[i] = r[i]
  BY <1>5, StrictPrefixParts
<1>7. PICK n \in DOMAIN request.files : r = FileName(n)
  <2>1. r # Header
    <3>1. \A m \in DOMAIN request.files : Len(FileName(m)) >= 2
      BY <1>2, <1>3
    <3>2. Len(p) >= 2
      <4>1. CASE p = Header
        <5>1. Len(p) = 2
          BY Zenon, <1>10, <4>1
        <5> QED BY <5>1
      <4>2. ASSUME NEW m \in DOMAIN request.files, p = FileName(m) PROVE Len(p) >= 2
        BY <3>1, <4>2
      <4> QED BY <1>1, <4>1, <4>2
    <3>3. Len(r) >= 3
      BY <1>5, <1>6, <3>2
    <3>4. r = Header => Len(r) = 2
      BY <1>10
    <3>5. Len(r) # 2
      BY <3>3
    <3> QED BY <3>4, <3>5
  <2> QED BY <1>1, <2>1
<1>8. CASE p = Header
  <2>1. r[2] = "spinfoam.h"
    <3>1. 2 \in 1..Len(p)
      BY <1>8, <1>10
    <3> QED BY <1>4, <1>6, <1>8, <3>1
  <2>2. r[1 + 1] = n[1]
    BY <1>2, <1>3, <1>7
  <2> QED BY <1>2, <2>1, <2>2
<1>9. ASSUME NEW m \in DOMAIN request.files, p = FileName(m) PROVE FALSE
  <2>1. Len(m) < Len(n) /\ Len(m) \in 1..MAX_PATH
    <3>1. Len(p) = Len(m) + 1 /\ Len(r) = Len(n) + 1
      BY <1>3, <1>7, <1>9
    <3>2. Len(m) \in Nat /\ Len(m) >= 1 /\ Len(n) \in Nat /\ Len(n) <= MAX_PATH + 1
      BY <1>2
    <3>3. Len(m) < Len(n)
      BY <1>6, <3>1, <3>2
    <3>4. MAX_PATH \in Nat
      BY BuildAssumption
    <3> QED BY <3>2, <3>3, <3>4
  <2>2. \A i \in 1..Len(m) : n[i] = m[i]
    <3>1. ASSUME NEW i \in 1..Len(m) PROVE n[i] = m[i]
      <4>1. i + 1 \in 1..Len(p)
        BY <1>2, <1>3, <1>9
      <4>2. p[i + 1] = r[i + 1]
        BY <1>6, <4>1
      <4>3. p[i + 1] = m[i]
        BY <1>3, <1>9
      <4>4. r[i + 1] = n[i]
        <5>1. i \in 1..Len(n)
          BY <1>2, <2>1
        <5> QED BY <1>3, <1>7, <5>1
      <4> QED BY <4>2, <4>3, <4>4
    <3> QED BY <3>1
  <2>3. SubSeq(n, 1, Len(m)) = m
    BY <1>2, <2>1, <2>2
  <2>4. \A i \in 1..MAX_PATH : i < Len(n) => SubSeq(n, 1, i) \notin DOMAIN request.files
    BY DEF Valid
  <2> QED BY <2>1, <2>3, <2>4
<1> QED BY <1>1, <1>8, <1>9

-----------------------------------------------------------------------------
(* The compiler's view of the bundle, and its open files.                  *)

\* While the compiler runs, its files are those of a valid bundle.
RunsOnBundle ==
  /\ request.files \in Bundles
  /\ phase = "running" => Valid(request) /\ files = Loaded(request)

\* Descriptors are given in order, and none before the compiler runs.
DescriptorsAreOld ==
  /\ open \in [DOMAIN open -> [file : DOMAIN files, offset : Nat]]
  /\ IsFiniteSet(DOMAIN open)
  /\ DOMAIN open \subseteq 3..(next + 2)
  /\ phase = "received" => DOMAIN open = {}

\* The inductive invariant.
IndInv == RunsOnBundle /\ OpenFilesAreSound /\ DescriptorsAreOld

\* Loaded files have lengths.
LEMMA LengthsOfFiles ==
  ASSUME RunsOnBundle, phase = "running", NEW p \in DOMAIN files
  PROVE  files[p].len \in Nat
<1>1. request.files \in Bundles /\ Valid(request) /\ files = Loaded(request)
  BY DEF RunsOnBundle
<1>2. CASE p = Header
  BY <1>1, <1>2, ContentAssumption DEF Loaded
<1>3. CASE p # Header
  <2>1. PICK n \in DOMAIN request.files : p = FileName(n)
    BY <1>1, <1>3 DEF Loaded, FileName
  <2>2. files[p] = request.files[n]
    BY <1>1, <2>1, SourceIsFound
  <2> QED BY <1>1, <2>2, ContentAssumption
<1> QED BY <1>2, <1>3

\* The request and its files stay, or the bundle is loaded.
LEMMA StepRunsOnBundle ==
  ASSUME IndInv, [Next]_bvars
  PROVE  RunsOnBundle'
<1>1. CASE Load
  BY <1>1 DEF IndInv, RunsOnBundle, Load, Loaded, Valid
<1>2. ASSUME UNCHANGED guest, phase' = "running" => phase = "running"
      PROVE  RunsOnBundle'
  BY <1>2 DEF IndInv, RunsOnBundle, guest, Loaded, Valid
<1>3. CASE Refuse \/ Trap \/ Exit(0) \/ Exit(1)
  BY <1>2, <1>3 DEF Refuse, Trap, Exit, Finish
<1>4. ASSUME NEW path \in Paths, OpenFile(path) PROVE RunsOnBundle'
  BY <1>2, <1>4 DEF OpenFile, Finish
<1>5. ASSUME NEW fd \in DOMAIN open, CloseFile(fd) \/ \E n \in 0..2 : ReadFile(fd, n)
      PROVE  RunsOnBundle'
  BY <1>2, <1>5 DEF CloseFile, ReadFile
<1>6. ASSUME NEW n \in 0..2, NEW elf \in BOOLEAN, WriteOutput(n, elf) PROVE RunsOnBundle'
  BY <1>2, <1>6 DEF WriteOutput, Finish
<1>7. ASSUME NEW s \in Messages, Diagnostic(s) PROVE RunsOnBundle'
  BY <1>2, <1>7 DEF Diagnostic
<1>8. CASE UNCHANGED bvars
  BY <1>2, <1>8 DEF bvars, guest
<1> QED BY <1>1, <1>3, <1>4, <1>5, <1>6, <1>7, <1>8 DEF Next

\* Nothing happens to descriptors, and what else they depend on fits.
LEMMA DescriptorsStay ==
  ASSUME IndInv, UNCHANGED <<open, next, files>>, TypeOK',
         phase' = "received" => phase = "received"
  PROVE  OpenFilesAreSound' /\ DescriptorsAreOld'
<1>1. DescriptorsAreOld'
  BY DEF IndInv, DescriptorsAreOld
<1>2. OpenFilesAreSound'
  BY DEF IndInv, OpenFilesAreSound
<1> QED BY <1>1, <1>2

\* A file is opened under a new descriptor, at its start.
LEMMA OpenStep ==
  ASSUME IndInv, NEW path, OpenFile(path)
  PROVE  OpenFilesAreSound' /\ DescriptorsAreOld'
<1>1. /\ TypeOK /\ Cardinality(DOMAIN open) <= MAX_OPEN
      /\ \A fd \in DOMAIN open : /\ fd \in 3..MAX_FD
                                /\ open[fd].file \in DOMAIN files
                                /\ open[fd].offset \in 0..files[open[fd].file].len
  BY DEF IndInv, OpenFilesAreSound
<1>2. /\ open \in [DOMAIN open -> [file : DOMAIN files, offset : Nat]]
      /\ IsFiniteSet(DOMAIN open)
      /\ DOMAIN open \subseteq 3..(next + 2)
  BY DEF IndInv, DescriptorsAreOld
<1>3. RunsOnBundle /\ phase = "running" /\ UNCHANGED <<files, output>>
  BY DEF IndInv, OpenFile, guest
<1>4. CASE next + 1 <= MAX_FD - 2
  <2> DEFINE name == virtual_path(path)
             fd == next + 3
  <2>1. /\ name \in DOMAIN files /\ Cardinality(DOMAIN open) < MAX_OPEN
        /\ next' = next + 1 /\ UNCHANGED <<phase, outcome>>
        /\ open' = [x \in DOMAIN open \cup {next' + 2} |->
                      IF x = next' + 2 THEN [file |-> name, offset |-> 0] ELSE open[x]]
    BY <1>4 DEF OpenFile, Opens
  <2> HIDE DEF name
  <2>2. next \in Nat /\ MAX_FD \in Nat /\ MAX_OPEN \in Nat /\ next' + 2 = fd /\ fd \in Nat
    BY <1>1, <2>1, BuildAssumption DEF TypeOK
  <2>3. fd \notin DOMAIN open /\ fd \in 3..MAX_FD
    BY <1>2, <1>4, <2>2, BuildAssumption
  <2>4. /\ DOMAIN open' = DOMAIN open \cup {fd}
        /\ open'[fd] = [file |-> name, offset |-> 0]
        /\ \A x \in DOMAIN open : open'[x] = open[x]
    BY <2>1, <2>2, <2>3
  <2>5. open' = [x \in DOMAIN open' |-> open'[x]]
    BY <2>1
  <2> HIDE DEF fd
  <2>6. IsFiniteSet(DOMAIN open') /\ Cardinality(DOMAIN open') = Cardinality(DOMAIN open) + 1
    BY <1>2, <2>3, <2>4, FS_AddElement
  <2>7. Cardinality(DOMAIN open') <= MAX_OPEN
    <3>1. Cardinality(DOMAIN open) \in Nat
      BY <1>2, FS_CardinalityType
    <3> QED BY <2>1, <2>2, <2>6, <3>1
  <2>8. files[name].len \in Nat
    BY <1>3, <2>1, LengthsOfFiles
  <2>9. \A x \in DOMAIN open' : /\ x \in 3..MAX_FD
                               /\ open'[x].file \in DOMAIN files
                               /\ open'[x].offset \in 0..files[open'[x].file].len
                               /\ open'[x] \in [file : DOMAIN files, offset : Nat]
    <3>1. \A x \in DOMAIN open : open'[x] \in [file : DOMAIN files, offset : Nat]
      BY <1>2, <2>4
    <3>2. /\ open'[fd] \in [file : DOMAIN files, offset : Nat]
          /\ open'[fd].file = name /\ open'[fd].offset = 0
      BY <2>1, <2>4
    <3>3. 0 \in 0..files[name].len
      BY <2>8
    <3> QED BY <1>1, <2>1, <2>3, <2>4, <3>1, <3>2, <3>3
  <2>10. open' \in [DOMAIN open' -> [file : DOMAIN files, offset : Nat]]
    BY <2>5, <2>9
  <2>11. DOMAIN open' \subseteq 3..(next' + 2)
    <3>1. fd \in 3..(next' + 2)
      BY <2>2, <2>3 DEF fd
    <3>2. \A x \in 3..(next + 2) : x \in 3..(next' + 2)
      BY <2>1, <2>2
    <3> QED BY <1>2, <2>4, <3>1, <3>2
  <2>12. TypeOK'
    <3>1. next' \in 0..(MAX_FD - 2)
      BY <1>4, <2>1, <2>2
    <3> QED BY <1>1, <1>3, <2>1, <3>1 DEF TypeOK
  <2>13. DescriptorsAreOld'
    BY <1>3, <2>1, <2>6, <2>10, <2>11 DEF DescriptorsAreOld
  <2>14. OpenFilesAreSound'
    BY <1>3, <2>7, <2>9, <2>12 DEF OpenFilesAreSound
  <2> QED BY <2>13, <2>14
<1>5. CASE ~(next + 1 <= MAX_FD - 2)
  <2>1. UNCHANGED <<open, next>> /\ phase' = "done" /\ outcome' = "failed"
    BY <1>5 DEF OpenFile, Finish
  <2>2. TypeOK'
    BY <1>1, <1>3, <2>1 DEF TypeOK
  <2> QED BY <1>3, <2>1, <2>2, DescriptorsStay
<1> QED BY <1>4, <1>5

\* A read moves the offset to the end of the file at most.
LEMMA ReadStep ==
  ASSUME IndInv, NEW fd \in DOMAIN open, NEW n \in 0..2, ReadFile(fd, n)
  PROVE  OpenFilesAreSound' /\ DescriptorsAreOld'
<1>1. /\ TypeOK /\ Cardinality(DOMAIN open) <= MAX_OPEN
      /\ \A x \in DOMAIN open : /\ x \in 3..MAX_FD
                               /\ open[x].file \in DOMAIN files
                               /\ open[x].offset \in 0..files[open[x].file].len
  BY DEF IndInv, OpenFilesAreSound
<1>2. /\ open \in [DOMAIN open -> [file : DOMAIN files, offset : Nat]]
      /\ IsFiniteSet(DOMAIN open)
      /\ DOMAIN open \subseteq 3..(next + 2)
  BY DEF IndInv, DescriptorsAreOld
<1>3. /\ RunsOnBundle /\ phase = "running" /\ UNCHANGED <<files, output, next, phase, outcome>>
      /\ open' = [open EXCEPT ![fd].offset = @ + ReadCount(fd, n)]
  BY DEF IndInv, ReadFile, guest
<1>4. files[open[fd].file].len \in Nat
  BY <1>1, <1>3, LengthsOfFiles
<1>5. open[fd].offset + ReadCount(fd, n) \in 0..files[open[fd].file].len
  <2> DEFINE l == files[open[fd].file].len
             o == open[fd].offset
  <2>1. l \in Nat /\ o \in 0..l /\ ReadCount(fd, n) = Min({n, l - o})
    BY <1>1, <1>4 DEF ReadCount
  <2> HIDE DEF l, o
  <2>2. \A T : T = {n, l - o} => T \in SUBSET Nat /\ T # {}
    BY <2>1
  <2>3. \A T : T = {n, l - o} => Min(T) \in T /\ \A y \in T : Min(T) <= y
    BY <2>2, MinOfNats
  <2>4. ReadCount(fd, n) \in Nat /\ ReadCount(fd, n) <= l - o
    BY <2>1, <2>3
  <2>5. o + ReadCount(fd, n) \in 0..l
    BY <2>1, <2>4
  <2> QED BY <2>5 DEF l, o
<1>6. /\ DOMAIN open' = DOMAIN open
      /\ \A x \in DOMAIN open : x # fd => open'[x] = open[x]
      /\ open'[fd].file = open[fd].file
      /\ open'[fd].offset = open[fd].offset + ReadCount(fd, n)
      /\ open'[fd] = [open[fd] EXCEPT !.offset = @ + ReadCount(fd, n)]
  BY <1>2, <1>3
<1>7. \A x \in DOMAIN open' : /\ x \in 3..MAX_FD
                             /\ open'[x].file \in DOMAIN files
                             /\ open'[x].offset \in 0..files[open'[x].file].len
  BY <1>1, <1>5, <1>6
<1>8. open' \in [DOMAIN open' -> [file : DOMAIN files, offset : Nat]]
  <2>1. open[fd].offset + ReadCount(fd, n) \in Nat
    BY <1>4, <1>5
  <2>2. open'[fd] \in [file : DOMAIN files, offset : Nat]
    BY <1>2, <1>6, <2>1
  <2>3. open' = [x \in DOMAIN open' |-> open'[x]]
    BY <1>2, <1>3
  <2>4. \A x \in DOMAIN open' : open'[x] \in [file : DOMAIN files, offset : Nat]
    BY <1>2, <1>6, <2>2
  <2> QED BY <2>3, <2>4
<1>9. TypeOK'
  BY <1>1, <1>3 DEF TypeOK
<1>10. DescriptorsAreOld'
  BY <1>2, <1>3, <1>6, <1>8 DEF DescriptorsAreOld
<1>11. OpenFilesAreSound'
  BY <1>1, <1>3, <1>6, <1>7, <1>9 DEF OpenFilesAreSound
<1> QED BY <1>10, <1>11

\* A close only takes a descriptor away.
LEMMA CloseStep ==
  ASSUME IndInv, NEW fd, CloseFile(fd)
  PROVE  OpenFilesAreSound' /\ DescriptorsAreOld'
<1>1. /\ TypeOK /\ Cardinality(DOMAIN open) <= MAX_OPEN
      /\ \A x \in DOMAIN open : /\ x \in 3..MAX_FD
                               /\ open[x].file \in DOMAIN files
                               /\ open[x].offset \in 0..files[open[x].file].len
  BY DEF IndInv, OpenFilesAreSound
<1>2. /\ open \in [DOMAIN open -> [file : DOMAIN files, offset : Nat]]
      /\ IsFiniteSet(DOMAIN open)
      /\ DOMAIN open \subseteq 3..(next + 2)
  BY DEF IndInv, DescriptorsAreOld
<1>3. /\ phase = "running" /\ UNCHANGED <<files, output, next, phase, outcome>>
      /\ open' = [x \in DOMAIN open \ {fd} |-> open[x]]
  BY DEF CloseFile, guest
<1>4. IsFiniteSet(DOMAIN open') /\ Cardinality(DOMAIN open') <= MAX_OPEN
  <2>1. DOMAIN open' \in SUBSET DOMAIN open
    BY <1>3
  <2>2. /\ IsFiniteSet(DOMAIN open')
        /\ Cardinality(DOMAIN open') <= Cardinality(DOMAIN open)
    BY <1>2, <2>1, FS_Subset
  <2>3. /\ Cardinality(DOMAIN open) \in Nat /\ Cardinality(DOMAIN open') \in Nat
    BY <1>2, <2>2, FS_CardinalityType
  <2> QED BY <1>1, <2>2, <2>3, BuildAssumption
<1>5. DescriptorsAreOld'
  BY <1>2, <1>3, <1>4 DEF DescriptorsAreOld
<1>6. OpenFilesAreSound'
  BY <1>1, <1>3, <1>4 DEF OpenFilesAreSound, TypeOK
<1> QED BY <1>5, <1>6

\* The inductive invariant holds in the first states and in every step.
THEOREM InductiveInvariant == Spec => []IndInv
<1>1. ASSUME Init PROVE IndInv
  <2>1. request.files \in Bundles /\ phase = "received"
    BY <1>1 DEF Init
  <2>2. TypeOK
    BY <1>1, BuildAssumption DEF Init, TypeOK
  <2>3. open = <<>>
    BY <1>1 DEF Init
  <2>4. DOMAIN open = {} /\ open \in [DOMAIN open -> [file : DOMAIN files, offset : Nat]]
    BY <2>3
  <2>5. IsFiniteSet(DOMAIN open) /\ Cardinality(DOMAIN open) <= MAX_OPEN
    BY <2>4, FS_EmptySet, BuildAssumption
  <2>6. RunsOnBundle
    BY <2>1 DEF RunsOnBundle
  <2>7. OpenFilesAreSound
    BY <2>2, <2>4, <2>5 DEF OpenFilesAreSound
  <2>8. DescriptorsAreOld
    BY <2>4, <2>5 DEF DescriptorsAreOld
  <2> QED BY <2>6, <2>7, <2>8 DEF IndInv
<1>2. ASSUME IndInv, [Next]_bvars PROVE IndInv'
  <2>1. RunsOnBundle'
    BY <1>2, StepRunsOnBundle
  <2>2. TypeOK /\ open \in [DOMAIN open -> [file : DOMAIN files, offset : Nat]]
    BY <1>2 DEF IndInv, OpenFilesAreSound, DescriptorsAreOld
  <2>3. OpenFilesAreSound' /\ DescriptorsAreOld'
    <3>1. CASE Refuse \/ Trap \/ Exit(0) \/ Exit(1)
      <4>1. UNCHANGED <<open, next, files, output>> /\ phase' = "done"
        BY <3>1 DEF Refuse, Trap, Exit, Finish, guest
      <4>2. outcome' \in {"INVALID_PARAMS", "SANDBOX_UNAVAILABLE", "failed", "succeeded"}
        BY <3>1 DEF Refuse, Trap, Exit, Finish
      <4>3. TypeOK'
        BY <2>2, <4>1, <4>2 DEF TypeOK
      <4> QED BY <1>2, <4>1, <4>3, DescriptorsStay
    <3>2. CASE Load
      <4>1. /\ phase = "received" /\ phase' = "running"
            /\ UNCHANGED <<open, next, output, outcome>>
        BY <3>2 DEF Load
      <4>2. TypeOK'
        BY <2>2, <4>1 DEF TypeOK
      <4>3. open = open' /\ DOMAIN open = {} /\ Cardinality(DOMAIN open) <= MAX_OPEN
        BY <1>2, <4>1 DEF IndInv, DescriptorsAreOld, OpenFilesAreSound
      <4>4. OpenFilesAreSound'
        BY <4>2, <4>3 DEF OpenFilesAreSound
      <4>5. open' \in [DOMAIN open' -> [file : DOMAIN files', offset : Nat]]
        BY <2>2, <4>3
      <4>6. DescriptorsAreOld'
        BY <1>2, <4>1, <4>3, <4>5 DEF IndInv, DescriptorsAreOld
      <4> QED BY <4>4, <4>6
    <3>3. ASSUME NEW path \in Paths, OpenFile(path)
          PROVE  OpenFilesAreSound' /\ DescriptorsAreOld'
      BY <1>2, <3>3, OpenStep
    <3>4. ASSUME NEW fd \in DOMAIN open, CloseFile(fd)
          PROVE  OpenFilesAreSound' /\ DescriptorsAreOld'
      BY <1>2, <3>4, CloseStep
    <3>5. ASSUME NEW fd \in DOMAIN open, NEW n \in 0..2, ReadFile(fd, n)
          PROVE  OpenFilesAreSound' /\ DescriptorsAreOld'
      BY <1>2, <3>5, ReadStep
    <3>6. ASSUME NEW n \in 0..2, NEW elf \in BOOLEAN, WriteOutput(n, elf)
          PROVE  OpenFilesAreSound' /\ DescriptorsAreOld'
      <4>1. phase = "running" /\ UNCHANGED <<open, next, files>>
        BY <3>6 DEF WriteOutput, guest
      <4>2. phase' \in {"running", "done"} /\ (outcome' = outcome \/ outcome' = "failed")
        BY <3>6, <4>1 DEF WriteOutput, Finish
      <4>3. output'.len \in 0..MAX_OUTPUT
        <5>1. output.len \in 0..MAX_OUTPUT /\ MAX_OUTPUT \in Nat
          BY <2>2, BuildAssumption DEF TypeOK
        <5>2. \/ output' = output
              \/ n <= MAX_OUTPUT - output.len /\ output'.len = output.len + n
          BY <3>6, <5>1 DEF WriteOutput
        <5>3. CASE output' = output
          BY <5>1, <5>3
        <5>4. CASE n <= MAX_OUTPUT - output.len /\ output'.len = output.len + n
          BY <5>1, <5>4
        <5> QED BY <5>2, <5>3, <5>4
      <4>4. TypeOK'
        BY <2>2, <4>1, <4>2, <4>3 DEF TypeOK
      <4> QED BY <1>2, <4>1, <4>2, <4>4, DescriptorsStay
    <3>7. ASSUME NEW s \in Messages, Diagnostic(s)
          PROVE  OpenFilesAreSound' /\ DescriptorsAreOld'
      <4>1. UNCHANGED <<phase, outcome, open, next, files, output>>
        BY <3>7 DEF Diagnostic, guest
      <4>2. TypeOK'
        BY <2>2, <4>1 DEF TypeOK
      <4> QED BY <1>2, <4>1, <4>2, DescriptorsStay
    <3>8. CASE UNCHANGED bvars
      <4>1. UNCHANGED <<phase, outcome, open, next, files, output>>
        BY <3>8 DEF bvars
      <4>2. TypeOK'
        BY <2>2, <4>1 DEF TypeOK
      <4> QED BY <1>2, <4>1, <4>2, DescriptorsStay
    <3> QED
      BY <1>2, <3>1, <3>2, <3>3, <3>4, <3>5, <3>6, <3>7, <3>8 DEF Next
  <2> QED BY <2>1, <2>3 DEF IndInv
<1> QED BY <1>1, <1>2, PTL DEF Spec

\* compiler.rs: a descriptor is never one of the standard three, never past
\* i32, names a file under /src and never points past its end; and there are
\* never more than MAX_OPEN.
THEOREM DescriptorsAreSound == Spec => []OpenFilesAreSound
<1>1. IndInv => OpenFilesAreSound
  BY DEF IndInv
<1> QED BY <1>1, InductiveInvariant, PTL

\* A bundle that Request::validate accepts is what the compiler sees: every
\* source file under its own path with its own content, the SDK at its place,
\* no file a directory of another.
THEOREM CompilerSeesTheBundle == Spec => []BundleIsReachable
<1>1. ASSUME IndInv PROVE BundleIsReachable
  <2> SUFFICES ASSUME phase = "running" PROVE BundleIsReachable
    BY DEF BundleIsReachable
  <2>1. request.files \in Bundles /\ Valid(request) /\ files = Loaded(request)
    BY <1>1 DEF IndInv, RunsOnBundle
  <2>2. files[Header] = SDK
    BY <2>1 DEF Loaded
  <2>3. ASSUME NEW n \in DOMAIN request.files
        PROVE  /\ PathLength(SourcePath(n)) <= MAX_NAME
               /\ virtual_path(SourcePath(n)) \in DOMAIN files
               /\ files[virtual_path(SourcePath(n))] = request.files[n]
    <3>1. virtual_path(SourcePath(n)) = FileName(n)
      BY <2>1, SourceIsFound, VirtualPathOfSource
    <3> QED BY <2>1, <3>1, SourceIsFound
  <2>4. \A p, r \in DOMAIN files : ~IsStrictPrefix(p, r)
    BY <2>1, NoFileIsDirectory
  <2> QED BY <2>2, <2>3, <2>4 DEF BundleIsReachable, SourcePath
<1> QED BY <1>1, InductiveInvariant, PTL

-----------------------------------------------------------------------------
(* Diagnostics.                                                            *)

\* The two measures of a text.
Measures == {"raw", "text"}

\* The characters of a text by one of them.
Widths(s, width) == [i \in DOMAIN s |-> s[i][width]]

\* Characters have both.
LEMMA WidthsType ==
  ASSUME NEW s \in Seq(Characters), NEW width \in Measures
  PROVE  /\ Widths(s, width) \in Seq(Nat) /\ Len(Widths(s, width)) = Len(s)
         /\ \A i \in 1..Len(s) : Widths(s, width)[i] = s[i][width]
         /\ Bytes(s, width) \in Nat
<1>1. \A c \in Characters : c[width] \in Nat
  BY DEF Characters, Measures
<1>2. \A i \in 1..Len(s) : s[i][width] \in Nat
  BY <1>1
<1>3. /\ Widths(s, width) \in Seq(Nat) /\ Len(Widths(s, width)) = Len(s)
      /\ \A i \in 1..Len(s) : Widths(s, width)[i] = s[i][width]
  BY <1>2 DEF Widths
<1>4. Bytes(s, width) = SumFunction(Widths(s, width))
  BY DEF Bytes, Widths
<1> QED BY <1>3, <1>4, SumOfSeq

\* One character more.
LEMMA BytesOfAppend ==
  ASSUME NEW s \in Seq(Characters), NEW c \in Characters, NEW width \in Measures
  PROVE  Bytes(Append(s, c), width) = Bytes(s, width) + c[width]
<1>1. PICK t : t = Append(s, c)
  OBVIOUS
<1>2. /\ t \in Seq(Characters) /\ Len(t) = Len(s) + 1
      /\ \A i \in 1..Len(s) : t[i] = s[i]
      /\ t[Len(s) + 1] = c
  BY <1>1
<1>3. PICK a, b, e : a = Widths(s, width) /\ b = Widths(t, width) /\ e = c[width]
  OBVIOUS
<1>4. /\ a \in Seq(Nat) /\ Len(a) = Len(s) /\ \A i \in 1..Len(s) : a[i] = s[i][width]
      /\ b \in Seq(Nat) /\ Len(b) = Len(t) /\ \A i \in 1..Len(t) : b[i] = t[i][width]
  BY <1>2, <1>3, WidthsType
<1>5. e \in Nat
  BY <1>3 DEF Characters, Measures
<1>6. b = Append(a, e)
  <2>1. /\ Append(a, e) \in Seq(Nat) /\ Len(Append(a, e)) = Len(a) + 1
        /\ \A i \in 1..Len(a) : Append(a, e)[i] = a[i]
        /\ Append(a, e)[Len(a) + 1] = e
    BY <1>4, <1>5
  <2>2. Len(a) \in Nat
    BY <1>4
  <2>3. b[Len(s) + 1] = e
    <3>1. Len(s) + 1 \in 1..Len(t)
      BY <1>2
    <3> QED BY <1>2, <1>3, <1>4, <3>1
  <2>4. ASSUME NEW i \in 1..Len(s) PROVE b[i] = a[i]
    <3>1. i \in 1..Len(t)
      BY <1>2
    <3> QED BY <1>2, <1>4, <3>1
  <2>5. ASSUME NEW i \in 1..(Len(a) + 1) PROVE b[i] = Append(a, e)[i]
    <3>1. CASE i = Len(a) + 1
      BY <1>4, <2>1, <2>3, <3>1
    <3>2. CASE i # Len(a) + 1
      BY <1>4, <2>1, <2>2, <2>4, <3>2
    <3> QED BY <3>1, <3>2
  <2>6. Len(b) = Len(a) + 1
    BY <1>2, <1>4
  <2> QED BY <1>4, <2>1, <2>5, <2>6
<1>7. SumFunction(Append(a, e)) = SumFunction(a) + e
  BY ONLY <1>4, <1>5, SumAppend
<1>8. Bytes(s, width) = SumFunction(a) /\ Bytes(t, width) = SumFunction(b)
  BY <1>3 DEF Bytes, Widths
<1> QED BY <1>1, <1>3, <1>6, <1>7, <1>8

\* A prefix is as long as it may be: it fits, it is the whole text if that
\* fits, and it is shorter if not.
LEMMA PrefixFits ==
  ASSUME NEW s \in Seq(Characters), NEW width \in Measures, NEW max \in Nat
  PROVE  /\ Prefix(s, width, max) \in Seq(Characters)
         /\ Bytes(Prefix(s, width, max), width) <= max
         /\ Bytes(s, width) <= max => Prefix(s, width, max) = s
         /\ Bytes(s, width) > max => Len(Prefix(s, width, max)) < Len(s)
<1> DEFINE T == {i \in 0..Len(s) : Bytes(SubSeq(s, 1, i), width) <= max}
<1>1. PICK k : k = Max(T)
  OBVIOUS
<1>2. Prefix(s, width, max) = SubSeq(s, 1, k)
  BY <1>1 DEF Prefix
<1>3. Len(s) \in Nat
  OBVIOUS
<1>4. Bytes(<<>>, width) = 0
  <2>1. Bytes(<<>>, width) = SumFunction(Widths(<<>>, width))
    BY DEF Bytes, Widths
  <2>2. Widths(<<>>, width) = <<>>
    BY DEF Widths
  <2> QED BY <2>1, <2>2, EmptySum
<1>5. SubSeq(s, 1, 0) = <<>> /\ SubSeq(s, 1, Len(s)) = s
  OBVIOUS
<1>6. T \in SUBSET Nat /\ T # {} /\ \A y \in T : y <= Len(s)
  <2>1. 0 \in T
    <3>1. Bytes(SubSeq(s, 1, 0), width) <= max
      <4>1. Bytes(SubSeq(s, 1, 0), width) = 0
        BY Zenon, <1>4, <1>5
      <4> QED BY <4>1
    <3>2. 0 \in 0..Len(s)
      BY <1>3
    <3> QED BY Zenon, <3>1, <3>2
  <2> QED BY <1>3, <2>1
<1>7. k \in T /\ \A y \in T : y <= k
  <2> HIDE DEF T
  <2> QED BY <1>1, <1>3, <1>6, MaxOfNats
<1>8. k \in 0..Len(s) /\ Bytes(SubSeq(s, 1, k), width) <= max
  BY <1>7
<1>9. SubSeq(s, 1, k) \in Seq(Characters) /\ Len(SubSeq(s, 1, k)) = k
  BY <1>3, <1>8
<1>10. ASSUME Bytes(s, width) <= max PROVE SubSeq(s, 1, k) = s
  <2>1. Len(s) \in T
    <3>1. Bytes(SubSeq(s, 1, Len(s)), width) <= max
      BY Zenon, <1>5, <1>10
    <3>2. Len(s) \in 0..Len(s)
      BY <1>3
    <3> QED BY Zenon, <3>1, <3>2
  <2>2. k = Len(s)
    BY <1>3, <1>7, <1>8, <2>1
  <2> QED BY <1>5, <2>2
<1>11. ASSUME Bytes(s, width) > max PROVE Len(SubSeq(s, 1, k)) < Len(s)
  <2>1. k # Len(s)
    <3>1. ASSUME k = Len(s) PROVE FALSE
      <4>1. Bytes(s, width) <= max
        BY <1>5, <1>8, <3>1
      <4>2. Bytes(s, width) \in Nat
        BY WidthsType
      <4> QED BY <1>11, <4>1, <4>2
    <3> QED BY <3>1
  <2> QED BY <1>3, <1>8, <1>9, <2>1
<1> HIDE DEF T
<1> QED BY <1>2, <1>8, <1>9, <1>10, <1>11

\* A diagnostic is cut exactly if not all of it is kept, a newline included.
LEMMA CutIsWhatIsMissing ==
  ASSUME NEW s \in Seq(Characters), NEW remaining \in Nat,
         NEW message, message = Append(Clipped(s), Newline),
         NEW kept, kept = Truncate(message, remaining)
  PROVE  /\ Bytes(kept, "text") \in Nat /\ Bytes(kept, "text") <= remaining
         /\ IsCut(s, message, remaining) <=> kept # Append(s, Newline)
<1> DEFINE whole == Prefix(s, "raw", MAX_TEXT)
<1>1. "raw" \in Measures /\ "text" \in Measures /\ MAX_TEXT \in Nat
  BY BuildAssumption DEF Measures
<1>2. /\ Newline \in Characters /\ Replacement \in Characters /\ Replacement["raw"] = 1
  BY DEF Newline, Replacement, Characters
<1>3. /\ whole \in Seq(Characters) /\ Bytes(whole, "raw") <= MAX_TEXT
      /\ Bytes(s, "raw") <= MAX_TEXT => whole = s
      /\ Bytes(s, "raw") > MAX_TEXT => Len(whole) < Len(s)
  BY <1>1, PrefixFits
<1>4. /\ Bytes(s, "raw") \in Nat /\ Bytes(whole, "raw") \in Nat
  BY <1>1, <1>3, WidthsType
<1>5. Clipped(s) = IF Bytes(s, "raw") > MAX_TEXT /\ Bytes(whole, "raw") < MAX_TEXT
                   THEN Append(whole, Replacement) ELSE whole
  BY DEF Clipped
<1> HIDE DEF whole
<1>6. Clipped(s) \in Seq(Characters)
  BY <1>2, <1>3, <1>5
<1>7. message \in Seq(Characters) /\ Len(message) = Len(Clipped(s)) + 1
  BY <1>2, <1>6
<1>8. kept = Prefix(message, "text", remaining)
  BY DEF Truncate
<1>9. /\ kept \in Seq(Characters) /\ Bytes(kept, "text") <= remaining
      /\ Bytes(message, "text") <= remaining => kept = message
      /\ Bytes(message, "text") > remaining => Len(kept) < Len(message)
  <2>1. \A w : w = "text" =>
          /\ Prefix(message, w, remaining) \in Seq(Characters)
          /\ Bytes(Prefix(message, w, remaining), w) <= remaining
          /\ Bytes(message, w) <= remaining => Prefix(message, w, remaining) = message
          /\ Bytes(message, w) > remaining => Len(Prefix(message, w, remaining)) < Len(message)
    BY <1>1, <1>7, PrefixFits
  <2> QED BY <1>8, <2>1
<1>10. Bytes(kept, "text") \in Nat /\ Bytes(message, "text") \in Nat
  BY <1>1, <1>7, <1>9, WidthsType
<1>11. Append(s, Newline) \in Seq(Characters) /\ Len(Append(s, Newline)) = Len(s) + 1
  BY <1>2
<1>12. CASE Bytes(s, "raw") <= MAX_TEXT
  <2>1. message = Append(s, Newline)
    BY <1>1, <1>3, <1>4, <1>5, <1>12
  <2>2. IsCut(s, message, remaining) <=> Bytes(message, "text") > remaining
    BY <1>1, <1>4, <1>12 DEF IsCut
  <2>3. CASE Bytes(message, "text") <= remaining
    BY <1>9, <1>10, <2>1, <2>2, <2>3
  <2>4. CASE Bytes(message, "text") > remaining
    <3>1. Len(kept) < Len(message) /\ Len(kept) \in Nat /\ Len(message) \in Nat
      BY <1>7, <1>9, <2>4
    <3>2. kept # message
      BY <3>1
    <3>3. IsCut(s, message, remaining) <=> kept # Append(s, Newline)
      BY Zenon, <2>1, <2>2, <2>4, <3>2
    <3> QED BY <1>9, <1>10, <3>3
  <2> QED BY <1>10, <2>3, <2>4
<1>13. CASE Bytes(s, "raw") > MAX_TEXT
  <2>1. IsCut(s, message, remaining)
    BY <1>13 DEF IsCut
  <2>2. ASSUME kept = Append(s, Newline) PROVE FALSE
    <3>1. Len(whole) < Len(s) /\ Len(whole) \in Nat /\ Len(s) \in Nat
      BY <1>3, <1>13
    <3>2. Len(kept) = Len(s) + 1 /\ Len(kept) <= Len(message)
      <4>1. Len(kept) \in Nat /\ Len(message) \in Nat
        BY <1>7, <1>9
      <4>2. kept = message \/ Len(kept) < Len(message)
        BY <1>9, <1>10
      <4> QED BY <1>11, <2>2, <4>1, <4>2
    <3>3. CASE Clipped(s) = whole
      BY <1>7, <3>1, <3>2, <3>3
    <3>4. CASE Bytes(whole, "raw") < MAX_TEXT /\ Clipped(s) = Append(whole, Replacement)
      <4>1. Len(Clipped(s)) = Len(whole) + 1
        BY <1>2, <1>3, <3>4
      <4>2. Len(kept) = Len(message)
        BY <1>7, <3>1, <3>2, <4>1
      <4>3. kept = message
        BY <1>7, <1>9, <1>10, <4>2
      <4>4. Append(s, Newline) = Append(Clipped(s), Newline)
        BY <2>2, <4>3
      <4>5. Clipped(s) = s
        BY <1>2, <1>6, <4>4
      <4>6. Bytes(s, "raw") = Bytes(whole, "raw") + 1
        <5>1. \A w : w = "raw" =>
                Bytes(Append(whole, Replacement), w) = Bytes(whole, w) + Replacement[w]
          BY <1>1, <1>2, <1>3, BytesOfAppend
        <5>2. s = Append(whole, Replacement)
          BY <3>4, <4>5
        <5> QED BY <1>2, <5>1, <5>2
      <4> QED BY <1>1, <1>4, <1>13, <3>4, <4>6
    <3> QED BY <1>5, <3>3, <3>4
  <2>3. IsCut(s, message, remaining) <=> kept # Append(s, Newline)
    BY Zenon, <2>1, <2>2
  <2> QED BY <1>9, <1>10, <2>3
<1> QED BY <1>1, <1>4, <1>9, <1>10, <1>12, <1>13

\* What the theorem needs besides: the numbers and flags are ones.
DiagnosticsFit ==
  /\ diagnostics \in 0..MAX_TEXT
  /\ truncated \in BOOLEAN /\ dropped \in BOOLEAN
  /\ truncated <=> dropped

\* compiler.rs and build/mod.rs: the diagnostics of a build stay within 16 KiB,
\* and diagnostics_truncated tells the truth about whether some are missing.
THEOREM DiagnosticsTellTheTruth == Spec => []DiagnosticsAreHonest
<1>1. ASSUME Init PROVE DiagnosticsFit
  <2>1. diagnostics = 0 /\ truncated = FALSE /\ dropped = FALSE
    BY <1>1 DEF Init
  <2>2. 0 \in 0..MAX_TEXT
    BY BuildAssumption
  <2> QED BY Zenon, <2>1, <2>2 DEF DiagnosticsFit
<1>2. ASSUME DiagnosticsFit, [Next]_bvars PROVE DiagnosticsFit'
  <2>1. CASE UNCHANGED text
    BY <1>2, <2>1 DEF DiagnosticsFit, text
  <2>2. ASSUME NEW s \in Messages, Diagnostic(s) PROVE DiagnosticsFit'
    <3>1. PICK remaining, message, kept :
            /\ remaining = MAX_TEXT - diagnostics
            /\ message = Append(Clipped(s), Newline)
            /\ kept = Truncate(message, remaining)
      OBVIOUS
    <3>2. /\ truncated' = (truncated \/ IsCut(s, message, remaining))
          /\ diagnostics' = diagnostics + Bytes(kept, "text")
          /\ dropped' = (dropped \/ kept # Append(s, Newline))
      BY <2>2, <3>1 DEF Diagnostic
    <3>3. diagnostics \in 0..MAX_TEXT /\ MAX_TEXT \in Nat /\ remaining \in Nat
      BY <1>2, <3>1, BuildAssumption DEF DiagnosticsFit
    <3>4. s \in Seq(Characters)
      BY ContentAssumption
    <3>5. /\ Bytes(kept, "text") \in Nat /\ Bytes(kept, "text") <= remaining
          /\ IsCut(s, message, remaining) <=> kept # Append(s, Newline)
      BY <3>1, <3>3, <3>4, CutIsWhatIsMissing
    <3>6. diagnostics' \in 0..MAX_TEXT
      BY <3>1, <3>2, <3>3, <3>5
    <3>7. truncated' \in BOOLEAN /\ dropped' \in BOOLEAN /\ (truncated' <=> dropped')
      <4>1. truncated \in BOOLEAN /\ dropped \in BOOLEAN /\ (truncated <=> dropped)
        BY <1>2 DEF DiagnosticsFit
      <4> QED BY Zenon, <3>2, <3>5, <4>1
    <3> QED BY <3>6, <3>7 DEF DiagnosticsFit
  <2>3. CASE Refuse \/ Load \/ Trap \/ Exit(0) \/ Exit(1)
    BY <2>1, <2>3 DEF Refuse, Load, Trap, Exit
  <2>4. ASSUME NEW path \in Paths, OpenFile(path) PROVE DiagnosticsFit'
    BY <2>1, <2>4 DEF OpenFile
  <2>5. ASSUME NEW fd \in DOMAIN open, CloseFile(fd) \/ \E n \in 0..2 : ReadFile(fd, n)
        PROVE  DiagnosticsFit'
    BY <2>1, <2>5 DEF CloseFile, ReadFile
  <2>6. ASSUME NEW n \in 0..2, NEW elf \in BOOLEAN, WriteOutput(n, elf)
        PROVE  DiagnosticsFit'
    BY <2>1, <2>6 DEF WriteOutput
  <2>7. CASE UNCHANGED bvars
    BY <2>1, <2>7 DEF bvars, text
  <2> QED BY <1>2, <2>2, <2>3, <2>4, <2>5, <2>6, <2>7 DEF Next
<1>3. ASSUME DiagnosticsFit PROVE DiagnosticsAreHonest
  <2>1. diagnostics \in 0..MAX_TEXT /\ MAX_TEXT \in Nat
    BY <1>3, BuildAssumption DEF DiagnosticsFit
  <2>2. diagnostics <= MAX_TEXT
    BY <2>1
  <2>3. truncated <=> dropped
    BY <1>3 DEF DiagnosticsFit
  <2> QED BY <2>2, <2>3 DEF DiagnosticsAreHonest
<1> QED BY <1>1, <1>2, <1>3, PTL DEF Spec
=============================================================================
