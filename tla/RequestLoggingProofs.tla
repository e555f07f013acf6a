------------------------- MODULE RequestLoggingProofs -------------------------
(***************************************************************************)
(* Theorems about the resolver of URL masks and the middleware that calls  *)
(* it, for every set of literals and parameters, every number and length   *)
(* of routes, pieces and calls: what the walk through the trie answers is  *)
(* what ResolvesPreferred says without the trie, and observing a request   *)
(* does not disturb it.                                                    *)
(*                                                                         *)
(* The resolver: the nodes of the trie are the prefixes of the registered  *)
(* routes' keys, and the mask of a node is the last route registered with  *)
(* its keys (TrieInv).  The walk stands on a node that agrees with every   *)
(* preferred route as far as it goes (Reached and KeysAgree, by the first  *)
(* segment where they would differ), so that it can neither end in another *)
(* node nor be stopped while there is a preferred route.                   *)
(*                                                                         *)
(* The exchange: how much of the body the server has handed out decides    *)
(* what the middleware has observed and what the application has read      *)
(* (StageInv, ReadInv).  What the application has read is a flattened      *)
(* sequence; FlattenAppend says what one more message does to it.          *)
(***************************************************************************)
EXTENDS RequestLogging, SequenceTheorems, WellFoundedInduction, TLAPS

(***************************************************************************)
(* Sequences of segments                                                   *)
(***************************************************************************)

Nodes == Seq(Literals \cup {Dynamic})

LEMMA FunctionIsSeq ==
  ASSUME NEW S, NEW n \in Nat, NEW f \in [1 .. n -> S]
  PROVE  f \in Seq(S) /\ Len(f) = n /\ DOMAIN f = 1 .. n
  <1>1. f \in Seq(S)
    BY SeqDef
  <1>2. DOMAIN f = 1 .. n /\ DOMAIN f = 1 .. Len(f) /\ Len(f) \in Nat
    BY <1>1, LenProperties
  <1>. DEFINE m == Len(f)
  <1>3. 1 .. n = 1 .. m /\ m \in Nat
    BY <1>2
  <1>. HIDE DEF m
  <1>4. m = n
    <2>1. n > m => n \in 1 .. n /\ n \notin 1 .. m
      BY <1>3
    <2>2. m > n => m \in 1 .. m /\ m \notin 1 .. n
      BY <1>3
    <2>. QED
      BY <1>3, <2>1, <2>2
  <1>. QED
    BY <1>1, <1>2, <1>4 DEF m

LEMMA PathType ==
  ASSUME NEW p \in Paths \cup {<<>>}
  PROVE  p \in Seq(Literals) /\ Len(p) \in Nat /\ DOMAIN p = 1 .. Len(p)
  <1>1. CASE p = <<>>
    BY <1>1, EmptySeq, LenProperties
  <1>2. CASE p # <<>>
    <2>1. PICK m \in 0 .. MaxLength : p \in [1 .. m -> Literals]
      BY <1>2 DEF Paths, BoundedSeq, SeqOf
    <2>2. m \in Nat
      BY <2>1, BoundsAssumption
    <2>. QED
      BY <2>1, <2>2, FunctionIsSeq
  <1>. QED
    BY <1>1, <1>2

LEMMA KeysType ==
  ASSUME NEW r \in Routes
  PROVE  Keys(r) \in Nodes /\ Len(Keys(r)) = Len(r) /\ Len(r) \in Nat
  <1>1. PICK m \in 0 .. MaxLength : r \in [1 .. m -> Segments]
    BY DEF Routes, BoundedSeq, SeqOf
  <1>2. m \in Nat
    BY <1>1, BoundsAssumption
  <1>3. Len(r) = m /\ DOMAIN r = 1 .. m
    BY <1>1, <1>2, FunctionIsSeq
  <1>4. Keys(r) \in [1 .. m -> Literals \cup {Dynamic}]
    BY <1>1, <1>3 DEF Keys, Segments
  <1>. QED
    BY <1>2, <1>3, <1>4, FunctionIsSeq DEF Nodes

\* What a prefix is, element by element.
Begins(s, t) == Len(s) =< Len(t) /\ \A i \in 1 .. Len(s) : s[i] = t[i]

LEMMA SubSeqFacts ==
  ASSUME NEW S, NEW t \in Seq(S), NEW l \in 0 .. Len(t)
  PROVE  /\ SubSeq(t, 1, l) \in Seq(S) /\ Len(SubSeq(t, 1, l)) = l
         /\ \A i \in 1 .. l : SubSeq(t, 1, l)[i] = t[i]
  <1>. DEFINE n == Len(t)
  <1>1. n \in Nat /\ \A i \in 1 .. n : t[i] \in S
    BY LenProperties, ElementOfSeq
  <1>2. l \in 0 .. n
    OBVIOUS
  <1>. HIDE DEF n
  <1>3. 1 \in Int /\ l \in Int /\ \A i \in 1 .. l : t[i] \in S
    BY <1>1, <1>2
  <1>4. /\ SubSeq(t, 1, l) \in Seq(S)
        /\ Len(SubSeq(t, 1, l)) = IF 1 =< l THEN l - 1 + 1 ELSE 0
        /\ \A i \in 1 .. l - 1 + 1 : SubSeq(t, 1, l)[i] = t[1 + i - 1]
    BY <1>3, SubSeqProperties
  <1>5. l - 1 + 1 = l /\ (~(1 =< l) => l = 0) /\ \A i \in 1 .. l : 1 + i - 1 = i
    BY <1>1, <1>2
  <1>. QED
    BY <1>4, <1>5

LEMMA PrefixFacts ==
  ASSUME NEW S, NEW s \in Seq(S), NEW t \in Seq(S)
  PROVE  /\ s \in Prefixes(t) <=> Begins(s, t)
         /\ IsPrefix(s, t) <=> Begins(s, t)
  <1>1. Len(s) \in Nat /\ Len(t) \in Nat
    BY LenProperties
  <1>2. ASSUME s \in Prefixes(t) PROVE Begins(s, t)
    <2>1. PICK l \in 0 .. Len(t) : s = SubSeq(t, 1, l)
      BY <1>2 DEF Prefixes
    <2>2. Len(s) = l /\ \A i \in 1 .. l : s[i] = t[i]
      BY <2>1, SubSeqFacts
    <2>. QED
      BY <1>1, <2>1, <2>2 DEF Begins
  <1>3. ASSUME Begins(s, t) PROVE s = SubSeq(t, 1, Len(s)) /\ Len(s) \in 0 .. Len(t)
    <2>1. Len(s) \in 0 .. Len(t)
      BY <1>1, <1>3 DEF Begins
    <2>2. /\ SubSeq(t, 1, Len(s)) \in Seq(S) /\ Len(SubSeq(t, 1, Len(s))) = Len(s)
          /\ \A i \in 1 .. Len(s) : SubSeq(t, 1, Len(s))[i] = t[i]
      BY <2>1, SubSeqFacts
    <2>3. \A i \in 1 .. Len(s) : SubSeq(t, 1, Len(s))[i] = s[i]
      BY <1>3, <2>2 DEF Begins
    <2>4. s = SubSeq(t, 1, Len(s))
      BY <2>2, <2>3, SeqEqual
    <2>. QED
      BY <2>1, <2>4
  <1>4. Begins(s, t) => s \in Prefixes(t)
    BY <1>3 DEF Prefixes
  <1>5. SubSeq(s, 1, Len(s)) = s
    <2>1. Begins(s, s)
      BY <1>1 DEF Begins
    <2>2. Len(s) \in 0 .. Len(s)
      BY <1>1
    <2>3. /\ SubSeq(s, 1, Len(s)) \in Seq(S) /\ Len(SubSeq(s, 1, Len(s))) = Len(s)
          /\ \A i \in 1 .. Len(s) : SubSeq(s, 1, Len(s))[i] = s[i]
      BY <2>2, SubSeqFacts
    <2>. QED
      BY <2>3, SeqEqual
  <1>6. IsPrefix(s, t) => Begins(s, t)
    <2>. SUFFICES ASSUME IsPrefix(s, t) PROVE Begins(s, t)
      OBVIOUS
    <2>1. Len(s) =< Len(t) /\ s = SubSeq(t, 1, Len(s))
      BY <1>5 DEF IsPrefix
    <2>2. Len(s) \in 0 .. Len(t)
      BY <1>1, <2>1
    <2>. QED
      BY <1>2, <2>1, <2>2 DEF Prefixes
  <1>7. Begins(s, t) => IsPrefix(s, t)
    BY <1>3, <1>5 DEF IsPrefix, Begins
  <1>. QED
    BY <1>2, <1>4, <1>6, <1>7

LEMMA AppendFacts ==
  ASSUME NEW n \in Nodes, NEW key \in Literals \cup {Dynamic}
  PROVE  /\ Append(n, key) \in Nodes /\ Len(n) \in Nat /\ Len(Append(n, key)) = Len(n) + 1
         /\ \A i \in 1 .. Len(n) : Append(n, key)[i] = n[i]
         /\ Append(n, key)[Len(n) + 1] = key
  BY AppendProperties, LenProperties DEF Nodes

LEMMA PrefixType ==
  ASSUME NEW k \in Nodes, NEW n \in Prefixes(k)
  PROVE  n \in Nodes
  <1>1. PICK l \in 0 .. Len(k) : n = SubSeq(k, 1, l)
    BY DEF Prefixes
  <1>. QED
    BY <1>1, SubSeqFacts DEF Nodes

LEMMA LeastElement ==
  ASSUME NEW S, S \subseteq Nat, S # {}
  PROVE  \E m \in S : \A n \in S : m =< n
  <1>. DEFINE R == {p \in Nat \X Nat : p[1] < p[2]}
  <1>1. IsWellFoundedOn(R, Nat)
    BY NatLessThanWellFounded DEF OpToRel
  <1>. HIDE DEF R
  <1>2. PICK m \in S : \A n \in S : ~(<<n, m>> \in R)
    BY <1>1, WFMin
  <1>3. \A n \in S : ~(n < m)
    BY <1>2 DEF R
  <1>. QED
    BY <1>3

(***************************************************************************)
(* The invariant                                                           *)
(***************************************************************************)

TrieInv ==
    /\ routes \in Seq(Routes)
    /\ DOMAIN trie = {<<>>} \cup UNION {Prefixes(Keys(r)) : r \in Registered}
    /\ \A n \in DOMAIN trie :
           IF trie[n] = NoMask
           THEN \A r \in Registered : Keys(r) # n
           ELSE trie[n] \in Registered /\ LastIs(trie[n]) /\ Keys(trie[n]) = n

\* A parameter is taken for a segment only where no route goes on with the literal.
Taken(keys, i) ==
    /\ keys[i] \in {path[i], Dynamic}
    /\ keys[i] = Dynamic =>
           ~ \E r \in Registered : IsPrefix(Append(SubSeq(keys, 1, i - 1), path[i]), Keys(r))

Reached ==
    /\ node \in DOMAIN trie
    /\ Len(node) =< Len(path)
    /\ \A i \in 1 .. Len(node) : Taken(node, i)

WalkInv ==
    /\ path \in Paths \cup {<<>>}
    /\ path = <<>> => node = <<>> /\ answer = <<>>
    /\ answer = <<>> => Reached
    /\ MaskMatches
    /\ ResolvesPreferred

Inv == TrieInv /\ WalkInv

\* The nodes are sequences of keys, and the prefixes of the registered routes' keys.
LEMMA NodeType ==
  ASSUME TrieInv
  PROVE  /\ Registered \subseteq Routes
         /\ \A r \in Registered : Keys(r) \in Nodes /\ Prefixes(Keys(r)) \subseteq DOMAIN trie
         /\ DOMAIN trie \subseteq Nodes
         /\ \A n \in DOMAIN trie : n # <<>> => \E r \in Registered : n \in Prefixes(Keys(r))
  <1>1. Registered \subseteq Routes
    BY LenProperties, ElementOfSeq DEF TrieInv, Registered, ToSet
  <1>2. \A r \in Registered : Keys(r) \in Nodes /\ Prefixes(Keys(r)) \subseteq DOMAIN trie
    BY <1>1, KeysType DEF TrieInv
  <1>3. \A n \in DOMAIN trie : n # <<>> => \E r \in Registered : n \in Prefixes(Keys(r))
    BY DEF TrieInv
  <1>4. <<>> \in Nodes
    BY EmptySeq DEF Nodes
  <1>5. DOMAIN trie \subseteq Nodes
    BY <1>2, <1>3, <1>4, PrefixType
  <1>. QED
    BY <1>1, <1>2, <1>3, <1>5

\* Two routes with the same keys are not both the last one.
LEMMA LastIsUnique ==
  ASSUME TrieInv, NEW r, NEW s, LastIs(r), LastIs(s), Keys(r) = Keys(s)
  PROVE  r = s
  <1>1. PICK i \in DOMAIN routes :
            routes[i] = r /\ \A j \in i + 1 .. Len(routes) : Keys(routes[j]) # Keys(r)
    BY DEF LastIs
  <1>2. PICK j \in DOMAIN routes :
            routes[j] = s /\ \A k \in j + 1 .. Len(routes) : Keys(routes[k]) # Keys(s)
    BY DEF LastIs
  <1>3. DOMAIN routes = 1 .. Len(routes) /\ Len(routes) \in Nat
    BY LenProperties DEF TrieInv
  <1>4. i < j => j \in i + 1 .. Len(routes)
    BY <1>3
  <1>5. j < i => i \in j + 1 .. Len(routes)
    BY <1>3
  <1>6. i = j
    BY <1>1, <1>2, <1>3, <1>4, <1>5
  <1>. QED
    BY <1>1, <1>2, <1>6

LEMMA InitInv == Init => Inv
  <1>. SUFFICES ASSUME Init PROVE Inv
    OBVIOUS
  <1>1. /\ routes = <<>> /\ DOMAIN trie = {<<>>} /\ trie[<<>>] = NoMask
        /\ path = <<>> /\ node = <<>> /\ answer = <<>>
    BY DEF Init, MaskInit
  <1>2. Registered = {}
    BY <1>1 DEF Registered, ToSet
  <1>3. TrieInv
    BY <1>1, <1>2, EmptySeq DEF TrieInv
  <1>4. Reached
    <2>1. Len(node) = 0 /\ Len(path) = 0
      BY <1>1
    <2>. QED
      BY <1>1, <2>1 DEF Reached
  <1>5. MaskMatches /\ ResolvesPreferred
    BY <1>1 DEF MaskMatches, ResolvesPreferred
  <1>. QED
    BY <1>1, <1>3, <1>4, <1>5 DEF Inv, WalkInv

(***************************************************************************)
(* A route is registered                                                   *)
(***************************************************************************)

LEMMA RegisterTrie ==
  ASSUME TrieInv, NEW route \in Routes, Register(route)
  PROVE  TrieInv'
  <1>. DEFINE k == Keys(route)
  <1>1. routes' = Append(routes, route) /\ Insert(route) /\ routes \in Seq(Routes)
    BY DEF Register, TrieInv
  <1>2. /\ routes' \in Seq(Routes) /\ Len(routes) \in Nat /\ Len(routes') = Len(routes) + 1
        /\ DOMAIN routes = 1 .. Len(routes) /\ DOMAIN routes' = 1 .. Len(routes) + 1
        /\ \A i \in 1 .. Len(routes) : routes'[i] = routes[i]
        /\ routes'[Len(routes) + 1] = route
    BY <1>1, AppendProperties, LenProperties
  <1>3. Registered' = Registered \cup {route}
    <2>1. \A i \in DOMAIN routes' : i \in DOMAIN routes \/ i = Len(routes) + 1
      BY <1>2
    <2>2. Len(routes) + 1 \in DOMAIN routes' /\ \A i \in DOMAIN routes : i \in DOMAIN routes'
      BY <1>2
    <2>. QED
      BY <1>2, <2>1, <2>2 DEF Registered, ToSet
  <1>4. /\ DOMAIN trie' = DOMAIN trie \cup Prefixes(k)
        /\ \A n \in DOMAIN trie' :
               trie'[n] = CASE n = k -> route
                            [] n # k /\ n \in DOMAIN trie -> trie[n]
                            [] OTHER -> NoMask
    BY <1>1 DEF Insert
  <1>5. DOMAIN trie' = {<<>>} \cup UNION {Prefixes(Keys(r)) : r \in Registered'}
    BY <1>3, <1>4 DEF TrieInv
  <1>6. LastIs(route)'
    <2>1. \A j \in Len(routes) + 1 + 1 .. Len(routes') : FALSE
      BY <1>2
    <2>2. Len(routes) + 1 \in DOMAIN routes'
      BY <1>2
    <2>. QED
      BY <1>2, <2>1, <2>2 DEF LastIs
  <1>7. ASSUME NEW r, LastIs(r), Keys(r) # k PROVE LastIs(r)'
    <2>1. PICK i \in DOMAIN routes :
              routes[i] = r /\ \A j \in i + 1 .. Len(routes) : Keys(routes[j]) # Keys(r)
      BY <1>7 DEF LastIs
    <2>2. i \in DOMAIN routes' /\ routes'[i] = r
      BY <1>2, <2>1
    <2>3. ASSUME NEW j \in i + 1 .. Len(routes') PROVE Keys(routes'[j]) # Keys(r)
      <3>1. CASE j = Len(routes) + 1
        BY <1>2, <1>7, <3>1
      <3>2. CASE j # Len(routes) + 1
        <4>1. j \in i + 1 .. Len(routes) /\ j \in 1 .. Len(routes)
          BY <1>2, <2>1, <3>2
        <4>. QED
          BY <1>2, <2>1, <4>1
      <3>. QED
        BY <3>1, <3>2
    <2>. QED
      BY <2>2, <2>3 DEF LastIs
  <1>8. ASSUME NEW n \in DOMAIN trie'
        PROVE  (IF trie[n] = NoMask
                THEN \A r \in Registered : Keys(r) # n
                ELSE trie[n] \in Registered /\ LastIs(trie[n]) /\ Keys(trie[n]) = n)'
    <2>1. CASE n = k
      <3>1. trie'[n] = route /\ route # NoMask
        BY <1>4, <2>1, NoMaskAssumption
      <3>2. LastIs(trie[n])'
        BY <1>6, <3>1 DEF LastIs
      <3>. QED
        BY <1>3, <2>1, <3>1, <3>2
    <2>2. CASE n # k /\ n \in DOMAIN trie
      <3>1. trie'[n] = trie[n]
        BY <1>4, <2>2
      <3>2. CASE trie[n] = NoMask
        BY <1>3, <2>2, <3>1, <3>2 DEF TrieInv
      <3>3. CASE trie[n] # NoMask
        <4>1. trie[n] \in Registered /\ LastIs(trie[n]) /\ Keys(trie[n]) = n
          BY <2>2, <3>3 DEF TrieInv
        <4>2. LastIs(trie[n])
          BY <4>1
        <4>3. LastIs(trie[n])'
          <5>1. PICK r : r = trie[n]
            OBVIOUS
          <5>2. LastIs(r)'
            BY <1>7, <2>2, <4>1, <5>1
          <5>. QED
            BY <3>1, <5>1, <5>2 DEF LastIs
        <4>. QED
          BY <1>3, <3>1, <3>3, <4>1, <4>3
      <3>. QED
        BY <3>2, <3>3
    <2>3. CASE n # k /\ n \notin DOMAIN trie
      <3>1. trie'[n] = NoMask
        BY <1>4, <2>3
      <3>2. ASSUME NEW r \in Registered PROVE Keys(r) # n
        <4>1. Keys(r) \in Prefixes(Keys(r))
          <5>1. Keys(r) \in Nodes /\ Len(Keys(r)) \in Nat
            BY NodeType, KeysType, <3>2
          <5>2. Begins(Keys(r), Keys(r))
            BY <5>1 DEF Begins
          <5>. QED
            BY <5>1, <5>2, PrefixFacts DEF Nodes
        <4>. QED
          BY <2>3, <4>1, NodeType
      <3>. QED
        BY <1>3, <2>3, <3>1, <3>2
    <2>. QED
      BY <2>1, <2>2, <2>3
  <1>. QED
    BY <1>2, <1>5, <1>8 DEF TrieInv

LEMMA RegisterInv ==
  ASSUME Inv, NEW route \in Routes, Register(route)
  PROVE  Inv'
  <1>1. TrieInv'
    BY RegisterTrie DEF Inv
  <1>2. /\ path = <<>> /\ node = <<>> /\ answer = <<>>
        /\ path' = <<>> /\ node' = <<>> /\ answer' = <<>>
    BY DEF Inv, WalkInv, Register
  <1>3. Reached'
    <2>1. Len(node') = 0 /\ Len(path') = 0 /\ node' \in DOMAIN trie'
      BY <1>1, <1>2 DEF TrieInv
    <2>. QED
      BY <2>1 DEF Reached
  <1>4. MaskMatches' /\ ResolvesPreferred'
    BY <1>2 DEF MaskMatches, ResolvesPreferred
  <1>. QED
    BY <1>1, <1>2, <1>3, <1>4 DEF Inv, WalkInv

LEMMA RequestInv ==
  ASSUME Inv, NEW p \in Paths, Request(p)
  PROVE  Inv'
  <1>1. /\ path' = p /\ node' = <<>> /\ answer' = <<>> /\ routes' = routes /\ trie' = trie
    BY DEF Request
  <1>2. TrieInv'
    BY <1>1 DEF Inv, TrieInv, Registered, LastIs
  <1>3. p # <<>> /\ Len(p) \in Nat
    BY PathType DEF Paths
  <1>4. Reached'
    <2>1. Len(node') = 0 /\ 0 =< Len(path') /\ node' \in DOMAIN trie'
      BY <1>1, <1>2, <1>3 DEF TrieInv
    <2>2. \A i \in 1 .. Len(node') : FALSE
      BY <2>1
    <2>. QED
      BY <2>1, <2>2 DEF Reached
  <1>5. MaskMatches' /\ ResolvesPreferred'
    BY <1>1 DEF MaskMatches, ResolvesPreferred
  <1>. QED
    BY <1>1, <1>2, <1>3, <1>4, <1>5 DEF Inv, WalkInv

(***************************************************************************)
(* The walk                                                                *)
(***************************************************************************)

\* Where two sequences part, the one goes on as whatever begins with the other does.
LEMMA Branch ==
  ASSUME NEW a \in Nodes, NEW b \in Nodes, NEW c \in Nodes, Begins(b, c),
         NEW i \in 1 .. Len(a), i \in 1 .. Len(b), \A j \in 1 .. i - 1 : a[j] = b[j]
  PROVE  IsPrefix(Append(SubSeq(a, 1, i - 1), b[i]), c)
  <1>. DEFINE front == SubSeq(a, 1, i - 1)
              h == Append(front, b[i])
  <1>1. Len(a) \in Nat /\ Len(b) \in Nat /\ Len(c) \in Nat
    BY LenProperties DEF Nodes
  <1>2. i - 1 \in 0 .. Len(a)
    BY <1>1
  <1>3. front \in Nodes /\ Len(front) = i - 1 /\ \A j \in 1 .. i - 1 : front[j] = a[j]
    BY <1>2, SubSeqFacts DEF Nodes
  <1>4. b[i] \in Literals \cup {Dynamic}
    BY ElementOfSeq DEF Nodes
  <1>. HIDE DEF front
  <1>5. /\ h \in Nodes /\ Len(h) = Len(front) + 1
        /\ \A j \in 1 .. Len(front) : h[j] = front[j]
        /\ h[Len(front) + 1] = b[i]
    BY <1>3, <1>4, AppendFacts
  <1>. HIDE DEF h
  <1>6. Len(h) = i /\ h[i] = b[i] /\ \A j \in 1 .. i - 1 : h[j] = b[j]
    <2>1. Len(front) + 1 = i
      BY <1>1, <1>3
    <2>. QED
      BY <1>3, <1>5, <2>1
  <1>7. \A j \in 1 .. i : j \in 1 .. i - 1 \/ j = i
    BY <1>1
  <1>8. i =< Len(c) /\ \A j \in 1 .. i : j \in 1 .. Len(b)
    BY <1>1 DEF Begins
  <1>9. Begins(h, c)
    BY <1>6, <1>7, <1>8 DEF Begins
  <1>10. IsPrefix(h, c)
    BY <1>5, <1>9, PrefixFacts DEF Nodes
  <1>. QED
    BY <1>10 DEF h, front

LEMMA PathFacts ==
  ASSUME path \in Paths \cup {<<>>}
  PROVE  /\ Len(path) \in Nat /\ DOMAIN path = 1 .. Len(path)
         /\ \A i \in 1 .. Len(path) : path[i] \in Literals /\ path[i] # Dynamic
  <1>1. path \in Seq(Literals) /\ Len(path) \in Nat /\ DOMAIN path = 1 .. Len(path)
    BY PathType
  <1>2. \A i \in 1 .. Len(path) : path[i] \in Literals
    BY <1>1, ElementOfSeq
  <1>. QED
    BY <1>1, <1>2, SegmentsAssumption

LEMMA PreferredFacts ==
  ASSUME path \in Paths \cup {<<>>}, NEW keys
  PROVE  Preferred(keys, path) <=> Len(keys) = Len(path) /\ \A i \in 1 .. Len(path) : Taken(keys, i)
  BY PathFacts DEF Preferred, Fits, Taken

\* A preferred route goes the way the walk has gone.
LEMMA KeysAgree ==
  ASSUME TrieInv, path \in Paths \cup {<<>>}, Reached,
         NEW r \in Registered, Preferred(Keys(r), path)
  PROVE  Len(Keys(r)) = Len(path) /\ \A i \in 1 .. Len(node) : Keys(r)[i] = node[i]
  <1>. DEFINE keys == Keys(r)
              S == {i \in 1 .. Len(node) : keys[i] # node[i]}
  <1>1. keys \in Nodes /\ node \in Nodes
    BY NodeType DEF Reached
  <1>2. Len(keys) = Len(path) /\ \A i \in 1 .. Len(path) : Taken(keys, i)
    BY PreferredFacts
  <1>3. /\ Len(node) \in Nat /\ Len(path) \in Nat /\ Len(node) =< Len(path)
        /\ \A i \in 1 .. Len(node) : Taken(node, i)
    BY <1>1, PathFacts, LenProperties DEF Reached, Nodes
  <1>. HIDE DEF keys
  <1>4. ASSUME S # {} PROVE FALSE
    <2>1. PICK m \in S : \A n \in S : m =< n
      <3>1. S \subseteq Nat
        OBVIOUS
      <3>. HIDE DEF S
      <3>. QED
        BY <1>4, <3>1, LeastElement
    <2>2. /\ m \in 1 .. Len(node) /\ m \in 1 .. Len(path) /\ m \in 1 .. Len(keys)
          /\ keys[m] # node[m]
      BY <1>2, <1>3, <2>1
    <2>3. \A j \in 1 .. m - 1 : keys[j] = node[j]
      <3>. SUFFICES ASSUME NEW j \in 1 .. m - 1, keys[j] # node[j] PROVE FALSE
        OBVIOUS
      <3>1. j \in 1 .. Len(node) /\ ~(m =< j)
        BY <1>3, <2>2
      <3>. QED
        BY <2>1, <3>1
    <2>4. Taken(keys, m) /\ Taken(node, m)
      BY <1>2, <1>3, <2>2
    <2>5. CASE keys[m] = Dynamic /\ node[m] = path[m]
      <3>1. node # <<>>
        BY <1>3, <2>2
      <3>2. PICK q \in Registered : node \in Prefixes(Keys(q)) /\ Keys(q) \in Nodes
        BY <3>1, NodeType DEF Reached
      <3>3. Begins(node, Keys(q))
        BY <1>1, <3>2, PrefixFacts DEF Nodes
      <3>4. IsPrefix(Append(SubSeq(keys, 1, m - 1), node[m]), Keys(q))
        BY <1>1, <2>2, <2>3, <3>2, <3>3, Branch
      <3>. QED
        BY <2>4, <2>5, <3>2, <3>4 DEF Taken
    <2>6. CASE node[m] = Dynamic /\ keys[m] = path[m]
      <3>1. Begins(keys, keys)
        BY <1>2, <1>3 DEF Begins
      <3>2. IsPrefix(Append(SubSeq(node, 1, m - 1), keys[m]), keys)
        BY <1>1, <2>2, <2>3, <3>1, Branch
      <3>3. IsPrefix(Append(SubSeq(node, 1, m - 1), path[m]), Keys(r))
        BY <2>6, <3>2 DEF keys
      <3>. QED
        BY <2>4, <2>6, <3>3 DEF Taken
    <2>. QED
      BY <2>2, <2>4, <2>5, <2>6 DEF Taken
  <1>. QED
    BY <1>2, <1>4 DEF keys

\* The walk leaves the trie alone.
LEMMA TrieStutter ==
  ASSUME TrieInv, routes' = routes, trie' = trie
  PROVE  TrieInv'
  BY DEF TrieInv, Registered, LastIs

LEMMA AnswerInv ==
  ASSUME Inv, Answer
  PROVE  Inv'
  <1>1. /\ TrieInv /\ path \in Paths \cup {<<>>} /\ Reached
        /\ Len(node) = Len(path) /\ path # <<>>
        /\ answer' = <<trie[node]>> /\ UNCHANGED <<routes, trie, path, node>>
    BY DEF Inv, WalkInv, Answer, Walking
  <1>2. TrieInv'
    BY <1>1, TrieStutter
  <1>3. node \in DOMAIN trie /\ node \in Nodes /\ Len(path) \in Nat
    BY <1>1, NodeType, PathFacts DEF Reached
  <1>4. \A i \in 1 .. Len(path) : Taken(node, i)
    BY <1>1 DEF Reached
  <1>5. Preferred(node, path)
    BY <1>1, <1>4, PreferredFacts
  <1>6. ASSUME NEW r \in Registered, Preferred(Keys(r), path) PROVE Keys(r) = node
    <2>1. /\ Len(Keys(r)) = Len(node) /\ \A i \in 1 .. Len(node) : Keys(r)[i] = node[i]
          /\ Keys(r) \in Nodes
      BY <1>1, <1>6, KeysAgree, NodeType
    <2>. QED
      BY <1>3, <2>1, SeqEqual DEF Nodes
  <1>. DEFINE best == {r \in Registered : Preferred(Keys(r), path) /\ LastIs(r)}
  <1>7. CASE trie[node] = NoMask
    <2>1. \A r \in Registered : Keys(r) # node
      BY <1>1, <1>3, <1>7 DEF TrieInv
    <2>2. best = {}
      BY <1>6, <2>1
    <2>3. ResolvesPreferred'
      BY <1>1, <1>7, <2>2 DEF ResolvesPreferred, Registered, Preferred, LastIs
    <2>4. MaskMatches'
      BY <1>1, <1>7, NoMaskAssumption DEF MaskMatches
    <2>. QED
      BY <1>1, <1>2, <2>3, <2>4 DEF Inv, WalkInv
  <1>8. CASE trie[node] # NoMask
    <2>. DEFINE mask == trie[node]
    <2>1. mask \in Registered /\ LastIs(mask) /\ Keys(mask) = node
      BY <1>1, <1>3, <1>8 DEF TrieInv
    <2>2. \A r \in best : r = mask
      BY <1>1, <1>6, <2>1, LastIsUnique
    <2>3. best = {mask}
      BY <1>5, <2>1, <2>2
    <2>4. ResolvesPreferred'
      <3>1. {r \in Registered : Preferred(Keys(r), path) /\ LastIs(r)}' = best
        BY <1>1 DEF Registered, Preferred, LastIs
      <3>2. answer'[1] = mask /\ best # {}
        BY <1>1, <2>3
      <3>. QED
        BY <2>3, <3>1, <3>2 DEF ResolvesPreferred
    <2>5. MaskMatches'
      BY <1>1, <1>5, <2>1 DEF MaskMatches, Matches, Preferred, Registered
    <2>. QED
      BY <1>1, <1>2, <2>4, <2>5 DEF Inv, WalkInv
  <1>. QED
    BY <1>7, <1>8

\* The next segment, whichever node of the trie it may lead to.
LEMMA NextSegment ==
  ASSUME TrieInv, path \in Paths \cup {<<>>}, Reached, Len(node) < Len(path)
  PROVE  /\ node \in Nodes /\ Len(node) \in Nat /\ Len(path) \in Nat
         /\ Len(node) + 1 \in 1 .. Len(path)
         /\ path[Len(node) + 1] \in Literals /\ path[Len(node) + 1] # Dynamic
  <1>1. node \in Nodes /\ Len(node) \in Nat /\ Len(path) \in Nat
    BY NodeType, PathFacts, LenProperties DEF Reached, Nodes
  <1>2. Len(node) + 1 \in 1 .. Len(path)
    BY <1>1
  <1>. QED
    BY <1>1, <1>2, PathFacts

LEMMA GiveUpInv ==
  ASSUME Inv, GiveUp
  PROVE  Inv'
  <1>. DEFINE L == Len(node) + 1
  <1>1. /\ TrieInv /\ path \in Paths \cup {<<>>} /\ Reached
        /\ Len(node) < Len(path) /\ path # <<>>
        /\ Child(node, path[L]) \notin DOMAIN trie
        /\ answer' = <<NoMask>> /\ UNCHANGED <<routes, trie, path, node>>
    BY DEF Inv, WalkInv, GiveUp, Walking
  <1>2. TrieInv'
    BY <1>1, TrieStutter
  <1>3. ASSUME NEW r \in Registered, Preferred(Keys(r), path) PROVE FALSE
    <2>. DEFINE keys == Keys(r)
    <2>1. /\ keys \in Nodes /\ Len(keys) = Len(path)
          /\ \A i \in 1 .. Len(node) : keys[i] = node[i]
      BY <1>1, <1>3, KeysAgree, NodeType
    <2>2. /\ node \in Nodes /\ Len(node) \in Nat /\ Len(path) \in Nat
          /\ L \in 1 .. Len(path)
      BY <1>1, NextSegment
    <2>3. keys[L] \in {path[L], Dynamic} /\ keys[L] \in Literals \cup {Dynamic}
      <3>1. Taken(keys, L)
        BY <1>1, <1>3, <2>2, PreferredFacts
      <3>2. keys[L] \in Literals \cup {Dynamic}
        BY <2>1, <2>2, ElementOfSeq DEF Nodes
      <3>. QED
        BY <3>1, <3>2 DEF Taken
    <2>. HIDE DEF keys
    <2>4. Append(node, keys[L]) \in Prefixes(keys)
      <3>1. /\ Append(node, keys[L]) \in Nodes /\ Len(Append(node, keys[L])) = L
            /\ \A i \in 1 .. Len(node) : Append(node, keys[L])[i] = node[i]
            /\ Append(node, keys[L])[L] = keys[L]
        BY <2>2, <2>3, AppendFacts
      <3>2. \A i \in 1 .. L : i \in 1 .. Len(node) \/ i = L
        BY <2>2
      <3>3. L =< Len(keys)
        BY <2>1, <2>2
      <3>4. Begins(Append(node, keys[L]), keys)
        BY <2>1, <3>1, <3>2, <3>3 DEF Begins
      <3>. QED
        BY <2>1, <3>1, <3>4, PrefixFacts DEF Nodes
    <2>5. Append(node, keys[L]) \in DOMAIN trie
      BY <1>1, <2>4, NodeType DEF keys
    <2>. QED
      BY <1>1, <2>3, <2>5 DEF Child
  <1>4. ResolvesPreferred'
    BY <1>1, <1>3 DEF ResolvesPreferred, Registered, Preferred, LastIs
  <1>5. MaskMatches'
    BY <1>1, NoMaskAssumption DEF MaskMatches
  <1>. QED
    BY <1>1, <1>2, <1>4, <1>5 DEF Inv, WalkInv

LEMMA DescendInv ==
  ASSUME Inv, Descend
  PROVE  Inv'
  <1>. DEFINE L == Len(node) + 1
              key == IF Append(node, path[L]) \in DOMAIN trie THEN path[L] ELSE Dynamic
  <1>1. /\ TrieInv /\ path \in Paths \cup {<<>>} /\ Reached
        /\ Len(node) < Len(path) /\ path # <<>>
        /\ node' = Append(node, key) /\ node' \in DOMAIN trie
        /\ answer = <<>> /\ answer' = <<>> /\ UNCHANGED <<routes, trie, path>>
    BY DEF Inv, WalkInv, Descend, Walking, Child
  <1>2. TrieInv'
    BY <1>1, TrieStutter
  <1>3. /\ node \in Nodes /\ Len(node) \in Nat /\ Len(path) \in Nat
        /\ L \in 1 .. Len(path) /\ path[L] \in Literals /\ path[L] # Dynamic
    BY <1>1, NextSegment
  <1>4. key \in {path[L], Dynamic} /\ key \in Literals \cup {Dynamic}
    BY <1>3
  <1>5. key = Dynamic => Append(node, path[L]) \notin DOMAIN trie
    BY <1>3
  <1>. HIDE DEF key
  <1>6. /\ node' \in Nodes /\ Len(node') = L
        /\ \A i \in 1 .. Len(node) : node'[i] = node[i]
        /\ node'[L] = key
    BY <1>1, <1>3, <1>4, AppendFacts
  <1>7. ASSUME NEW i \in 1 .. L PROVE SubSeq(node', 1, i - 1) = SubSeq(node, 1, i - 1)
    <2>1. i - 1 \in 0 .. Len(node) /\ i - 1 \in 0 .. Len(node')
      BY <1>3, <1>6
    <2>2. /\ SubSeq(node, 1, i - 1) \in Nodes /\ Len(SubSeq(node, 1, i - 1)) = i - 1
          /\ \A j \in 1 .. i - 1 : SubSeq(node, 1, i - 1)[j] = node[j]
      BY <1>3, <2>1, SubSeqFacts DEF Nodes
    <2>3. /\ SubSeq(node', 1, i - 1) \in Nodes /\ Len(SubSeq(node', 1, i - 1)) = i - 1
          /\ \A j \in 1 .. i - 1 : SubSeq(node', 1, i - 1)[j] = node'[j]
      BY <1>6, <2>1, SubSeqFacts DEF Nodes
    <2>4. \A j \in 1 .. i - 1 : j \in 1 .. Len(node)
      BY <1>3
    <2>5. \A j \in 1 .. i - 1 : SubSeq(node', 1, i - 1)[j] = SubSeq(node, 1, i - 1)[j]
      BY <1>6, <2>2, <2>3, <2>4
    <2>. QED
      BY <2>2, <2>3, <2>5, SeqEqual DEF Nodes
  <1>8. ASSUME NEW i \in 1 .. L PROVE Taken(node, i)'
    <2>1. CASE i \in 1 .. Len(node)
      <3>1. Taken(node, i)
        BY <1>1, <2>1 DEF Reached
      <3>2. node'[i] = node[i] /\ path' = path /\ Registered' = Registered
        BY <1>1, <1>6, <2>1 DEF Registered
      <3>. QED
        BY <1>7, <3>1, <3>2 DEF Taken
    <2>2. CASE i = L
      <3>1. node'[i] \in {path'[i], Dynamic}
        BY <1>1, <1>4, <1>6, <2>2
      <3>2. ASSUME node'[i] = Dynamic, NEW r \in Registered,
                   IsPrefix(Append(SubSeq(node, 1, L - 1), path[L]), Keys(r))
            PROVE  FALSE
        <4>1. Append(node, path[L]) \notin DOMAIN trie
          BY <1>5, <1>6, <2>2, <3>2
        <4>2. SubSeq(node, 1, L - 1) = node
          <5>1. L - 1 = Len(node) /\ Len(node) \in 0 .. Len(node)
            BY <1>3
          <5>2. /\ SubSeq(node, 1, Len(node)) \in Nodes
                /\ Len(SubSeq(node, 1, Len(node))) = Len(node)
                /\ \A j \in 1 .. Len(node) : SubSeq(node, 1, Len(node))[j] = node[j]
            BY <1>3, <5>1, SubSeqFacts DEF Nodes
          <5>. QED
            BY <1>3, <5>1, <5>2, SeqEqual DEF Nodes
        <4>3. Append(node, path[L]) \in Nodes /\ Keys(r) \in Nodes
          BY <1>1, <1>3, AppendFacts, NodeType
        <4>4. Append(node, path[L]) \in Prefixes(Keys(r))
          BY <3>2, <4>2, <4>3, PrefixFacts DEF Nodes
        <4>. QED
          BY <1>1, <4>1, <4>4, NodeType
      <3>3. SubSeq(node', 1, i - 1) = SubSeq(node, 1, L - 1) /\ path'[i] = path[L]
            /\ Registered' = Registered
        BY <1>1, <1>7, <2>2 DEF Registered
      <3>. QED
        BY <3>1, <3>2, <3>3 DEF Taken
    <2>. QED
      BY <1>3, <2>1, <2>2
  <1>9. Reached'
    <2>1. Len(node') =< Len(path') /\ node' \in DOMAIN trie'
      BY <1>1, <1>3, <1>6
    <2>. QED
      BY <1>6, <1>8, <2>1 DEF Reached
  <1>10. MaskMatches' /\ ResolvesPreferred'
    BY <1>1 DEF MaskMatches, ResolvesPreferred
  <1>. QED
    BY <1>1, <1>2, <1>9, <1>10 DEF Inv, WalkInv

(***************************************************************************)
(* The theorems                                                            *)
(***************************************************************************)

LEMMA MaskStutter == Inv /\ UNCHANGED maskVars => Inv'
  <1>. SUFFICES ASSUME Inv, UNCHANGED maskVars PROVE Inv'
    OBVIOUS
  <1>1. /\ routes' = routes /\ trie' = trie /\ path' = path /\ node' = node /\ answer' = answer
        /\ Registered' = Registered
    BY DEF maskVars, Registered
  <1>2. TrieInv'
    BY <1>1, TrieStutter DEF Inv
  <1>3. Reached => Reached'
    BY <1>1 DEF Reached, Taken
  <1>4. MaskMatches'
    BY <1>1 DEF Inv, WalkInv, MaskMatches, Matches
  <1>5. ResolvesPreferred'
    BY <1>1 DEF Inv, WalkInv, ResolvesPreferred, Preferred, LastIs
  <1>. QED
    BY <1>1, <1>2, <1>3, <1>4, <1>5 DEF Inv, WalkInv

LEMMA NextInv == Inv /\ [Next]_vars => Inv'
  <1>. SUFFICES ASSUME Inv, [Next]_vars PROVE Inv'
    OBVIOUS
  <1>1. ASSUME NEW route \in Routes, Register(route) PROVE Inv'
    BY <1>1, RegisterInv
  <1>2. ASSUME NEW p \in Paths, Arrive(p) PROVE Inv'
    BY <1>2, RequestInv DEF Arrive
  <1>3. CASE ResolveMask
    BY <1>3, DescendInv, GiveUpInv, AnswerInv DEF ResolveMask, Resolve
  <1>4. CASE UNCHANGED maskVars
    BY <1>4, MaskStutter
  <1>5. (Observe \/ ObserveMessage \/ LogRequest \/ Receive \/ Send \/ ApplicationRaises
           \/ FormatRaises \/ Cancel \/ LogResponse \/ UNCHANGED vars) => UNCHANGED maskVars
    BY DEF Observe, ObserveMessage, LogRequest, Receive, Send, ApplicationRaises, FormatRaises,
           Cancel, LogResponse, vars
  <1>. QED
    BY <1>1, <1>2, <1>3, <1>4, <1>5 DEF Next

LEMMA InvHolds == Spec => []Inv
  BY InitInv, NextInv, PTL DEF Spec

\* A mask that is returned is a registered route that matches the path
\* (url_mask_resolver.py:48-57).
THEOREM MasksMatch == Spec => []MaskMatches
  <1>1. Inv => MaskMatches
    BY DEF Inv, WalkInv
  <1>. QED
    BY <1>1, InvHolds, PTL

\* The walk through the trie answers the route that ResolvesPreferred names without it: the
\* last one registered of the shape that prefers literals (url_mask_resolver.py:26-37, 48-57).
THEOREM WalkIsPreference == Spec => []ResolvesPreferred
  <1>1. Inv => ResolvesPreferred
    BY DEF Inv, WalkInv
  <1>. QED
    BY <1>1, InvHolds, PTL

(***************************************************************************)
(* What FlattenSeq makes of a sequence that grows: its recursion has a     *)
(* solution on every interval, and two solutions agree as far as their     *)
(* sequences do.                                                           *)
(***************************************************************************)

Join(s, t) == s \o t

Flattens(f, seqs, n) == f = [i \in 1 .. n |-> IF i = 1 THEN seqs[i] ELSE Join(f[i - 1], seqs[i])]

LEMMA FlattensPointwise ==
  ASSUME NEW f, NEW seqs, NEW n \in Nat, Flattens(f, seqs, n)
  PROVE  \A i \in 1 .. n : f[i] = IF i = 1 THEN seqs[i] ELSE Join(f[i - 1], seqs[i])
  BY DEF Flattens

LEMMA FlattensExtends ==
  ASSUME NEW f, NEW seqs, NEW n \in Nat, Flattens(f, seqs, n)
  PROVE  \E g : Flattens(g, seqs, n + 1)
  <1>. DEFINE last == IF n = 0 THEN seqs[n + 1] ELSE Join(f[n], seqs[n + 1])
              g == [i \in 1 .. n + 1 |-> IF i =< n THEN f[i] ELSE last]
  <1>1. \A i \in 1 .. n : f[i] = IF i = 1 THEN seqs[i] ELSE Join(f[i - 1], seqs[i])
    BY FlattensPointwise
  <1>2. \A i \in 1 .. n : g[i] = f[i] /\ i \in 1 .. n + 1
    OBVIOUS
  <1>3. g[n + 1] = last /\ n + 1 \in 1 .. n + 1
    OBVIOUS
  <1>4. g = [i \in 1 .. n + 1 |-> g[i]]
    OBVIOUS
  <1>. HIDE DEF g
  <1>5. ASSUME NEW i \in 1 .. n + 1
        PROVE  g[i] = IF i = 1 THEN seqs[i] ELSE Join(g[i - 1], seqs[i])
    <2>1. CASE i \in 1 .. n
      <3>1. i = 1 \/ i - 1 \in 1 .. n
        BY <2>1
      <3>. QED
        BY <1>1, <1>2, <2>1, <3>1
    <2>2. CASE i = n + 1
      <3>1. i = 1 => n = 0
        BY <2>2
      <3>2. i # 1 => i - 1 = n /\ n \in 1 .. n /\ n # 0
        BY <2>2
      <3>. QED
        BY <1>2, <1>3, <2>2, <3>1, <3>2
    <2>. QED
      BY <2>1, <2>2
  <1>6. g = [i \in 1 .. n + 1 |-> IF i = 1 THEN seqs[i] ELSE Join(g[i - 1], seqs[i])]
    BY <1>4, <1>5
  <1>. QED
    BY <1>6 DEF Flattens

LEMMA FlattensExists ==
  ASSUME NEW seqs, NEW n \in Nat
  PROVE  \E f : Flattens(f, seqs, n)
  <1>. DEFINE S == {m \in Nat : ~ \E f : Flattens(f, seqs, m)}
  <1>1. ASSUME S # {} PROVE FALSE
    <2>1. PICK m \in S : \A k \in S : m =< k
      <3>1. S \subseteq Nat
        OBVIOUS
      <3>. HIDE DEF S
      <3>. QED
        BY <1>1, <3>1, LeastElement
    <2>2. m # 0
      <3>1. Flattens([i \in 1 .. 0 |-> 0], seqs, 0)
        BY DEF Flattens
      <3>. QED
        BY <2>1, <3>1
    <2>3. m \in Nat /\ m - 1 \in Nat /\ ~(m =< m - 1) /\ m - 1 + 1 = m
      BY <2>1, <2>2
    <2>4. PICK f : Flattens(f, seqs, m - 1)
      BY <2>1, <2>3
    <2>5. \E g : Flattens(g, seqs, m - 1 + 1)
      BY <2>3, <2>4, FlattensExtends
    <2>. QED
      BY <2>1, <2>3, <2>5
  <1>. QED
    BY <1>1

SameUpTo(s, t, n) == \A i \in 1 .. n : s[i] = t[i]

LEMMA FlattensAgree ==
  ASSUME NEW s, NEW t, NEW m \in Nat, NEW n \in Nat, m =< n, NEW f, NEW g,
         Flattens(f, s, m), Flattens(g, t, n), SameUpTo(s, t, m)
  PROVE  SameUpTo(f, g, m)
  <1>. DEFINE S == {i \in 1 .. m : f[i] # g[i]}
  <1>1. ASSUME S # {} PROVE FALSE
    <2>1. PICK i \in S : \A j \in S : i =< j
      <3>1. S \subseteq Nat
        OBVIOUS
      <3>. HIDE DEF S
      <3>. QED
        BY <1>1, <3>1, LeastElement
    <2>2. i \in 1 .. m /\ i \in 1 .. n /\ f[i] # g[i]
      BY <2>1
    <2>3. i # 1 => f[i - 1] = g[i - 1]
      <3>1. i # 1 => i - 1 \in 1 .. m /\ ~(i =< i - 1)
        BY <2>2
      <3>. QED
        BY <2>1, <3>1
    <2>4. /\ f[i] = IF i = 1 THEN s[i] ELSE Join(f[i - 1], s[i])
          /\ g[i] = IF i = 1 THEN t[i] ELSE Join(g[i - 1], t[i])
      BY <2>2, FlattensPointwise
    <2>. QED
      BY <2>2, <2>3, <2>4 DEF SameUpTo
  <1>. QED
    BY <1>1 DEF SameUpTo

LEMMA FlattenLast ==
  ASSUME NEW s, Len(s) \in Nat, Len(s) # 0
  PROVE  \E f : Flattens(f, s, Len(s)) /\ FlattenSeq(s) = f[Len(s)]
  <1>. DEFINE w == CHOOSE f : Flattens(f, s, Len(s))
  <1>1. FlattenSeq(s) = w[Len(s)]
    BY Zenon DEF FlattenSeq, Flattens, Join
  <1>2. Flattens(w, s, Len(s))
    BY FlattensExists
  <1>. QED
    BY <1>1, <1>2

LEMMA FlattenAppend ==
  ASSUME NEW S, NEW s \in Seq(Seq(S)), NEW e \in Seq(S)
  PROVE  FlattenSeq(Append(s, e)) = FlattenSeq(s) \o e
  <1>. DEFINE t == Append(s, e)
              n == Len(s)
  <1>1. /\ n \in Nat /\ Len(t) = n + 1 /\ n + 1 \in Nat /\ n + 1 # 0
        /\ \A i \in 1 .. n : s[i] = t[i]
        /\ t[n + 1] = e
    BY AppendProperties, LenProperties
  <1>. HIDE DEF t, n
  <1>2. PICK g : Flattens(g, t, n + 1) /\ FlattenSeq(t) = g[n + 1]
    BY <1>1, FlattenLast
  <1>3. g[n + 1] = IF n + 1 = 1 THEN t[n + 1] ELSE Join(g[n + 1 - 1], t[n + 1])
    <2>1. n + 1 \in 1 .. n + 1
      BY <1>1
    <2>. QED
      BY <1>1, <1>2, <2>1, FlattensPointwise
  <1>4. CASE n = 0
    <2>1. s = <<>>
      BY <1>4, EmptySeq DEF n
    <2>2. FlattenSeq(s) = <<>>
      BY <1>4, <2>1 DEF FlattenSeq, n
    <2>3. <<>> \o e = e
      BY ConcatEmptySeq
    <2>. QED
      BY <1>1, <1>2, <1>3, <1>4, <2>2, <2>3 DEF t
  <1>5. CASE n # 0
    <2>1. PICK f : Flattens(f, s, n) /\ FlattenSeq(s) = f[n]
      BY <1>1, <1>5, FlattenLast DEF n
    <2>2. n \in 1 .. n /\ n =< n + 1 /\ n + 1 - 1 = n /\ n + 1 # 1
      BY <1>1, <1>5
    <2>3. f[n] = g[n]
      <3>1. SameUpTo(s, t, n)
        BY <1>1 DEF SameUpTo
      <3>2. SameUpTo(f, g, n)
        BY <1>1, <1>2, <2>1, <2>2, <3>1, FlattensAgree
      <3>. QED
        BY <2>2, <3>2 DEF SameUpTo
    <2>4. FlattenSeq(t) = Join(FlattenSeq(s), e)
      BY <1>1, <1>2, <1>3, <2>1, <2>2, <2>3
    <2>. QED
      BY <2>4 DEF Join, t
  <1>. QED
    BY <1>4, <1>5

(***************************************************************************)
(* The exchange                                                            *)
(***************************************************************************)

Messages == [type : {"request", "disconnect"}, body : Seq(Nat), more : BOOLEAN]

Pieces(n) == [i \in 1 .. n |-> i]

\* How many pieces the server has handed out.
Arrived == IF received < request.pieces THEN received ELSE request.pieces

RequestRecord(mask) ==
    [type |-> "REQUEST", mask |-> mask,
     data |-> DataField(IF request.observed THEN Body ELSE <<>>), status |-> NoStatus]

ExchangeShape ==
    /\ stage \in {"resolving", "observing", "logging", "application", "over"}
    /\ request \in Requests
    /\ received \in Nat
    /\ bodySent \in BOOLEAN
    /\ got \in Seq(Messages)
    /\ noted \in [status : {NoStatus, 200, 400}, body : Seq(Nat)]

StageInv ==
    /\ observed = Pieces(IF request.observed THEN Arrived ELSE 0)
    /\ stage \in {"resolving", "observing", "logging"} => got = <<>> /\ ~bodySent /\ records = <<>>
    /\ stage = "resolving" => received = 0
    /\ stage = "logging" /\ ~request.observed => received = 0
    /\ stage = "observing" => request.observed /\ received =< request.pieces
    /\ stage \in {"logging", "application"} /\ request.observed => received > request.pieces
    /\ stage = "application" => \E mask : records = <<RequestRecord(mask)>>
    /\ stage # "over" => noted = answered

\* What the application has read: all or nothing of an observed body, and what has arrived of another.
ReadInv ==
    /\ Read = Pieces(IF request.observed THEN IF bodySent THEN request.pieces ELSE 0 ELSE Arrived)
    /\ ToldComplete => IF request.observed THEN bodySent ELSE received > request.pieces /\ request.whole

ExchangeInv == ExchangeShape /\ StageInv /\ ReadInv /\ RecordsTell

LEMMA PiecesFacts ==
  ASSUME NEW n \in Nat
  PROVE  /\ Pieces(n) \in Seq(Nat) /\ Len(Pieces(n)) = n
         /\ \A i \in 1 .. n : Pieces(n)[i] = i
  <1>1. Pieces(n) \in [1 .. n -> Nat] /\ \A i \in 1 .. n : Pieces(n)[i] = i
    BY DEF Pieces
  <1>. QED
    BY <1>1, FunctionIsSeq

LEMMA NoPieces == Pieces(0) = <<>>
  BY PiecesFacts, EmptySeq

LEMMA OneMorePiece ==
  ASSUME NEW n \in Nat
  PROVE  Pieces(n) \o <<n + 1>> = Pieces(n + 1)
  <1>. DEFINE s == Pieces(n)
              t == Pieces(n + 1)
  <1>1. /\ s \in Seq(Nat) /\ Len(s) = n /\ \A i \in 1 .. n : s[i] = i
        /\ t \in Seq(Nat) /\ Len(t) = n + 1 /\ \A i \in 1 .. n + 1 : t[i] = i
    BY PiecesFacts
  <1>. HIDE DEF s, t
  <1>2. Append(s, n + 1) = s \o <<n + 1>>
    BY <1>1, AppendIsConcat
  <1>3. /\ Append(s, n + 1) \in Seq(Nat) /\ Len(Append(s, n + 1)) = n + 1
        /\ \A i \in 1 .. n : Append(s, n + 1)[i] = s[i]
        /\ Append(s, n + 1)[n + 1] = n + 1
    BY <1>1, AppendProperties
  <1>4. \A i \in 1 .. n + 1 : Append(s, n + 1)[i] = t[i]
    BY <1>1, <1>3
  <1>5. Append(s, n + 1) = t
    BY <1>1, <1>3, <1>4, SeqEqual
  <1>. QED
    BY <1>2, <1>5 DEF s, t

LEMMA RequestFacts ==
  ASSUME ExchangeShape
  PROVE  /\ request.pieces \in Nat /\ request.observed \in BOOLEAN /\ request.whole \in BOOLEAN
         /\ received \in Nat /\ Arrived \in Nat /\ Arrived =< request.pieces
         /\ Body = Pieces(request.pieces)
  BY LoggingAssumption DEF ExchangeShape, Requests, Arrived, Body, Pieces

\* The next message holds the next piece while there is one.
LEMMA NextMessageFacts ==
  ASSUME ExchangeShape
  PROVE  /\ NextMessage \in Messages
         /\ NextMessage.more <=> received < request.pieces
         /\ received < request.pieces => NextMessage.body = <<received + 1>>
         /\ received >= request.pieces => NextMessage.body = <<>>
         /\ NextMessage.type = "request" /\ ~NextMessage.more => received = request.pieces /\ request.whole
  <1>1. request.pieces \in Nat /\ received \in Nat /\ request.whole \in BOOLEAN
    BY RequestFacts
  <1>2. <<received + 1>> \in Seq(Nat) /\ <<>> \in Seq(Nat)
    BY <1>1
  <1>3. CASE received < request.pieces
    <2>1. NextMessage = [type |-> "request", body |-> <<received + 1>>, more |-> TRUE]
      BY <1>1, <1>3 DEF NextMessage
    <2>. QED
      BY <1>1, <1>2, <1>3, <2>1 DEF Messages
  <1>4. CASE received = request.pieces /\ request.whole
    <2>1. NextMessage = [type |-> "request", body |-> <<>>, more |-> FALSE]
      BY <1>1, <1>4 DEF NextMessage
    <2>. QED
      BY <1>1, <1>2, <1>4, <2>1 DEF Messages
  <1>5. CASE ~(received < request.pieces) /\ ~(received = request.pieces /\ request.whole)
    <2>1. NextMessage = [type |-> "disconnect", body |-> <<>>, more |-> FALSE]
      BY <1>1, <1>5 DEF NextMessage
    <2>. QED
      BY <1>1, <1>2, <1>5, <2>1 DEF Messages
  <1>. QED
    BY <1>3, <1>4, <1>5

LEMMA PiecesArrive ==
  ASSUME ExchangeShape, received' = received + 1, request' = request
  PROVE  Pieces(Arrived)' = Pieces(Arrived) \o NextMessage.body
  <1>1. request.pieces \in Nat /\ received \in Nat
    BY RequestFacts
  <1>2. CASE received < request.pieces
    <2>1. Arrived = received /\ Arrived' = received + 1
      BY <1>1, <1>2 DEF Arrived
    <2>2. Pieces(Arrived)' = Pieces(received + 1)
      BY <2>1 DEF Pieces
    <2>. QED
      BY <1>1, <1>2, <2>1, <2>2, OneMorePiece, NextMessageFacts
  <1>3. CASE received >= request.pieces
    <2>1. Arrived = request.pieces /\ Arrived' = request.pieces
      BY <1>1, <1>3 DEF Arrived
    <2>2. Pieces(Arrived)' = Pieces(request.pieces)
      BY <2>1 DEF Pieces
    <2>3. Pieces(request.pieces) \o <<>> = Pieces(request.pieces)
      BY <1>1, PiecesFacts, ConcatEmptySeq
    <2>. QED
      BY <1>3, <2>1, <2>2, <2>3, NextMessageFacts
  <1>. QED
    BY <1>1, <1>2, <1>3

LEMMA ReadGrows ==
  ASSUME got \in Seq(Messages), NEW m \in Messages, got' = Append(got, m)
  PROVE  /\ got' \in Seq(Messages)
         /\ Read' = Read \o m.body
         /\ ToldComplete' => ToldComplete \/ (m.type = "request" /\ ~m.more)
  <1>. DEFINE n == Len(got)
              b == [i \in DOMAIN got |-> got[i].body]
              c == [i \in DOMAIN got' |-> got'[i].body]
  <1>1. /\ n \in Nat /\ DOMAIN got = 1 .. n /\ \A i \in 1 .. n : got[i] \in Messages
        /\ got' \in Seq(Messages) /\ Len(got') = n + 1 /\ DOMAIN got' = 1 .. n + 1
        /\ \A i \in 1 .. n : got'[i] = got[i]
        /\ got'[n + 1] = m
    BY AppendProperties, LenProperties, ElementOfSeq
  <1>. HIDE DEF n
  <1>2. m.body \in Seq(Nat) /\ \A i \in 1 .. n : got[i].body \in Seq(Nat)
    BY <1>1 DEF Messages
  <1>3. /\ b \in Seq(Seq(Nat)) /\ Len(b) = n /\ \A i \in 1 .. n : b[i] = got[i].body
    <2>1. b \in [1 .. n -> Seq(Nat)] /\ \A i \in 1 .. n : b[i] = got[i].body
      BY <1>1, <1>2
    <2>. HIDE DEF b
    <2>. QED
      BY <1>1, <2>1, FunctionIsSeq
  <1>4. /\ c \in Seq(Seq(Nat)) /\ Len(c) = n + 1
        /\ \A i \in 1 .. n : c[i] = got[i].body
        /\ c[n + 1] = m.body
    <2>1. \A i \in 1 .. n + 1 : got'[i].body \in Seq(Nat)
      BY <1>1, <1>2
    <2>2. c \in [1 .. n + 1 -> Seq(Nat)] /\ \A i \in 1 .. n + 1 : c[i] = got'[i].body
      BY <1>1, <2>1
    <2>. HIDE DEF c
    <2>3. c \in Seq(Seq(Nat)) /\ Len(c) = n + 1
      BY <1>1, <2>2, FunctionIsSeq
    <2>. QED
      BY <1>1, <2>2, <2>3
  <1>5. Read = FlattenSeq(b) /\ Read' = FlattenSeq(c)
    BY DEF Read
  <1>. HIDE DEF b, c
  <1>6. c = Append(b, m.body)
    <2>1. /\ Append(b, m.body) \in Seq(Seq(Nat)) /\ Len(Append(b, m.body)) = n + 1
          /\ \A i \in 1 .. n : Append(b, m.body)[i] = b[i]
          /\ Append(b, m.body)[n + 1] = m.body
      BY <1>2, <1>3, AppendProperties
    <2>. DEFINE d == Append(b, m.body)
    <2>2. \A i \in 1 .. n + 1 : c[i] = d[i]
      <3>. HIDE DEF d
      <3>1. \A i \in 1 .. n + 1 : i \in 1 .. n \/ i = n + 1
        BY <1>1
      <3>2. \A i \in 1 .. n : c[i] = d[i]
        BY <1>3, <1>4, <2>1 DEF d
      <3>3. c[n + 1] = d[n + 1]
        BY <1>4, <2>1 DEF d
      <3>. QED
        BY <3>1, <3>2, <3>3
    <2>. QED
      BY <1>4, <2>1, <2>2, SeqEqual
  <1>7. Read' = Read \o m.body
    BY <1>2, <1>3, <1>5, <1>6, FlattenAppend
  <1>8. ToldComplete' => ToldComplete \/ (m.type = "request" /\ ~m.more)
    <2>. SUFFICES ASSUME ToldComplete' PROVE ToldComplete \/ (m.type = "request" /\ ~m.more)
      OBVIOUS
    <2>1. PICK i \in DOMAIN got' : got'[i].type = "request" /\ ~got'[i].more
      BY DEF ToldComplete
    <2>2. i \in 1 .. n \/ i = n + 1
      BY <1>1
    <2>. QED
      BY <1>1, <2>1, <2>2 DEF ToldComplete
  <1>. QED
    BY <1>1, <1>7, <1>8

\* Before the application has received anything.
LEMMA NothingRead ==
  /\ got = <<>> => Read = <<>> /\ ~ToldComplete
  /\ got' = <<>> => Read' = <<>> /\ ~ToldComplete'
  BY DEF Read, ToldComplete, FlattenSeq

Fresh ==
    /\ stage \in {"over", "resolving"}
    /\ request = [observed |-> FALSE, pieces |-> 0, whole |-> TRUE]
    /\ received = 0 /\ observed = <<>> /\ bodySent = FALSE
    /\ got = <<>> /\ noted = Silence /\ answered = Silence /\ records = <<>>

LEMMA FreshExchange == Fresh => ExchangeInv
  <1>. SUFFICES ASSUME Fresh PROVE ExchangeInv
    OBVIOUS
  <1>. USE DEF Fresh
  <1>1. /\ request.pieces = 0 /\ request.observed = FALSE /\ request \in Requests
    BY LoggingAssumption DEF Requests
  <1>2. <<>> \in Seq(Messages) /\ <<>> \in Seq(Nat)
    OBVIOUS
  <1>3. ExchangeShape
    BY <1>1, <1>2 DEF ExchangeShape, Silence
  <1>4. Arrived = 0
    BY <1>1 DEF Arrived
  <1>5. StageInv
    BY <1>1, <1>4, NoPieces DEF StageInv
  <1>6. ReadInv
    BY <1>1, <1>4, NoPieces, NothingRead DEF ReadInv
  <1>7. RecordsTell
    BY DEF RecordsTell
  <1>. QED
    BY <1>3, <1>5, <1>6, <1>7 DEF ExchangeInv

LEMMA FreshExchangeNext == Fresh' => ExchangeInv'
  BY FreshExchange, PTL

\* A REQUEST record alone tells the body that was observed.
LEMMA OneRecordTells ==
  ASSUME NEW mask, request' = request, records' = <<RequestRecord(mask)>>
  PROVE  RecordsTell'
  <1>1. /\ DOMAIN records' = {1} /\ records'[1].type = "REQUEST"
        /\ records'[1].data = DataField(IF request.observed THEN Body ELSE <<>>)
    BY DEF RequestRecord
  <1>2. records'[1].data = DataField(IF request'.observed THEN Body' ELSE <<>>)
    BY <1>1 DEF Body
  <1>. QED
    BY <1>1, <1>2 DEF RecordsTell

\* A RESPONSE record beside it tells what was answered, or that the application has raised.
LEMMA TwoRecordsTell ==
  ASSUME NEW mask, request' = request, NEW q, records' = <<RequestRecord(mask), q>>,
         q.type = "RESPONSE",
         IF q.status = 500 THEN q.data = "none"
         ELSE q.status = answered'.status /\ q.data = DataField(answered'.body)
  PROVE  RecordsTell'
  <1>1. /\ DOMAIN records' = {1, 2} /\ records'[2] = q /\ records'[1].type = "REQUEST"
        /\ records'[1].data = DataField(IF request.observed THEN Body ELSE <<>>)
    BY DEF RequestRecord
  <1>2. records'[1].data = DataField(IF request'.observed THEN Body' ELSE <<>>)
    BY <1>1 DEF Body
  <1>. QED
    BY <1>1, <1>2 DEF RecordsTell

\* What happens when the middleware is done with a request.
LEMMA LastStep ==
  ASSUME ExchangeInv, stage' = "over", request' = request, received' = received,
         observed' = observed, bodySent' = bodySent, got' = got
  PROVE  StageInv' /\ ReadInv'
  <1>1. Arrived' = Arrived
    BY DEF Arrived
  <1>2. StageInv'
    BY <1>1 DEF ExchangeInv, StageInv
  <1>3. ReadInv'
    BY <1>1 DEF ExchangeInv, ReadInv, Read, ToldComplete
  <1>. QED
    BY <1>2, <1>3

LEMMA ReplyType ==
  ASSUME noted \in [status : {NoStatus, 200, 400}, body : Seq(Nat)], Reply \/ UNCHANGED noted
  PROVE  noted' \in [status : {NoStatus, 200, 400}, body : Seq(Nat)]
  <1>1. CASE noted' \in [status : {200, 400}, body : {<<>>}]
    <2>1. PICK status \in {200, 400} : noted' = [status |-> status, body |-> <<>>]
      BY <1>1
    <2>2. <<>> \in Seq(Nat)
      OBVIOUS
    <2>. QED
      BY <2>1, <2>2
  <1>2. CASE noted' = [noted EXCEPT !.body = Append(@, Len(@) + 1)]
    <2>1. noted.body \in Seq(Nat) /\ Len(noted.body) + 1 \in Nat
      BY LenProperties
    <2>2. Append(noted.body, Len(noted.body) + 1) \in Seq(Nat)
      BY <2>1, AppendProperties
    <2>. QED
      BY <1>2, <2>2
  <1>. QED
    BY <1>1, <1>2 DEF Reply

LEMMA InitExchange == Init => ExchangeInv
  <1>1. Init => Fresh
    BY DEF Init, Fresh
  <1>. QED
    BY <1>1, FreshExchange

LEMMA ExchangeStutter ==
  ASSUME ExchangeInv, UNCHANGED <<stage, exchangeVars, records>>
  PROVE  ExchangeInv'
  <1>1. /\ stage' = stage /\ request' = request /\ received' = received /\ observed' = observed
        /\ bodySent' = bodySent /\ got' = got /\ noted' = noted /\ answered' = answered
        /\ records' = records
    BY DEF exchangeVars
  <1>2. ExchangeShape'
    BY <1>1 DEF ExchangeInv, ExchangeShape
  <1>3. StageInv'
    BY <1>1 DEF ExchangeInv, StageInv, Arrived, RequestRecord, Body
  <1>4. ReadInv'
    BY <1>1 DEF ExchangeInv, ReadInv, Read, ToldComplete, Arrived
  <1>5. RecordsTell'
    BY <1>1 DEF ExchangeInv, RecordsTell, Body
  <1>. QED
    BY <1>2, <1>3, <1>4, <1>5 DEF ExchangeInv

LEMMA ObserveExchange ==
  ASSUME ExchangeInv, Observe
  PROVE  ExchangeInv'
  <1>1. /\ stage = "resolving" /\ request' \in Requests
        /\ stage' = IF request'.observed THEN "observing" ELSE "logging"
        /\ received' = received /\ observed' = observed /\ bodySent' = bodySent /\ got' = got
        /\ noted' = noted /\ answered' = answered /\ records' = records
    BY DEF Observe
  <1>2. received = 0 /\ got = <<>> /\ ~bodySent /\ records = <<>> /\ noted = answered
    BY <1>1 DEF ExchangeInv, StageInv
  <1>3. request'.pieces \in Nat /\ request'.observed \in BOOLEAN
    BY <1>1, LoggingAssumption DEF Requests
  <1>4. ExchangeShape'
    BY <1>1, <1>3 DEF ExchangeInv, ExchangeShape
  <1>5. Arrived = 0 /\ Arrived' = 0
    BY <1>1, <1>2, <1>3, RequestFacts DEF Arrived, ExchangeInv
  <1>6. observed = Pieces(0) /\ observed' = Pieces(0)
    BY <1>1, <1>5 DEF ExchangeInv, StageInv
  <1>7. StageInv'
    BY <1>1, <1>2, <1>3, <1>5, <1>6 DEF StageInv
  <1>8. Read' = <<>> /\ ~ToldComplete'
    BY <1>1, <1>2, NothingRead
  <1>9. ReadInv'
    BY <1>1, <1>2, <1>3, <1>5, <1>8, NoPieces DEF ReadInv
  <1>10. RecordsTell'
    BY <1>1, <1>2 DEF RecordsTell
  <1>. QED
    BY <1>4, <1>7, <1>9, <1>10 DEF ExchangeInv

LEMMA ObserveMessageExchange ==
  ASSUME ExchangeInv, ObserveMessage
  PROVE  ExchangeInv'
  <1>1. /\ stage = "observing" /\ received' = received + 1
        /\ observed' = observed \o NextMessage.body
        /\ stage' = IF NextMessage.more THEN "observing" ELSE "logging"
        /\ request' = request /\ bodySent' = bodySent /\ got' = got
        /\ noted' = noted /\ answered' = answered /\ records' = records
    BY DEF ObserveMessage
  <1>2. /\ ExchangeShape /\ request.observed /\ received =< request.pieces
        /\ got = <<>> /\ ~bodySent /\ records = <<>> /\ noted = answered
        /\ observed = Pieces(Arrived)
    BY <1>1 DEF ExchangeInv, StageInv
  <1>3. ExchangeShape'
    BY <1>1, <1>2 DEF ExchangeShape
  <1>4. /\ request.pieces \in Nat /\ received \in Nat
        /\ NextMessage.more <=> received < request.pieces
    BY <1>2, RequestFacts, NextMessageFacts
  <1>5. observed' = Pieces(Arrived)'
    BY <1>1, <1>2, PiecesArrive
  <1>6. StageInv'
    <2>1. request'.observed
      BY <1>1, <1>2
    <2>2. CASE received < request.pieces
      BY <1>1, <1>2, <1>4, <1>5, <2>1, <2>2 DEF StageInv
    <2>3. CASE received = request.pieces
      BY <1>1, <1>2, <1>4, <1>5, <2>1, <2>3 DEF StageInv
    <2>. QED
      BY <1>2, <1>4, <2>2, <2>3
  <1>7. Read' = <<>> /\ ~ToldComplete'
    BY <1>1, <1>2, NothingRead
  <1>8. ReadInv'
    BY <1>1, <1>2, <1>7, NoPieces DEF ReadInv
  <1>9. RecordsTell'
    BY <1>1, <1>2 DEF RecordsTell
  <1>. QED
    BY <1>3, <1>6, <1>8, <1>9 DEF ExchangeInv

\* What _observe_request_data has read when the request is logged.
LEMMA ObservedIsBody ==
  ASSUME ExchangeInv, stage \in {"logging", "application"}
  PROVE  observed = IF request.observed THEN Body ELSE <<>>
  <1>1. /\ request.pieces \in Nat /\ received \in Nat /\ Body = Pieces(request.pieces)
        /\ observed = Pieces(IF request.observed THEN Arrived ELSE 0)
    BY RequestFacts DEF ExchangeInv, StageInv
  <1>2. request.observed => Arrived = request.pieces
    BY <1>1 DEF ExchangeInv, StageInv, Arrived
  <1>. QED
    BY <1>1, <1>2, NoPieces

LEMMA LogRequestExchange ==
  ASSUME ExchangeInv, LogRequest
  PROVE  ExchangeInv'
  <1>1. /\ stage = "logging" /\ stage' = "application"
        /\ request' = request /\ received' = received /\ observed' = observed
        /\ bodySent' = bodySent /\ got' = got /\ noted' = noted /\ answered' = answered
        /\ WriteRecord("REQUEST", observed, NoStatus)
    BY DEF LogRequest, Goto, exchangeVars
  <1>2. records = <<>>
    BY <1>1 DEF ExchangeInv, StageInv
  <1>3. observed = IF request.observed THEN Body ELSE <<>>
    BY <1>1, ObservedIsBody
  <1>4. records' = <<RequestRecord(answer)>>
    BY <1>2, <1>3, <1>1 DEF WriteRecord, RequestRecord
  <1>5. \A mask : RequestRecord(mask)' = RequestRecord(mask)
    BY <1>1 DEF RequestRecord, Body
  <1>6. ExchangeShape'
    BY <1>1 DEF ExchangeInv, ExchangeShape
  <1>7. Arrived' = Arrived
    BY <1>1 DEF Arrived
  <1>8. StageInv'
    <2>1. \E mask : records' = <<RequestRecord(mask)'>>
      BY <1>4, <1>5
    <2>. QED
      BY <1>1, <1>7, <2>1 DEF ExchangeInv, StageInv
  <1>9. ReadInv'
    BY <1>1, <1>7 DEF ExchangeInv, ReadInv, Read, ToldComplete
  <1>10. RecordsTell'
    BY <1>1, <1>4, OneRecordTells DEF ExchangeInv
  <1>. QED
    BY <1>6, <1>8, <1>9, <1>10 DEF ExchangeInv

LEMMA ReceiveExchange ==
  ASSUME ExchangeInv, Receive
  PROVE  ExchangeInv'
  <1>1. /\ stage = "application" /\ stage' = stage /\ request' = request /\ observed' = observed
        /\ noted' = noted /\ answered' = answered /\ records' = records
    BY DEF Receive, Receiving
  <1>2. /\ ExchangeShape /\ StageInv /\ ReadInv /\ RecordsTell
        /\ request.observed \in BOOLEAN /\ request.pieces \in Nat /\ received \in Nat
        /\ Body = Pieces(request.pieces) /\ got \in Seq(Messages)
    BY RequestFacts DEF ExchangeInv, ExchangeShape
  <1>3. RecordsTell'
    BY <1>1, <1>2 DEF RecordsTell, Body
  <1>4. \A mask : RequestRecord(mask)' = RequestRecord(mask)
    BY <1>1 DEF RequestRecord, Body
  <1>5. \E mask : records' = <<RequestRecord(mask)'>>
    BY <1>1, <1>2, <1>4 DEF StageInv
  <1>6. CASE request.observed /\ ~bodySent
    <2>. DEFINE m == [type |-> "request", body |-> observed, more |-> FALSE]
    <2>1. got' = Append(got, m) /\ bodySent' = TRUE /\ received' = received
      BY <1>6 DEF Receive
    <2>2. observed = Pieces(request.pieces)
      BY <1>1, <1>2, <1>6, ObservedIsBody
    <2>3. m \in Messages /\ m.body = observed
      BY <1>2, <2>2, PiecesFacts DEF Messages
    <2>. HIDE DEF m
    <2>4. got' \in Seq(Messages) /\ Read' = Read \o observed
      BY <1>2, <2>1, <2>3, ReadGrows
    <2>5. Read = <<>>
      BY <1>2, <1>6, NoPieces DEF ReadInv
    <2>6. Read' = Pieces(request.pieces)
      BY <1>2, <2>2, <2>4, <2>5, PiecesFacts, ConcatEmptySeq
    <2>7. ExchangeShape'
      BY <1>1, <1>2, <2>1, <2>4 DEF ExchangeShape
    <2>8. StageInv'
      <3>1. Arrived' = Arrived
        BY <1>1, <2>1 DEF Arrived
      <3>. QED
        BY <1>1, <1>2, <1>5, <2>1, <3>1 DEF StageInv
    <2>9. ReadInv'
      BY <1>1, <1>6, <2>1, <2>6 DEF ReadInv
    <2>. QED
      BY <1>3, <2>7, <2>8, <2>9 DEF ExchangeInv
  <1>7. CASE ~(request.observed /\ ~bodySent)
    <2>1. got' = Append(got, NextMessage) /\ received' = received + 1 /\ bodySent' = bodySent
      BY <1>7 DEF Receive, ReceiveFromServer
    <2>2. /\ NextMessage \in Messages
          /\ received >= request.pieces => NextMessage.body = <<>>
          /\ NextMessage.type = "request" /\ ~NextMessage.more
                => received = request.pieces /\ request.whole
      BY <1>2, NextMessageFacts
    <2>3. /\ got' \in Seq(Messages) /\ Read' = Read \o NextMessage.body
          /\ ToldComplete' => ToldComplete \/ (NextMessage.type = "request" /\ ~NextMessage.more)
      BY <1>2, <2>1, <2>2, ReadGrows
    <2>4. ExchangeShape'
      BY <1>1, <1>2, <2>1, <2>3 DEF ExchangeShape
    <2>5. CASE request.observed
      <3>1. bodySent /\ received > request.pieces
        BY <1>1, <1>2, <1>7, <2>5 DEF StageInv
      <3>2. Arrived' = Arrived
        BY <1>1, <1>2, <2>1, <3>1 DEF Arrived
      <3>3. received' > request'.pieces
        BY <1>1, <1>2, <2>1, <3>1
      <3>4. StageInv'
        BY <1>1, <1>2, <1>5, <2>1, <3>2, <3>3 DEF StageInv
      <3>5. Read' = Pieces(request.pieces)
        <4>1. Read = Pieces(request.pieces) /\ NextMessage.body = <<>>
          BY <1>2, <2>2, <2>5, <3>1 DEF ReadInv
        <4>. QED
          BY <1>2, <2>3, <4>1, PiecesFacts, ConcatEmptySeq
      <3>6. ReadInv'
        BY <1>1, <2>1, <2>5, <3>1, <3>5 DEF ReadInv
      <3>. QED
        BY <1>3, <2>4, <3>4, <3>6 DEF ExchangeInv
    <2>6. CASE ~request.observed
      <3>1. StageInv'
        BY <1>1, <1>2, <1>5, <2>1, <2>6 DEF StageInv
      <3>2. Read' = Pieces(Arrived)'
        <4>1. Read = Pieces(Arrived)
          BY <1>2, <2>6 DEF ReadInv
        <4>. QED
          BY <1>1, <1>2, <2>1, <2>3, <4>1, PiecesArrive
      <3>3. ToldComplete' => received' > request'.pieces /\ request'.whole
        <4>1. ToldComplete => received > request.pieces /\ request.whole
          BY <1>2, <2>6 DEF ReadInv
        <4>. QED
          BY <1>1, <1>2, <2>1, <2>2, <2>3, <4>1
      <3>4. ReadInv'
        BY <1>1, <2>6, <3>2, <3>3 DEF ReadInv
      <3>. QED
        BY <1>3, <2>4, <3>1, <3>4 DEF ExchangeInv
    <2>. QED
      BY <2>5, <2>6
  <1>. QED
    BY <1>6, <1>7

LEMMA AppendToOne ==
  ASSUME NEW a, NEW b
  PROVE  Append(<<a>>, b) = <<a, b>>
  <1>. DEFINE S == {a, b}
  <1>1. <<a>> \in Seq(S) /\ <<a, b>> \in Seq(S) /\ b \in S
    OBVIOUS
  <1>2. /\ Len(<<a>>) = 1 /\ <<a>>[1] = a
        /\ Len(<<a, b>>) = 2 /\ <<a, b>>[1] = a /\ <<a, b>>[2] = b
    OBVIOUS
  <1>. HIDE DEF S
  <1>3. /\ Append(<<a>>, b) \in Seq(S)
        /\ Len(Append(<<a>>, b)) = 2
        /\ Append(<<a>>, b)[1] = a
        /\ Append(<<a>>, b)[2] = b
    BY <1>1, <1>2, AppendProperties
  <1>4. \A i \in 1 .. 2 : Append(<<a>>, b)[i] = <<a, b>>[i]
    BY <1>2, <1>3
  <1>. QED
    BY <1>1, <1>2, <1>3, <1>4, SeqEqual

LEMMA SendExchange ==
  ASSUME ExchangeInv, Send
  PROVE  ExchangeInv'
  <1>1. /\ stage = "application" /\ stage' = stage /\ request' = request /\ received' = received
        /\ observed' = observed /\ bodySent' = bodySent /\ got' = got /\ records' = records
        /\ answered' = noted'
    BY DEF Send, Reply
  <1>2. \E mask : records' = <<RequestRecord(mask)>>
    BY <1>1 DEF ExchangeInv, StageInv
  <1>3. \A mask : RequestRecord(mask)' = RequestRecord(mask)
    BY <1>1 DEF RequestRecord, Body
  <1>4. ExchangeShape'
    BY <1>1, ReplyType DEF ExchangeInv, ExchangeShape, Send
  <1>5. StageInv'
    <2>1. Arrived' = Arrived
      BY <1>1 DEF Arrived
    <2>2. \E mask : records' = <<RequestRecord(mask)'>>
      BY <1>2, <1>3
    <2>. QED
      BY <1>1, <2>1, <2>2 DEF ExchangeInv, StageInv
  <1>6. ReadInv'
    BY <1>1 DEF ExchangeInv, ReadInv, Read, ToldComplete, Arrived
  <1>7. RecordsTell'
    BY <1>1, <1>2, OneRecordTells
  <1>. QED
    BY <1>4, <1>5, <1>6, <1>7 DEF ExchangeInv

LEMMA ApplicationRaisesExchange ==
  ASSUME ExchangeInv, ApplicationRaises
  PROVE  ExchangeInv'
  <1>1. /\ stage = "application" /\ stage' = "over" /\ request' = request /\ received' = received
        /\ observed' = observed /\ bodySent' = bodySent /\ got' = got /\ answered' = answered
        /\ WriteRecord("RESPONSE", <<>>, 500)
    BY DEF ApplicationRaises, Goto
  <1>2. PICK mask : records = <<RequestRecord(mask)>>
    BY <1>1 DEF ExchangeInv, StageInv
  <1>3. ExchangeShape'
    <2>1. noted' \in [status : {NoStatus, 200, 400}, body : Seq(Nat)]
      BY ReplyType DEF ApplicationRaises, ExchangeInv, ExchangeShape
    <2>. QED
      BY <1>1, <2>1 DEF ExchangeInv, ExchangeShape
  <1>4. records' = <<RequestRecord(mask),
                     [type |-> "RESPONSE", mask |-> answer, data |-> "none", status |-> 500]>>
    <2>1. DataField(<<>>) = "none"
      BY DEF DataField
    <2>. QED
      BY <1>1, <1>2, <2>1, AppendToOne DEF WriteRecord
  <1>5. RecordsTell'
    BY <1>1, <1>4, TwoRecordsTell
  <1>. QED
    BY <1>1, <1>3, <1>5, LastStep DEF ExchangeInv

LEMMA LogResponseExchange ==
  ASSUME ExchangeInv, LogResponse
  PROVE  ExchangeInv'
  <1>1. /\ stage = "application" /\ stage' = "over" /\ request' = request /\ received' = received
        /\ observed' = observed /\ bodySent' = bodySent /\ got' = got /\ noted' = noted
        /\ answered' = answered /\ noted.status # NoStatus
        /\ WriteRecord("RESPONSE", noted.body, noted.status)
    BY DEF LogResponse, Goto, exchangeVars
  <1>2. PICK mask : records = <<RequestRecord(mask)>>
    BY <1>1 DEF ExchangeInv, StageInv
  <1>3. noted = answered /\ noted.status # 500
    BY <1>1 DEF ExchangeInv, ExchangeShape, StageInv, NoStatus
  <1>4. ExchangeShape'
    BY <1>1 DEF ExchangeInv, ExchangeShape
  <1>5. records' = <<RequestRecord(mask),
                     [type |-> "RESPONSE", mask |-> answer, data |-> DataField(answered.body),
                      status |-> answered.status]>>
    BY <1>1, <1>2, <1>3, AppendToOne DEF WriteRecord
  <1>6. RecordsTell'
    BY <1>1, <1>3, <1>5, TwoRecordsTell
  <1>. QED
    BY <1>1, <1>4, <1>6, LastStep DEF ExchangeInv

LEMMA BreakOffExchange ==
  ASSUME ExchangeInv, FormatRaises \/ Cancel
  PROVE  ExchangeInv'
  <1>1. /\ stage' = "over" /\ request' = request /\ received' = received
        /\ observed' = observed /\ bodySent' = bodySent /\ got' = got /\ noted' = noted
        /\ answered' = answered /\ records' = records
    BY DEF FormatRaises, Cancel, exchangeVars
  <1>2. ExchangeShape'
    BY <1>1 DEF ExchangeInv, ExchangeShape
  <1>3. RecordsTell'
    BY <1>1 DEF ExchangeInv, RecordsTell, Body
  <1>. QED
    BY <1>1, <1>2, <1>3, LastStep DEF ExchangeInv

LEMMA NextExchange == ExchangeInv /\ [Next]_vars => ExchangeInv'
  <1>. SUFFICES ASSUME ExchangeInv, [Next]_vars PROVE ExchangeInv'
    OBVIOUS
  <1>1. ASSUME NEW p \in Paths, Arrive(p) PROVE ExchangeInv'
    <2>1. Fresh'
      BY <1>1 DEF Arrive, Fresh
    <2>. QED
      BY <2>1, FreshExchangeNext
  <1>2. CASE UNCHANGED <<stage, exchangeVars, records>>
    BY <1>2, ExchangeStutter
  <1>3. ((\E route \in Routes : Register(route) /\ UNCHANGED <<stage, exchangeVars, records>>)
           \/ ResolveMask \/ UNCHANGED vars) => UNCHANGED <<stage, exchangeVars, records>>
    BY DEF ResolveMask, vars
  <1>4. CASE Observe
    BY <1>4, ObserveExchange
  <1>5. CASE ObserveMessage
    BY <1>5, ObserveMessageExchange
  <1>6. CASE LogRequest
    BY <1>6, LogRequestExchange
  <1>7. CASE Receive
    BY <1>7, ReceiveExchange
  <1>8. CASE Send
    BY <1>8, SendExchange
  <1>9. CASE ApplicationRaises
    BY <1>9, ApplicationRaisesExchange
  <1>10. CASE FormatRaises \/ Cancel
    BY <1>10, BreakOffExchange
  <1>11. CASE LogResponse
    BY <1>11, LogResponseExchange
  <1>. QED
    BY <1>1, <1>2, <1>3, <1>4, <1>5, <1>6, <1>7, <1>8, <1>9, <1>10, <1>11 DEF Next

LEMMA PrefixOfPieces ==
  ASSUME NEW n \in Nat, NEW m \in Nat, m =< n
  PROVE  IsPrefix(Pieces(m), Pieces(n))
  <1>1. Begins(Pieces(m), Pieces(n))
    BY PiecesFacts DEF Begins
  <1>. QED
    BY <1>1, PiecesFacts, PrefixFacts

LEMMA ReadIsSent == ExchangeInv => BodyReadOnce
  <1>. SUFFICES ASSUME ExchangeInv PROVE BodyReadOnce
    OBVIOUS
  <1>1. /\ request.pieces \in Nat /\ request.observed \in BOOLEAN /\ Body = Pieces(request.pieces)
        /\ received \in Nat /\ Arrived \in Nat /\ Arrived =< request.pieces
        /\ bodySent \in BOOLEAN
    BY RequestFacts DEF ExchangeInv, ExchangeShape
  <1>. DEFINE k == IF request.observed THEN IF bodySent THEN request.pieces ELSE 0 ELSE Arrived
  <1>2. Read = Pieces(k) /\ k \in Nat /\ k =< request.pieces
    BY <1>1 DEF ExchangeInv, ReadInv
  <1>3. ToldComplete => k = request.pieces /\ (~request.observed => request.whole)
    BY <1>1 DEF ExchangeInv, ReadInv, Arrived
  <1>. HIDE DEF k
  <1>. QED
    BY <1>1, <1>2, <1>3, PrefixOfPieces DEF BodyReadOnce

\* Observing a request does not disturb it: the application reads the body that arrived, once and
\* in order, and the records tell what was exchanged (request_response_logging.py:57-65, 74-111).
THEOREM Undisturbed == Spec => []ExchangeUndisturbed
  <1>1. Spec => []ExchangeInv
    BY InitExchange, NextExchange, PTL DEF Spec
  <1>2. ExchangeInv => ExchangeUndisturbed
    BY ReadIsSent DEF ExchangeUndisturbed, ExchangeInv
  <1>. QED
    BY <1>1, <1>2, PTL

(***************************************************************************)
(* Type correctness: what the invariants above do not say of it already.   *)
(***************************************************************************)

Answers == {<<m>> : m \in Routes \cup {NoMask}} \cup {<<>>}

MaskRest ==
    /\ Len(routes) <= MaxRoutes
    /\ node \in DOMAIN trie
    /\ answer \in Answers

ExchangeRest ==
    /\ answered \in [status : {NoStatus, 200, 400}, body : Seq(Nat)]
    /\ stage = "over" => Len(records) <= 2

LEMMA PrefixesClosed ==
  ASSUME TrieInv, NEW n \in DOMAIN trie
  PROVE  Prefixes(n) \subseteq DOMAIN trie
  <1>. SUFFICES ASSUME NEW m \in Prefixes(n) PROVE m \in DOMAIN trie
    OBVIOUS
  <1>1. n \in Nodes /\ m \in Nodes
    BY NodeType, PrefixType
  <1>2. Begins(m, n) /\ Len(m) \in Nat
    BY <1>1, PrefixFacts, LenProperties DEF Nodes
  <1>3. CASE n = <<>>
    <2>1. Len(m) = 0
      BY <1>2, <1>3 DEF Begins
    <2>. QED
      BY <1>1, <1>3, <2>1, EmptySeq DEF Nodes
  <1>4. CASE n # <<>>
    <2>1. PICK r \in Registered : n \in Prefixes(Keys(r))
      BY <1>4, NodeType
    <2>2. Keys(r) \in Nodes /\ Prefixes(Keys(r)) \subseteq DOMAIN trie
      BY <2>1, NodeType
    <2>3. Begins(n, Keys(r)) /\ Len(n) \in Nat /\ Len(Keys(r)) \in Nat
      BY <1>1, <2>1, <2>2, PrefixFacts, LenProperties DEF Nodes
    <2>4. Begins(m, Keys(r))
      BY <1>2, <2>3 DEF Begins
    <2>5. m \in Prefixes(Keys(r))
      BY <1>1, <2>2, <2>4, PrefixFacts DEF Nodes
    <2>. QED
      BY <2>2, <2>5
  <1>. QED
    BY <1>3, <1>4

LEMMA MaskRestNext ==
  ASSUME Inv, MaskRest, [Next]_vars
  PROVE  MaskRest'
  <1>1. TrieInv'
    BY NextInv DEF Inv
  <1>2. CASE UNCHANGED maskVars
    BY <1>2 DEF MaskRest, maskVars
  <1>3. ASSUME NEW route \in Routes, Register(route) PROVE MaskRest'
    <2>1. /\ routes \in Seq(Routes) /\ Len(routes) < MaxRoutes /\ routes' = Append(routes, route)
          /\ node' = node /\ answer' = answer
      BY <1>3 DEF Inv, TrieInv, Register
    <2>2. Len(routes') = Len(routes) + 1 /\ Len(routes) \in Nat
      BY <2>1, AppendProperties, LenProperties
    <2>3. node' \in DOMAIN trie'
      BY <1>3, <2>1 DEF MaskRest, Register, Insert
    <2>4. Len(routes') <= MaxRoutes
      BY <2>1, <2>2, BoundsAssumption
    <2>. QED
      BY <2>1, <2>3, <2>4 DEF MaskRest
  <1>4. ASSUME NEW p \in Paths, Arrive(p) PROVE MaskRest'
    <2>1. routes' = routes /\ node' = <<>> /\ answer' = <<>>
      BY <1>4 DEF Arrive, Request
    <2>2. <<>> \in DOMAIN trie'
      BY <1>1 DEF TrieInv
    <2>. QED
      BY <2>1, <2>2 DEF MaskRest, Answers
  <1>5. CASE ResolveMask
    <2>1. CASE Descend
      BY <2>1 DEF Descend, MaskRest
    <2>2. CASE GiveUp
      BY <2>2 DEF GiveUp, MaskRest, Answers
    <2>3. CASE Answer
      <3>1. trie[node] \in Routes \cup {NoMask}
        BY NodeType DEF Inv, TrieInv, MaskRest
      <3>. QED
        BY <2>3, <3>1 DEF Answer, MaskRest, Answers
    <2>. QED
      BY <1>5, <2>1, <2>2, <2>3 DEF ResolveMask, Resolve
  <1>6. (Observe \/ ObserveMessage \/ LogRequest \/ Receive \/ Send \/ ApplicationRaises
           \/ FormatRaises \/ Cancel \/ LogResponse \/ UNCHANGED vars) => UNCHANGED maskVars
    BY DEF Observe, ObserveMessage, LogRequest, Receive, Send, ApplicationRaises, FormatRaises,
           Cancel, LogResponse, vars
  <1>. QED
    BY <1>2, <1>3, <1>4, <1>5, <1>6 DEF Next

\* At the end there are the REQUEST, and the RESPONSE unless the exchange broke off.
LEMMA ExchangeRestNext ==
  ASSUME ExchangeInv, ExchangeRest, [Next]_vars
  PROVE  ExchangeRest'
  <1>1. CASE UNCHANGED <<stage, exchangeVars, records>>
    BY <1>1 DEF ExchangeRest, exchangeVars
  <1>2. ASSUME NEW p \in Paths, Arrive(p) PROVE ExchangeRest'
    BY <1>2, EmptySeq DEF Arrive, Silence, ExchangeRest
  <1>3. CASE Send
    <2>1. answered' \in [status : {NoStatus, 200, 400}, body : Seq(Nat)]
      BY <1>3, ReplyType DEF Send, ExchangeInv, ExchangeShape
    <2>2. stage' # "over"
      BY <1>3 DEF Send, Reply
    <2>. QED
      BY <2>1, <2>2 DEF ExchangeRest
  <1>4. CASE ApplicationRaises \/ LogResponse
    <2>1. answered' = answered /\ stage = "application"
      BY <1>4 DEF ApplicationRaises, LogResponse, Goto, exchangeVars
    <2>2. PICK mask : records = <<RequestRecord(mask)>>
      BY <2>1 DEF ExchangeInv, StageInv
    <2>3. PICK r : records' = Append(records, r)
      BY <1>4 DEF ApplicationRaises, LogResponse, WriteRecord
    <2>4. Len(records') = 2
      BY <2>2, <2>3
    <2>. QED
      BY <2>1, <2>4 DEF ExchangeRest
  <1>5. CASE FormatRaises \/ Cancel
    <2>1. /\ answered' = answered /\ records' = records
          /\ stage \in {"observing", "logging", "application"}
      BY <1>5 DEF FormatRaises, Cancel, exchangeVars
    <2>2. records = <<>> \/ \E mask : records = <<RequestRecord(mask)>>
      BY <2>1 DEF ExchangeInv, StageInv
    <2>3. Len(records) <= 2
      BY <2>2
    <2>. QED
      BY <2>1, <2>3 DEF ExchangeRest
  <1>6. CASE Observe \/ ObserveMessage \/ LogRequest \/ Receive
    BY <1>6 DEF Observe, ObserveMessage, LogRequest, Goto, Receive, Receiving, exchangeVars,
           ExchangeRest
  <1>7. (\E route \in Routes : Register(route) /\ UNCHANGED <<stage, exchangeVars, records>>)
           \/ ResolveMask \/ UNCHANGED vars => UNCHANGED <<stage, exchangeVars, records>>
    BY DEF ResolveMask, vars
  <1>. QED
    BY <1>1, <1>2, <1>3, <1>4, <1>5, <1>6, <1>7 DEF Next

LEMMA TypesFollow ==
  ASSUME Inv, ExchangeInv, MaskRest, ExchangeRest
  PROVE  TypeOK
  <1>1. MaskTypeOK
    <2>1. \A n \in DOMAIN trie : trie[n] \in Routes \cup {NoMask}
      BY NodeType DEF Inv, TrieInv
    <2>. QED
      BY <2>1, PrefixesClosed DEF Inv, TrieInv, WalkInv, MaskRest, Answers, MaskTypeOK
  <1>2. observed \in Seq(Nat)
    BY RequestFacts, PiecesFacts DEF ExchangeInv, StageInv
  <1>3. {noted, answered} \subseteq [status : Nat, body : Seq(Nat)]
    <2>1. {NoStatus, 200, 400} \subseteq Nat
      BY DEF NoStatus
    <2>. QED
      BY <2>1 DEF ExchangeInv, ExchangeShape, ExchangeRest
  <1>4. Len(records) <= 2
    <2>1. \/ stage = "over"
          \/ records = <<>>
          \/ \E mask : records = <<RequestRecord(mask)>>
      BY DEF ExchangeInv, ExchangeShape, StageInv
    <2>2. CASE records = <<>>
      BY <2>2
    <2>3. CASE \E mask : records = <<RequestRecord(mask)>>
      BY <2>3
    <2>4. CASE stage = "over"
      BY <2>4 DEF ExchangeRest
    <2>. QED
      BY <2>1, <2>2, <2>3, <2>4
  <1>. QED
    BY <1>1, <1>2, <1>3, <1>4 DEF TypeOK, ExchangeInv, ExchangeShape, Messages

\* Every variable of the resolver and of an exchange keeps its type; at most two records are
\* written for a request (request_response_logging.py:57-65).
THEOREM TypeCorrect == Spec => []TypeOK
  <1>1. Init => MaskRest /\ ExchangeRest
    BY EmptySeq, BoundsAssumption
       DEF Init, MaskInit, Silence, MaskRest, Answers, ExchangeRest
  <1>. QED
    BY <1>1, InitInv, InitExchange, NextInv, NextExchange, MaskRestNext, ExchangeRestNext,
       TypesFollow, PTL DEF Spec
===============================================================================
