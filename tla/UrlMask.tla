------------------------------- MODULE UrlMask -------------------------------
(***************************************************************************)
(* UrlMaskResolver (share/fastapi/utils/url_mask_resolver.py): the logging *)
(* middleware names the route a path belongs to.  Its constructor inserts  *)
(* the registered routes into a trie; resolve walks the trie segment by    *)
(* segment and never turns back.  RequestLogging is the middleware that     *)
(* calls it; this module has no behaviour of its own.                      *)
(*                                                                         *)
(* A route is a sequence of literals and parameters, a path a sequence of  *)
(* literals; slashes at either end are stripped by the code.  A node of    *)
(* the trie is the sequence of keys that leads to it, a parameter having   *)
(* the key Dynamic whatever its name.                                      *)
(***************************************************************************)
EXTENDS Naturals, Sequences, SequencesExt

CONSTANTS
    Literals,   \* the segments that occur in routes and paths
    Parameters, \* the names that occur in {braces}
    Dynamic,    \* the key of _TrieNode.dynamic_child
    NoMask,     \* _TrieNode.mask is None; resolve returns the path itself
    MaxLength,  \* bound: segments of a route or path
    MaxRoutes   \* bound: registered routes

ASSUME SegmentsAssumption == /\ Literals \cap Parameters = {}
                             /\ Dynamic \notin Literals
ASSUME BoundsAssumption == {MaxLength, MaxRoutes} \subseteq Nat

Segments == Literals \cup Parameters

Routes == BoundedSeq(Segments, MaxLength) \ {<<>>}

Paths == BoundedSeq(Literals, MaxLength) \ {<<>>}

ASSUME NoMaskAssumption == NoMask \notin Routes

VARIABLES
    routes,     \* the routes of the application, in the order of registration
    trie,       \* the mask of every node
    path,       \* the path being resolved, or the last one
    node,       \* resolve: the node reached
    answer      \* resolve: "none" yet, or <<mask>>

maskVars == <<routes, trie, path, node, answer>>

Keys(route) == [i \in DOMAIN route |-> IF route[i] \in Parameters THEN Dynamic ELSE route[i]]

(***************************************************************************)
(* The nodes are closed under prefixes, and resolve stands on one of them. *)
(***************************************************************************)
MaskTypeOK ==
    /\ routes \in Seq(Routes) /\ Len(routes) <= MaxRoutes
    /\ \A n \in DOMAIN trie : /\ trie[n] \in Routes \cup {NoMask}
                              /\ Prefixes(n) \subseteq DOMAIN trie
    /\ path \in Paths \cup {<<>>}
    /\ node \in DOMAIN trie
    /\ answer \in {<<m>> : m \in Routes \cup {NoMask}} \cup {<<>>}

MaskInit ==
    /\ routes = <<>>
    /\ trie = [n \in {<<>>} |-> NoMask]
    /\ path = <<>>
    /\ node = <<>>
    /\ answer = <<>>

\* Mutant: the mask is set on every node that is passed.
InsertMarksAll(route) ==
    trie' = [n \in DOMAIN trie \cup Prefixes(Keys(route)) |->
                IF n \in Prefixes(Keys(route)) THEN route ELSE trie[n]]

\* _insert: missing nodes are made along the way, the last one gets the mask.
Insert(route) ==
    trie' = [n \in DOMAIN trie \cup Prefixes(Keys(route)) |->
                CASE n = Keys(route) -> route
                  [] n # Keys(route) /\ n \in DOMAIN trie -> trie[n]
                  [] OTHER -> NoMask]

\* The constructor goes through the routes once, before the first request.
Register(route) ==
    /\ path = <<>>
    /\ Len(routes) < MaxRoutes
    /\ routes' = Append(routes, route)
    /\ Insert(route)
    /\ UNCHANGED <<path, node, answer>>

Request(p) ==
    /\ path = <<>> \/ answer # <<>>
    /\ path' = p
    /\ node' = <<>>
    /\ answer' = <<>>
    /\ UNCHANGED <<routes, trie>>

\* Mutant: a parameter is preferred to a literal.
ChildDynamicFirst(n, segment) ==
    IF Append(n, Dynamic) \in DOMAIN trie THEN Append(n, Dynamic) ELSE Append(n, segment)

\* The child for a segment: the literal one if there is one, else the dynamic one.
Child(n, segment) ==
    IF Append(n, segment) \in DOMAIN trie THEN Append(n, segment) ELSE Append(n, Dynamic)

Walking == path # <<>> /\ answer = <<>>

Descend ==
    /\ Walking
    /\ Len(node) < Len(path)
    /\ node' = Child(node, path[Len(node) + 1])
    /\ node' \in DOMAIN trie
    /\ UNCHANGED <<routes, trie, path, answer>>

\* No child: the path itself is returned.
GiveUp ==
    /\ Walking
    /\ Len(node) < Len(path)
    /\ Child(node, path[Len(node) + 1]) \notin DOMAIN trie
    /\ answer' = <<NoMask>>
    /\ UNCHANGED <<routes, trie, path, node>>

Answer ==
    /\ Walking
    /\ Len(node) = Len(path)
    /\ answer' = <<trie[node]>>
    /\ UNCHANGED <<routes, trie, path, node>>

\* The walk goes on.
Resolve == Descend \/ GiveUp \/ Answer
-----------------------------------------------------------------------------
Fits(keys, p) ==
    /\ Len(keys) = Len(p)
    /\ \A i \in DOMAIN p : keys[i] \in {p[i], Dynamic}

Matches(route, p) == Fits(Keys(route), p)

Registered == ToSet(routes)

(***************************************************************************)
(* A mask that is returned is a registered route that matches the path     *)
(* (url_mask_resolver.py:48-57).                                           *)
(***************************************************************************)
MaskMatches ==
    \A mask \in Routes : answer = <<mask>> => mask \in Registered /\ Matches(mask, path)

(***************************************************************************)
(* What resolve computes, said without the trie: of the shapes that fit    *)
(* the path, the one that takes a parameter only where no registered route *)
(* goes on with the literal; its mask is the route of that shape that was  *)
(* registered last, and without such a route there is none                 *)
(* (url_mask_resolver.py:26-37, 48-57).                                    *)
(***************************************************************************)
Preferred(keys, p) ==
    /\ Fits(keys, p)
    /\ \A i \in DOMAIN p : keys[i] = Dynamic =>
           ~ \E r \in Registered : IsPrefix(Append(SubSeq(keys, 1, i - 1), p[i]), Keys(r))

LastIs(route) ==
    \E i \in DOMAIN routes : /\ routes[i] = route
                             /\ \A j \in i + 1 .. Len(routes) : Keys(routes[j]) # Keys(route)

ResolvesPreferred ==
    answer # <<>> =>
        LET best == {r \in Registered : Preferred(Keys(r), path) /\ LastIs(r)} IN
        IF best = {} THEN answer = <<NoMask>> ELSE best = {answer[1]}

=============================================================================
