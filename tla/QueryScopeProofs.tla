-------------------------- MODULE QueryScopeProofs --------------------------
(***************************************************************************)
(* What a statement under construction may name, proved for constructs     *)
(* nested to any depth and any number of aliases, items and columns.        *)
(***************************************************************************)
EXTENDS QueryScope, SequenceLemmas

-----------------------------------------------------------------------------
(* The scope of f is made from that of the construct f is in.               *)
Inherits(f) ==
    f.kind = "join" \/ (f.kind = "query" /\ f.how \in {"subq", "lateral", "exists"})

(* The aliases that belong to f, and those of them its scope has already.   *)
Held(f) ==
    IF f.kind = "query" THEN f.own ELSE IF f.kind = "join" THEN f.lhs \o f.rhs ELSE <<>>

Added(f) == IF f.kind = "join" /\ f.phase # "on" THEN <<>> ELSE Held(f)

(* Which constructs come first, and which stand in which.                   *)
Root(f) ==
    \/ f.kind = "query" /\ f.how = "top"
    \/ f.kind = "setop" /\ f.level = 0
    \/ f.kind = "with"

Linked(p, f) ==
    \/ f.kind = "join" /\ WantsTableRef(p)
    \/ f.kind = "setop" /\ p.kind = "setop" /\ p.phase = "right" /\ MayTry(p)
         /\ f.level = p.level + 1
    \/ /\ f.kind = "query"
       /\ \/ f.how = "subq" /\ WantsTableRef(p)
          \/ f.how = "lateral" /\ p.kind = "query" /\ p.phase = "more"
          \/ f.how = "exists" /\ HasScope(p) /\ InExpression(p)
          \/ f.how = "left" /\ p.kind = "setop" /\ p.phase = "left"
          \/ f.how = "right" /\ p.kind = "setop" /\ p.phase = "right" /\ MayTry(p)
          \/ f.how = "with" /\ p.kind = "with" /\ p.phase = "with"
          \/ f.how = "main" /\ p.kind = "with" /\ p.phase = "main"

(* The scope of f, in p: what it was made from and what was added since.    *)
InScope(p, f) ==
    HasScope(f) =>
        /\ f.refs = (IF Inherits(f) THEN p.refs ELSE <<>>) \o Added(f)
        /\ f.withs = IF Inherits(f) THEN p.withs
                     ELSE IF f.kind = "query" /\ f.how = "main" THEN ToSet(p.names) ELSE {}

Stands(s, n, f) ==
    /\ IF n = 0 THEN Root(f) ELSE Linked(s[n], f)
    /\ InScope(s[n], f)

(* What a construct keeps to on its own.                                    *)
WellBuilt(f) ==
    /\ f.kind = "query" =>
         /\ f.phase = "from" => f.own = <<>>
    /\ f.kind = "join" =>
         /\ f.phase = "lhs" => f.lhs = <<>>
         /\ f.phase # "on" => f.rhs = <<>>
    /\ f.kind = "setop" /\ f.phase = "order" => \A cols \in f.others : Len(cols) = Len(f.left)

(* No alias twice in a scope, nor once the sides of a join come into it.    *)
Distinct(f) ==
    /\ HasScope(f) => NoTwice(f.refs)
    /\ f.kind = "join" /\ f.phase = "rhs" => NoTwice(f.refs \o f.lhs)

(* Every alias in use has been counted. *)
Counts(ns, u) == \A n \in ns : n[2] < u[n[1]]

Old(f, u) == HasScope(f) => Counts(ToSet(f.refs) \cup ToSet(Held(f)), u)

Apart(f, g) == ToSet(Held(f)) \cap ToSet(Held(g)) = {}

Fits(s, u, n, f) ==
    /\ f \in Frames
    /\ WellBuilt(f) /\ Distinct(f) /\ Old(f, u)
    /\ Stands(s, n, f)
    /\ \A i \in 1..n : Apart(s[i], f)

Built(s, u) ==
    /\ s \in Seq(Frames) /\ u \in [AliasPrefixes -> Nat]
    /\ \A i \in 1..Len(s) : Fits(s, u, i - 1, s[i])

IInv == Built(stack, uid)

-----------------------------------------------------------------------------
(* Constructs by their kind. *)
LEMMA KindOf ==
    ASSUME NEW f \in Frames
    PROVE  /\ f.kind \in {"query", "join", "setop", "with"}
           /\ f.kind = "query" <=> f \in QueryFrames
           /\ f.kind = "join" <=> f \in JoinFrames
           /\ f.kind = "setop" <=> f \in SetOpFrames
           /\ f.kind = "with" <=> f \in WithFrames
<1>1. \A g \in QueryFrames : g.kind = "query"
    BY DEF QueryFrames
<1>2. \A g \in JoinFrames : g.kind = "join"
    BY DEF JoinFrames
<1>3. \A g \in SetOpFrames : g.kind = "setop"
    BY DEF SetOpFrames
<1>4. \A g \in WithFrames : g.kind = "with"
    BY DEF WithFrames
<1> QED BY <1>1, <1>2, <1>3, <1>4 DEF Frames

LEMMA AliasesOf ==
    ASSUME NEW f \in Frames
    PROVE  /\ HasScope(f) => f.refs \in Seq(Aliases) /\ f.withs \in SUBSET Aliases
           /\ Held(f) \in Seq(Aliases) /\ Added(f) \in Seq(Aliases)
           /\ f.kind = "query" => f.own \in Seq(Aliases)
           /\ f.kind = "join" => f.lhs \in Seq(Aliases) /\ f.rhs \in Seq(Aliases)
<1>1. CASE f.kind = "query"
    <2>1. f \in QueryFrames
        BY <1>1, KindOf
    <2>2. f.refs \in Seq(Aliases) /\ f.withs \in SUBSET Aliases /\ f.own \in Seq(Aliases)
        BY <2>1 DEF QueryFrames
    <2> QED BY <1>1, <2>2 DEF Held, Added, HasScope
<1>2. CASE f.kind = "join"
    <2>1. f \in JoinFrames
        BY <1>2, KindOf
    <2>2. /\ f.refs \in Seq(Aliases) /\ f.withs \in SUBSET Aliases
          /\ f.lhs \in Seq(Aliases) /\ f.rhs \in Seq(Aliases)
        BY <2>1 DEF JoinFrames
    <2>3. f.lhs \o f.rhs \in Seq(Aliases) /\ <<>> \in Seq(Aliases)
        BY <2>2, ToSetConcat
    <2> QED BY <1>2, <2>2, <2>3 DEF Held, Added, HasScope
<1>3. CASE f.kind \in {"setop", "with"}
    <2>1. <<>> \in Seq(Aliases)
        OBVIOUS
    <2> QED BY <1>3, <2>1 DEF Held, Added, HasScope
<1> QED BY <1>1, <1>2, <1>3, KindOf

(* Aliases in use stay counted while the counters grow.                      *)
LEMMA StaysOld ==
    ASSUME NEW u \in [AliasPrefixes -> Nat], NEW v \in [AliasPrefixes -> Nat],
           NEW f \in Frames, Old(f, u), \A p \in AliasPrefixes : u[p] <= v[p]
    PROVE  Old(f, v)
<1> SUFFICES ASSUME HasScope(f), NEW a \in ToSet(f.refs) \cup ToSet(Held(f))
             PROVE  a[2] < v[a[1]]
    BY DEF Old, Counts
<1>1. f.refs \in Seq(Aliases) /\ Held(f) \in Seq(Aliases)
    BY AliasesOf
<1>2. a \in Aliases
    BY <1>1 DEF ToSet
<1>3. a[2] < u[a[1]]
    BY DEF Old, Counts
<1>4. a[1] \in AliasPrefixes /\ a[2] \in Nat /\ u[a[1]] \in Nat /\ v[a[1]] \in Nat
    BY <1>2 DEF Aliases
<1> QED BY <1>3, <1>4

-----------------------------------------------------------------------------
(* Stacks: everything from the n-th construct on is dropped and f put there. *)
LEMMA Onto ==
    ASSUME NEW s, NEW u, Built(s, u), NEW t, NEW v \in [AliasPrefixes -> Nat],
           NEW n \in 0..Len(s), NEW f,
           \A p \in AliasPrefixes : u[p] <= v[p],
           t = Append(SubSeq(s, 1, n), f),
           Fits(s, v, n, f)
    PROVE  Built(t, v)
<1>1. s \in Seq(Frames) /\ Len(s) \in Nat /\ n \in Nat /\ n <= Len(s)
    BY DEF Built
<1>2. f \in Frames
    BY DEF Fits
<1>3. /\ SubSeq(s, 1, n) \in Seq(Frames) /\ Len(SubSeq(s, 1, n)) = n
      /\ \A i \in 1..n : SubSeq(s, 1, n)[i] = s[i]
    BY <1>1
<1>4. /\ t \in Seq(Frames) /\ Len(t) = n + 1 /\ t[n + 1] = f
      /\ \A i \in 1..n : t[i] = s[i]
    BY <1>1, <1>2, <1>3, AppendProperties
<1>5. t \in Seq(Frames)
    BY <1>4
<1>6. ASSUME NEW i \in 1..Len(t) PROVE Fits(t, v, i - 1, t[i])
    <2>1. CASE i = n + 1
        <3>1. Stands(t, n, f)
            <4>1. n # 0 => t[n] = s[n]
                BY <1>1, <1>4
            <4>2. CASE n = 0
                <5>1. Root(f) /\ ~Inherits(f)
                    BY <4>2 DEF Fits, Stands, Root, Inherits
                <5> QED BY <4>2, <5>1 DEF Fits, Stands, InScope, Root
            <4> QED BY <4>1, <4>2 DEF Fits, Stands
        <3>2. \A k \in 1..n : Apart(t[k], f)
            BY <1>4 DEF Fits
        <3>3. i - 1 = n /\ t[i] = f
            BY <1>1, <1>4, <2>1
        <3> QED BY <3>1, <3>2, <3>3 DEF Fits
    <2>2. CASE i # n + 1
        <3>1. i \in 1..n /\ i \in 1..Len(s) /\ t[i] = s[i] /\ i - 1 \in 0..n
            BY <1>1, <1>4, <2>2
        <3>2. Fits(s, u, i - 1, s[i])
            BY <3>1 DEF Built
        <3>3. Old(s[i], v)
            BY <3>2, StaysOld DEF Fits, Built
        <3>4. Stands(t, i - 1, s[i])
            <4>1. i - 1 # 0 => t[i - 1] = s[i - 1]
                BY <1>4, <3>1
            <4>2. CASE i - 1 = 0
                <5>1. Root(s[i]) /\ ~Inherits(s[i])
                    BY <3>2, <4>2 DEF Fits, Stands, Root, Inherits
                <5> QED BY <3>2, <4>2, <5>1 DEF Fits, Stands, InScope, Root
            <4> QED BY <3>2, <4>1, <4>2 DEF Fits, Stands
        <3>5. \A k \in 1..(i - 1) : Apart(t[k], s[i])
            BY <1>4, <3>1, <3>2 DEF Fits
        <3> QED BY <3>1, <3>2, <3>3, <3>4, <3>5 DEF Fits
    <2> QED BY <2>1, <2>2
<1> QED BY <1>5, <1>6 DEF Built

(* A construct that is changed where it stands, in nothing that its scope   *)
(* depends on.                                                               *)
Same(f, g) ==
    /\ g.kind = f.kind
    /\ f.kind = "query" =>
         g.how = f.how /\ g.refs = f.refs /\ g.withs = f.withs /\ g.own = f.own
    /\ f.kind = "join" =>
         /\ g.phase = f.phase
         /\ g.refs = f.refs /\ g.withs = f.withs /\ g.lhs = f.lhs /\ g.rhs = f.rhs
    /\ f.kind = "setop" => g.level = f.level

LEMMA Changed ==
    ASSUME NEW s, NEW u, Built(s, u), NEW t, NEW v \in [AliasPrefixes -> Nat],
           NEW n \in 1..Len(s), NEW g \in Frames, WellBuilt(g), Same(s[n], g),
           \A p \in AliasPrefixes : u[p] <= v[p],
           t = Append(SubSeq(s, 1, n - 1), g)
    PROVE  Built(t, v)
<1> DEFINE f == s[n]
<1>1. Fits(s, u, n - 1, f) /\ f \in Frames
    BY DEF Built, Fits
<1>2. n - 1 \in 0..Len(s)
    BY DEF Built
<1> HIDE DEF f
<1>3. f.kind \in {"query", "join", "setop", "with"}
    BY <1>1, KindOf
<1>4. /\ Held(g) = Held(f) /\ Added(g) = Added(f) /\ (Inherits(g) <=> Inherits(f))
      /\ HasScope(g) <=> HasScope(f)
      /\ HasScope(f) => g.refs = f.refs /\ g.withs = f.withs
    <2>1. Same(f, g)
        BY DEF f
    <2> QED BY <1>3, <2>1 DEF Same, Held, Added, Inherits, HasScope
<1>5. Distinct(g)
    <2>1. Same(f, g)
        BY DEF f
    <2> QED BY <1>1, <1>4, <2>1 DEF Fits, Distinct, Same
<1>6. Stands(s, n - 1, g)
    <2>1. Same(f, g)
        BY DEF f
    <2>2. Root(f) => Root(g)
        BY <1>3, <2>1 DEF Same, Root
    <2>3. Linked(s[n - 1], f) => Linked(s[n - 1], g)
        BY <1>3, <2>1 DEF Same, Linked
    <2>4. InScope(s[n - 1], f) => InScope(s[n - 1], g)
        BY <1>3, <1>4, <2>1 DEF Same, InScope, HasScope
    <2> QED BY <1>1, <2>2, <2>3, <2>4 DEF Fits, Stands
<1>7. Old(f, v)
    BY <1>1, StaysOld DEF Fits, Built
<1>8. Old(g, v)
    BY <1>4, <1>7 DEF Old
<1>9. \A i \in 1..(n - 1) : Apart(s[i], g)
    BY <1>1, <1>4 DEF Fits, Apart
<1>10. Fits(s, v, n - 1, g)
    BY <1>5, <1>6, <1>8, <1>9 DEF Fits
<1> QED BY <1>2, <1>10, Onto

-----------------------------------------------------------------------------
LEMMA Regroups ==
    \A a, b, c \in Seq(Aliases) : (a \o b) \o c = a \o (b \o c)
BY ConcatAssociative

(* A table reference with the aliases y is complete.                        *)
Takes(f) == WantsTableRef(f) \/ (f.kind = "query" /\ f.phase = "more")

LEMMA ReceivedFrame ==
    ASSUME NEW f \in Frames, WellBuilt(f), Distinct(f), Takes(f),
           NEW y \in Seq(Aliases), NEW seen \in Seq(Aliases), NoTwice(f.refs \o y),
           f.kind = "join" => ToSet(f.lhs) \cap ToSet(y) = {}
    PROVE  LET g == Received(f, y, seen)
           IN  /\ g \in Frames /\ WellBuilt(g) /\ Distinct(g)
               /\ g.kind = f.kind /\ g.withs = f.withs /\ (f.kind = "query" => g.how = f.how)
               /\ ToSet(Held(g)) = ToSet(Held(f)) \cup ToSet(y)
               /\ \E x \in Seq(Aliases) :
                      /\ Added(g) = Added(f) \o x /\ g.refs = f.refs \o x
                      /\ ToSet(x) \subseteq ToSet(Held(g))
<1> DEFINE g == Received(f, y, seen)
<1>1. CASE f.kind = "query"
    <2>1. f \in QueryFrames /\ f.own \in Seq(Aliases) /\ f.refs \in Seq(Aliases)
        BY <1>1, KindOf, AliasesOf DEF HasScope
    <2>2. f.seen \in Seq(Aliases) /\ f.phase \in {"from", "more"}
        BY <1>1, <2>1 DEF QueryFrames, Takes, WantsTableRef
    <2>3. /\ f.own \o y \in Seq(Aliases) /\ f.refs \o y \in Seq(Aliases)
          /\ f.seen \o seen \in Seq(Aliases)
          /\ ToSet(f.own \o y) = ToSet(f.own) \cup ToSet(y)
        BY <2>1, <2>2, ToSetConcat
    <2>4. g = [f EXCEPT !.own = f.own \o y, !.refs = f.refs \o y, !.seen = f.seen \o seen,
                        !.phase = "more"]
        BY <1>1 DEF Received
    <2> HIDE DEF g
    <2>5. g \in QueryFrames
        BY <2>1, <2>3, <2>4 DEF QueryFrames
    <2>6. /\ g.kind = "query" /\ g.how = f.how /\ g.withs = f.withs /\ g.phase = "more"
          /\ g.own = f.own \o y /\ g.refs = f.refs \o y
        BY <1>1, <2>1, <2>4 DEF QueryFrames
    <2>8. WellBuilt(g)
        BY <2>6 DEF WellBuilt
    <2>9. Distinct(g)
        BY <2>6 DEF Distinct
    <2>10. /\ Held(g) = f.own \o y /\ Held(f) = f.own
           /\ Added(g) = f.own \o y /\ Added(f) = f.own
        BY <1>1, <2>6 DEF Held, Added
    <2>11. g \in Frames
        BY <2>5 DEF Frames
    <2>12. /\ Added(g) = Added(f) \o y /\ g.refs = f.refs \o y
           /\ ToSet(y) \subseteq ToSet(Held(g))
           /\ ToSet(Held(g)) = ToSet(Held(f)) \cup ToSet(y)
        BY <2>3, <2>6, <2>10
    <2> QED BY <1>1, <2>6, <2>8, <2>9, <2>11, <2>12 DEF g
<1>2. CASE f.kind = "join"
    <2>1. /\ f \in JoinFrames /\ f.lhs \in Seq(Aliases) /\ f.rhs \in Seq(Aliases)
          /\ f.refs \in Seq(Aliases)
        BY <1>2, KindOf, AliasesOf DEF HasScope
    <2>2. f.seen \in Seq(Aliases) /\ f.phase \in {"lhs", "rhs"} /\ f.rhs = <<>>
        BY <1>2, <2>1 DEF JoinFrames, Takes, WantsTableRef, WellBuilt
    <2>3. f.seen \o seen \in Seq(Aliases) /\ <<>> \in Seq(Aliases) /\ ToSet(<<>>) = {}
        BY <2>2, ToSetConcat DEF ToSet
    <2>4. Added(f) = <<>> /\ Held(f) = f.lhs \o <<>> /\ f.lhs \o <<>> = f.lhs
        BY <1>2, <2>1, <2>2, ConcatEmptySeq DEF Added, Held
    <2>5. CASE f.phase = "lhs"
        <3>1. g = [f EXCEPT !.lhs = y, !.seen = f.seen \o seen, !.phase = "rhs"]
            BY <1>2, <2>5 DEF Received
        <3> HIDE DEF g
        <3>2. g \in JoinFrames
            BY <2>1, <2>3, <3>1 DEF JoinFrames
        <3>3. /\ g.kind = "join" /\ g.withs = f.withs /\ g.phase = "rhs" /\ g.refs = f.refs
              /\ g.lhs = y /\ g.rhs = <<>>
            BY <1>2, <2>1, <2>2, <3>1 DEF JoinFrames
        <3>4. WellBuilt(g)
            BY <3>3 DEF WellBuilt
        <3>5. Distinct(g)
            <4>1. NoTwice(f.refs)
                BY <1>2 DEF Distinct, HasScope
            <4> QED BY <3>3, <4>1 DEF Distinct
        <3>6. Held(g) = y \o <<>> /\ y \o <<>> = y /\ Added(g) = <<>> /\ f.lhs = <<>>
            BY <1>2, <2>5, <3>3, ConcatEmptySeq DEF Held, Added, WellBuilt
        <3>7. ToSet(Held(g)) = ToSet(Held(f)) \cup ToSet(y)
            BY <2>3, <2>4, <3>6
        <3>8. Added(g) = Added(f) \o <<>> /\ g.refs = f.refs \o <<>>
            BY <2>1, <2>3, <2>4, <3>3, <3>6, ConcatEmptySeq
        <3>9. g \in Frames
            BY <3>2 DEF Frames
        <3> QED BY <1>2, <2>3, <3>3, <3>4, <3>5, <3>7, <3>8, <3>9 DEF g
    <2>6. CASE f.phase = "rhs"
        <3> DEFINE x == f.lhs \o y
        <3>1. g = [f EXCEPT !.rhs = y, !.seen = f.seen \o seen, !.phase = "on",
                            !.refs = (f.refs \o f.lhs) \o y]
            BY <1>2, <2>6 DEF Received
        <3>2. x \in Seq(Aliases) /\ ToSet(x) = ToSet(f.lhs) \cup ToSet(y)
            BY <2>1, ToSetConcat
        <3>3. (f.refs \o f.lhs) \o y = f.refs \o x /\ f.refs \o x \in Seq(Aliases)
            <4>1. (f.refs \o f.lhs) \o y = f.refs \o (f.lhs \o y)
                BY <2>1, Regroups, ZenonT(40)
            <4>2. \A z \in Seq(Aliases) : f.refs \o z \in Seq(Aliases)
                BY <2>1, ToSetConcat
            <4> QED BY <2>1, <3>2, <4>1, <4>2
        <3>4. NoTwice(f.refs \o x)
            <4>1. f.refs \o f.lhs \in Seq(Aliases)
                    /\ ToSet(f.refs \o f.lhs) = ToSet(f.refs) \cup ToSet(f.lhs)
                BY <2>1, ToSetConcat
            <4>2. NoTwice(f.refs \o f.lhs)
                BY <1>2, <2>6 DEF Distinct
            <4>3. NoTwice(y) /\ ToSet(f.refs) \cap ToSet(y) = {}
                BY <2>1, NoTwiceConcat
            <4>4. ToSet(f.refs \o f.lhs) \cap ToSet(y) = {}
                BY <1>2, <4>1, <4>3
            <4>5. NoTwice((f.refs \o f.lhs) \o y)
                BY <4>1, <4>2, <4>3, <4>4, NoTwiceConcat
            <4> QED BY <3>3, <4>5
        <3> HIDE DEF g
        <3>5. g = [f EXCEPT !.rhs = y, !.seen = f.seen \o seen, !.phase = "on",
                            !.refs = f.refs \o x]
            BY <3>1, <3>3
        <3> HIDE DEF x
        <3>6. g \in JoinFrames
            BY <2>1, <2>3, <3>3, <3>5 DEF JoinFrames
        <3>7. /\ g.kind = "join" /\ g.withs = f.withs /\ g.phase = "on" /\ g.refs = f.refs \o x
              /\ g.lhs = f.lhs /\ g.rhs = y
            BY <1>2, <2>1, <3>5 DEF JoinFrames
        <3>8. WellBuilt(g)
            BY <3>7 DEF WellBuilt
        <3>9. Distinct(g)
            BY <3>4, <3>7 DEF Distinct
        <3>10. Held(g) = x /\ Added(g) = x
            BY <3>7 DEF Held, Added, x
        <3>11. ToSet(Held(g)) = ToSet(Held(f)) \cup ToSet(y)
            BY <2>4, <3>2, <3>10
        <3>12. Added(g) = Added(f) \o x
            BY <2>4, <3>2, <3>10, ConcatEmptySeq
        <3>13. g \in Frames
            BY <3>6 DEF Frames
        <3> QED BY <1>2, <3>2, <3>7, <3>8, <3>9, <3>10, <3>11, <3>12, <3>13 DEF g
    <2> QED BY <2>2, <2>5, <2>6
<1> QED BY <1>1, <1>2 DEF Takes, WantsTableRef

LEMMA ReceivedStep ==
    ASSUME NEW s, NEW u, Built(s, u), NEW t, NEW v \in [AliasPrefixes -> Nat],
           NEW n \in 1..Len(s), Takes(s[n]),
           NEW y \in Seq(Aliases), NEW seen \in Seq(Aliases), NoTwice(s[n].refs \o y),
           s[n].kind = "join" => ToSet(s[n].lhs) \cap ToSet(y) = {},
           \A i \in 1..(n - 1) : ToSet(Held(s[i])) \cap ToSet(y) = {},
           \A p \in AliasPrefixes : u[p] <= v[p],
           Counts(ToSet(y), v),
           t = Append(SubSeq(s, 1, n - 1), Received(s[n], y, seen))
    PROVE  Built(t, v)
<1> DEFINE f == s[n]
           g == Received(f, y, seen)
<1>1. Fits(s, u, n - 1, f) /\ f \in Frames /\ WellBuilt(f) /\ Distinct(f)
    BY DEF Built, Fits
<1>2. n - 1 \in 0..Len(s) /\ n - 1 \in Nat /\ (n - 1 # 0 => n - 1 \in 1..Len(s))
    BY DEF Built
<1>3. f.kind \in {"query", "join"} /\ HasScope(f)
    BY DEF Takes, WantsTableRef, HasScope
<1> HIDE DEF f
<1>4. /\ Takes(f) /\ NoTwice(f.refs \o y)
      /\ f.kind = "join" => ToSet(f.lhs) \cap ToSet(y) = {}
    BY DEF f
<1>5. /\ g \in Frames /\ WellBuilt(g) /\ Distinct(g)
      /\ g.kind = f.kind /\ g.withs = f.withs /\ (f.kind = "query" => g.how = f.how)
      /\ ToSet(Held(g)) = ToSet(Held(f)) \cup ToSet(y)
      /\ \E x \in Seq(Aliases) :
             /\ Added(g) = Added(f) \o x /\ g.refs = f.refs \o x
             /\ ToSet(x) \subseteq ToSet(Held(g))
    BY <1>1, <1>4, ReceivedFrame
<1> HIDE DEF g
<1>6. PICK x \in Seq(Aliases) :
          /\ Added(g) = Added(f) \o x /\ g.refs = f.refs \o x
          /\ ToSet(x) \subseteq ToSet(Held(g))
    BY <1>5
<1>7. (Inherits(g) <=> Inherits(f)) /\ HasScope(g)
    BY <1>3, <1>5 DEF Inherits, HasScope
<1>8. Old(g, v)
    <2>1. ToSet(g.refs) = ToSet(f.refs) \cup ToSet(x)
        <3>1. f.refs \in Seq(Aliases)
            BY <1>1, <1>3, AliasesOf
        <3> QED BY <1>6, <3>1, ToSetConcat
    <2>2. Old(f, v)
        BY <1>1, StaysOld DEF Fits, Built
    <2>3. Counts(ToSet(f.refs) \cup ToSet(Held(f)), v)
        BY <1>3, <2>2 DEF Old
    <2>4. ToSet(g.refs) \cup ToSet(Held(g)) \subseteq ToSet(f.refs) \cup ToSet(Held(f)) \cup ToSet(y)
        BY <1>5, <1>6, <2>1
    <2> QED BY <2>3, <2>4 DEF Old, Counts
<1>9. Stands(s, n - 1, g)
    <2>1. Root(f) => Root(g)
        BY <1>3, <1>5 DEF Root
    <2>2. Linked(s[n - 1], f) => Linked(s[n - 1], g)
        BY <1>3, <1>5 DEF Linked
    <2>3. InScope(s[n - 1], g)
        <3> DEFINE b == IF Inherits(f) THEN s[n - 1].refs ELSE <<>>
        <3>1. f.refs = b \o Added(f)
            BY <1>1, <1>3 DEF Fits, Stands, InScope
        <3>2. b \in Seq(Aliases)
            <4>1. CASE Inherits(f)
                <5>1. n - 1 # 0
                    BY <1>1, <4>1 DEF Fits, Stands, Root, Inherits
                <5>2. HasScope(s[n - 1])
                    BY <1>1, <4>1, <5>1
                    DEF Fits, Stands, Linked, Inherits, WantsTableRef, HasScope
                <5>3. s[n - 1] \in Frames
                    BY <1>2, <5>1 DEF Built
                <5> QED BY <4>1, <5>2, <5>3, AliasesOf
            <4>2. CASE ~Inherits(f)
                BY <4>2
            <4> QED BY <4>1, <4>2
        <3>3. Added(f) \in Seq(Aliases)
            BY <1>1, AliasesOf
        <3> HIDE DEF b
        <3>4. g.refs = b \o Added(g)
            <4>1. (b \o Added(f)) \o x = b \o (Added(f) \o x)
                BY <3>2, <3>3, Regroups, ZenonT(40)
            <4> QED BY <1>6, <3>1, <4>1
        <3>5. g.withs = f.withs /\ g.kind = f.kind /\ (f.kind = "query" => g.how = f.how)
            BY <1>5
        <3>6. g.refs = (IF Inherits(g) THEN s[n - 1].refs ELSE <<>>) \o Added(g)
            BY <1>7, <3>4 DEF b
        <3>7. f.withs = IF Inherits(f) THEN s[n - 1].withs
                        ELSE IF f.kind = "query" /\ f.how = "main"
                             THEN ToSet(s[n - 1].names) ELSE {}
            BY <1>1, <1>3 DEF Fits, Stands, InScope
        <3>8. g.withs = IF Inherits(g) THEN s[n - 1].withs
                        ELSE IF g.kind = "query" /\ g.how = "main"
                             THEN ToSet(s[n - 1].names) ELSE {}
            BY <1>7, <3>5, <3>7
        <3> QED BY <3>6, <3>8 DEF InScope
    <2> QED BY <1>1, <2>1, <2>2, <2>3 DEF Fits, Stands
<1>10. \A i \in 1..(n - 1) : Apart(s[i], g)
    <2>1. \A i \in 1..(n - 1) : Apart(s[i], f)
        BY <1>1 DEF Fits
    <2> QED BY <1>5, <2>1 DEF Apart
<1>11. Fits(s, v, n - 1, g)
    BY <1>5, <1>8, <1>9, <1>10 DEF Fits
<1>12. t = Append(SubSeq(s, 1, n - 1), g)
    BY DEF f, g
<1> QED BY <1>2, <1>11, <1>12, Onto

-----------------------------------------------------------------------------
(* The stack seen from its top. *)
LEMMA FrontOf ==
    ASSUME NEW s \in Seq(Frames), s # <<>>
    PROVE  /\ Front(s) \in Seq(Frames)
           /\ Len(Front(s)) = Len(s) - 1
           /\ \A i \in 1..(Len(s) - 1) : Front(s)[i] = s[i]
BY DEF Front

LEMMA Tops ==
    ASSUME IInv, stack # <<>>
    PROVE  /\ Len(stack) \in Nat \ {0} /\ Len(stack) \in 1..Len(stack)
           /\ top \in Frames /\ Fits(stack, uid, Len(stack) - 1, top)
           /\ under = SubSeq(stack, 1, Len(stack) - 1)
           /\ ~Root(top) =>
                /\ Len(stack) - 1 \in 1..Len(stack) /\ outer = stack[Len(stack) - 1]
                /\ outer \in Frames /\ Fits(stack, uid, Len(stack) - 2, outer)
                /\ Linked(outer, top) /\ InScope(outer, top) /\ Apart(outer, top)
                /\ Front(under) = SubSeq(stack, 1, Len(stack) - 1 - 1)
<1>1. stack \in Seq(Frames)
    BY DEF IInv, Built
<1>2. Len(stack) \in Nat \ {0} /\ Len(stack) \in 1..Len(stack)
    BY <1>1, EmptySeq
<1>3. top \in Frames /\ Fits(stack, uid, Len(stack) - 1, top)
    BY <1>1, <1>2 DEF IInv, Built, top
<1>4. under = SubSeq(stack, 1, Len(stack) - 1)
    BY DEF under, Front
<1>5. ASSUME ~Root(top)
      PROVE  /\ Len(stack) - 1 \in 1..Len(stack) /\ outer = stack[Len(stack) - 1]
             /\ outer \in Frames /\ Fits(stack, uid, Len(stack) - 2, outer)
             /\ Linked(outer, top) /\ InScope(outer, top) /\ Apart(outer, top)
             /\ Front(under) = SubSeq(stack, 1, Len(stack) - 1 - 1)
    <2>1. Len(stack) - 1 # 0
        BY <1>3, <1>5 DEF Fits, Stands
    <2>2. Len(stack) - 1 \in 1..Len(stack) /\ Len(stack) - 1 \in 1..(Len(stack) - 1)
        <3>1. \A m \in Nat \ {0} : m - 1 # 0 => m - 1 \in 1..m /\ m - 1 \in 1..(m - 1)
            OBVIOUS
        <3> QED BY <1>2, <2>1, <3>1, Zenon
    <2>3. /\ Len(under) = Len(stack) - 1
          /\ \A i \in 1..(Len(stack) - 1) : under[i] = stack[i]
        BY <1>1, FrontOf DEF under
    <2>4. outer = stack[Len(stack) - 1]
        BY <2>2, <2>3 DEF outer
    <2>5. stack[Len(stack) - 1] \in Frames
        BY <1>1, <2>2
    <2>6. Fits(stack, uid, Len(stack) - 1 - 1, stack[Len(stack) - 1])
        BY <2>2 DEF IInv, Built
    <2>7. Len(stack) - 1 - 1 = Len(stack) - 2
        BY <1>2
    <2>8. /\ Linked(stack[Len(stack) - 1], top) /\ InScope(stack[Len(stack) - 1], top)
          /\ Apart(stack[Len(stack) - 1], top)
        BY <1>3, <2>1, <2>2 DEF Fits, Stands
    <2>9. Front(under) = SubSeq(stack, 1, Len(stack) - 1 - 1)
        <3>1. Front(under) = SubSeq(under, 1, Len(stack) - 1 - 1)
            BY <2>3 DEF Front
        <3>2. SubSeq(under, 1, Len(stack) - 1 - 1) = SubSeq(stack, 1, Len(stack) - 1 - 1)
            BY <1>1, <1>2, <1>4, <2>2, <2>3
        <3> QED BY <3>1, <3>2
    <2> QED BY <2>2, <2>4, <2>5, <2>6, <2>7, <2>8, <2>9
<1> QED BY <1>2, <1>3, <1>4, <1>5

(* A construct put on top of the stack. *)
LEMMA Pushed ==
    ASSUME NEW s, NEW u, Built(s, u), Len(s) # 0, NEW t, NEW f \in Frames, WellBuilt(f),
           Held(f) = <<>>, f.kind = "join" => f.phase # "rhs",
           Linked(s[Len(s)], f),
           HasScope(f) => f.refs = IF Inherits(f) THEN s[Len(s)].refs ELSE <<>>,
           HasScope(f) => f.withs = IF Inherits(f) THEN s[Len(s)].withs
                                    ELSE IF f.kind = "query" /\ f.how = "main"
                                         THEN ToSet(s[Len(s)].names) ELSE {},
           t = Append(s, f)
    PROVE  Built(t, u)
<1> DEFINE p == s[Len(s)]
<1>1. s \in Seq(Frames) /\ Len(s) \in Nat \ {0} /\ Len(s) \in 0..Len(s)
    BY DEF Built
<1>2. p \in Frames /\ Fits(s, u, Len(s) - 1, p)
    BY <1>1 DEF Built
<1>3. Inherits(f) => HasScope(p) /\ HasScope(f)
    <2>1. Linked(p, f)
        OBVIOUS
    <2> HIDE DEF p
    <2> QED BY <2>1 DEF Linked, Inherits, WantsTableRef, HasScope
<1>4. Added(f) = <<>>
    BY DEF Added
<1>5. HasScope(f) => f.refs \in Seq(Aliases) /\ NoTwice(f.refs)
    <2>1. NoTwice(<<>>)
        BY DEF NoTwice
    <2>2. HasScope(f) => f.refs \in Seq(Aliases)
        BY AliasesOf
    <2>3. Inherits(f) => NoTwice(p.refs)
        BY <1>2, <1>3 DEF Fits, Distinct
    <2> QED BY <2>1, <2>2, <2>3
<1>6. Distinct(f)
    BY <1>5 DEF Distinct
<1>7. Old(f, u)
    <2>1. ToSet(<<>>) = {}
        BY DEF ToSet
    <2>2. Inherits(f) => Counts(ToSet(p.refs), u)
        BY <1>2, <1>3 DEF Fits, Old, Counts
    <2> QED BY <2>1, <2>2 DEF Old, Counts
<1>8. InScope(p, f)
    <2>1. HasScope(f) => f.refs = (IF Inherits(f) THEN p.refs ELSE <<>>) \o Added(f)
        BY <1>4, <1>5, ConcatEmptySeq
    <2> QED BY <2>1 DEF InScope
<1>9. \A i \in 1..Len(s) : Apart(s[i], f)
    <2>1. ToSet(<<>>) = {}
        BY DEF ToSet
    <2> QED BY <2>1 DEF Apart
<1>10. Fits(s, u, Len(s), f)
    BY <1>1, <1>6, <1>7, <1>8, <1>9 DEF Fits, Stands
<1>11. t = Append(SubSeq(s, 1, Len(s)), f)
    BY <1>1
<1>12. u \in [AliasPrefixes -> Nat] /\ \A q \in AliasPrefixes : u[q] <= u[q]
    BY DEF Built
<1> QED BY <1>1, <1>10, <1>11, <1>12, Onto

(* The lower part of a stack, and the first construct of a statement.       *)
LEMMA Dropped ==
    ASSUME NEW s, NEW u, Built(s, u), NEW n \in 0..Len(s)
    PROVE  Built(SubSeq(s, 1, n), u)
<1> DEFINE t == SubSeq(s, 1, n)
<1>1. s \in Seq(Frames) /\ Len(s) \in Nat /\ n \in Nat /\ n <= Len(s)
    BY DEF Built
<1>2. t \in Seq(Frames) /\ Len(t) = n /\ \A i \in 1..n : t[i] = s[i]
    BY <1>1
<1> HIDE DEF t
<1>3. ASSUME NEW i \in 1..n PROVE Fits(t, u, i - 1, t[i])
    <2>1. i \in 1..Len(s) /\ t[i] = s[i] /\ i - 1 \in 0..n
        BY <1>1, <1>2
    <2>2. Fits(s, u, i - 1, s[i])
        BY <2>1 DEF Built
    <2>3. i - 1 # 0 => t[i - 1] = s[i - 1]
        BY <1>2, <2>1
    <2>4. Stands(t, i - 1, s[i])
        <3>1. CASE i - 1 = 0
            <4>1. Root(s[i]) /\ ~Inherits(s[i])
                BY <2>2, <3>1 DEF Fits, Stands, Root, Inherits
            <4> QED BY <2>2, <3>1, <4>1 DEF Fits, Stands, InScope, Root
        <3> QED BY <2>2, <2>3, <3>1 DEF Fits, Stands
    <2>5. \A k \in 1..(i - 1) : Apart(t[k], s[i])
        BY <1>1, <1>2, <2>1, <2>2 DEF Fits
    <2> QED BY <2>1, <2>2, <2>4, <2>5 DEF Fits
<1>4. u \in [AliasPrefixes -> Nat]
    BY DEF Built
<1> QED BY <1>2, <1>3, <1>4 DEF Built, t

LEMMA First ==
    ASSUME NEW u \in [AliasPrefixes -> Nat], NEW f \in Frames, WellBuilt(f), Root(f),
           Held(f) = <<>>, HasScope(f) => f.refs = <<>> /\ f.withs = {}
    PROVE  Built(<<f>>, u)
<1> DEFINE s == <<>>
<1>1. Built(s, u)
    BY DEF Built
<1>2. ToSet(<<>>) = {} /\ NoTwice(<<>>) /\ <<>> \o <<>> = <<>>
    BY DEF ToSet, NoTwice
<1>3. f.kind # "join" /\ ~Inherits(f) /\ (f.kind = "query" => f.how # "main")
    BY DEF Root, Inherits
<1>4. Added(f) = <<>>
    BY DEF Added
<1>5. InScope(s[0], f)
    BY <1>2, <1>3, <1>4 DEF InScope
<1>6. Old(f, u) /\ Distinct(f)
    BY <1>2, <1>3 DEF Old, Counts, Distinct
<1>7. Fits(s, u, 0, f)
    BY <1>5, <1>6 DEF Fits, Stands
<1>8. 0 \in 0..Len(s) /\ <<f>> = Append(SubSeq(s, 1, 0), f)
    OBVIOUS
<1>9. \A p \in AliasPrefixes : u[p] <= u[p]
    OBVIOUS
<1> QED BY <1>1, <1>7, <1>8, <1>9, Onto

-----------------------------------------------------------------------------
(* What the constructs are when they begin. *)
LEMMA QueryBegins ==
    ASSUME NEW how \in Hows, NEW refs \in Seq(Aliases), NEW withs \in SUBSET Aliases
    PROVE  LET q == Query(how, refs, withs)
           IN  /\ q \in Frames /\ WellBuilt(q) /\ Held(q) = <<>> /\ HasScope(q)
               /\ q.kind = "query" /\ q.how = how /\ q.refs = refs /\ q.withs = withs
<1> DEFINE q == Query(how, refs, withs)
<1>1. <<>> \in Seq(Aliases) /\ <<>> \in Seq(Columns) /\ <<>> \in Seq(GroupNames)
    OBVIOUS
<1>2. q \in QueryFrames
    BY <1>1 DEF Query, Copied, QueryFrames
<1>3. /\ q.kind = "query" /\ q.how = how /\ q.refs = refs /\ q.withs = withs
      /\ q.phase = "from" /\ q.own = <<>>
    BY DEF Query, Copied
<1> HIDE DEF q
<1>4. WellBuilt(q) /\ Held(q) = <<>> /\ HasScope(q)
    BY <1>3 DEF WellBuilt, Held, HasScope
<1> QED BY <1>2, <1>3, <1>4 DEF Frames, q

LEMMA BareQueryBegins ==
    ASSUME NEW how \in Hows, NEW names \in SUBSET Aliases
    PROVE  LET q == Query(how, <<>>, names)
           IN  /\ q \in Frames /\ WellBuilt(q) /\ Held(q) = <<>> /\ HasScope(q)
               /\ q.kind = "query" /\ q.how = how /\ q.refs = <<>> /\ q.withs = names
<1>1. PICK r \in Seq(Aliases) : r = <<>>
    <2>1. <<>> \in Seq(Aliases)
        OBVIOUS
    <2> QED BY <2>1, Zenon
<1>2. LET q == Query(how, r, names)
      IN  /\ q \in Frames /\ WellBuilt(q) /\ Held(q) = <<>> /\ HasScope(q)
          /\ q.kind = "query" /\ q.how = how /\ q.refs = r /\ q.withs = names
    BY QueryBegins
<1> QED BY <1>1, <1>2

LEMMA JoinBegins ==
    ASSUME NEW refs \in Seq(Aliases), NEW withs \in SUBSET Aliases
    PROVE  LET j == Join(refs, withs)
           IN  /\ j \in Frames /\ WellBuilt(j) /\ Held(j) = <<>> /\ HasScope(j)
               /\ j.kind = "join" /\ j.phase = "lhs" /\ j.refs = refs /\ j.withs = withs
<1> DEFINE j == Join(refs, withs)
<1>1. <<>> \in Seq(Aliases) /\ <<>> \o <<>> = <<>>
    OBVIOUS
<1>2. j \in JoinFrames
    BY <1>1 DEF Join, JoinFrames
<1>3. /\ j.kind = "join" /\ j.refs = refs /\ j.withs = withs
      /\ j.phase = "lhs" /\ j.lhs = <<>> /\ j.rhs = <<>>
    BY DEF Join
<1> HIDE DEF j
<1>4. WellBuilt(j) /\ Held(j) = <<>> /\ HasScope(j)
    BY <1>1, <1>3 DEF WellBuilt, Held, HasScope
<1> QED BY <1>2, <1>3, <1>4 DEF Frames, j

LEMMA SetOperationBegins ==
    ASSUME NEW level \in 0..2
    PROVE  LET o == SetOperation(level)
           IN  /\ o \in Frames /\ WellBuilt(o) /\ Held(o) = <<>> /\ ~HasScope(o)
               /\ o.kind = "setop" /\ o.level = level
<1> DEFINE o == SetOperation(level)
<1>1. <<>> \in Seq(Types) /\ {} \in SUBSET Seq(Types) /\ 0 \in 0..(AttemptLimit + 1)
    BY ScopeAssumption
<1>2. o \in SetOpFrames
    BY <1>1 DEF SetOperation, SetOpFrames
<1>3. o.kind = "setop" /\ o.level = level /\ o.phase = "left"
    BY DEF SetOperation
<1> HIDE DEF o
<1>4. WellBuilt(o) /\ Held(o) = <<>> /\ ~HasScope(o)
    BY <1>3 DEF WellBuilt, Held, HasScope
<1> QED BY <1>2, <1>3, <1>4 DEF Frames, o

LEMMA WithBegins ==
    With \in Frames /\ WellBuilt(With) /\ Held(With) = <<>> /\ ~HasScope(With)
      /\ With.kind = "with"
<1>1. With \in WithFrames
    BY DEF With, WithFrames
<1>2. With.kind = "with"
    BY DEF With
<1>3. WellBuilt(With) /\ Held(With) = <<>> /\ ~HasScope(With)
    BY <1>2 DEF WellBuilt, Held, HasScope
<1> QED BY <1>1, <1>2, <1>3 DEF Frames

-----------------------------------------------------------------------------
(* Columns, and what is derived from them. *)
LEMMA ColumnParts ==
    ASSUME NEW items \in Seq(Columns)
    PROVE  /\ \A i \in 1..Len(items) :
                 /\ items[i] \in Columns
                 /\ items[i].type \in Types /\ items[i].whole \in BOOLEAN
                 /\ items[i].whole => items[i].keys # <<>>
                 /\ items[i].keys \in Seq(Aliases) /\ items[i].inner \in Seq(Aliases)
                 /\ items[i].keys \o items[i].inner \in Seq(Aliases)
           /\ Len(items) \in Nat
<1>1. \A c \in Columns :
          /\ c.type \in Types /\ c.whole \in BOOLEAN /\ (c.whole => c.keys # <<>>)
          /\ c.keys \in Seq(Aliases) /\ c.inner \in Seq(Aliases)
    BY DEF Columns
<1>2. \A r, z \in Seq(Aliases) : r \o z \in Seq(Aliases)
    OBVIOUS
<1> QED BY <1>1, <1>2

LEMMA SeenTyped ==
    ASSUME NEW q \in QueryFrames
    PROVE  SeenIn(q) \in Seq(Aliases) /\ ColumnsOf(q) \in Seq(Types)
<1>1. q.items \in Seq(Columns) /\ q.seen \in Seq(Aliases)
    BY DEF QueryFrames
<1> DEFINE k == [i \in 1..Len(q.items) |-> q.items[i].keys \o q.items[i].inner]
<1>2. k \in Seq(Seq(Aliases))
    BY <1>1, ColumnParts
<1>3. FlattenSeq(k) \in Seq(Aliases)
    BY <1>2, FlattenProperties
<1>4. ColumnsOf(q) \in Seq(Types)
    BY <1>1, ColumnParts DEF ColumnsOf
<1> HIDE DEF k
<1>5. FlattenSeq(k) \o q.seen \in Seq(Aliases)
    BY <1>1, <1>3, ToSetConcat
<1> QED BY <1>4, <1>5 DEF SeenIn, k

(* The names a query is grouped by. *)
LEMMA GroupTyped ==
    ASSUME NEW items \in Seq(Columns)
    PROVE  GroupedBy(items) \in Seq(GroupNames)
<1> DEFINE found(i) == items[i].keys \o items[i].inner
           of(i) == IF items[i].whole THEN items[i].keys
                    ELSE IF found(i) # <<>> THEN found(i)
                    ELSE <<<<"c", i>>>>
           g == [i \in 1..Len(items) |-> of(i)]
<1>1. Len(items) \in Nat
    BY ColumnParts
<1>2. ASSUME NEW i \in 1..Len(items) PROVE of(i) \in Seq(GroupNames)
    <2>1. items[i].keys \in Seq(Aliases) /\ found(i) \in Seq(Aliases)
        BY ColumnParts
    <2>2. Aliases \subseteq GroupNames
        BY DEF Aliases, GroupNames
    <2>3. \A z \in Seq(Aliases) : z \in Seq(GroupNames)
        BY <2>2
    <2>4. <<"c", i>> \in GroupNames
        BY <1>1 DEF GroupNames
    <2>5. <<<<"c", i>>>> \in Seq(GroupNames)
        BY <2>4
    <2> HIDE DEF found
    <2> QED BY <2>1, <2>3, <2>5
<1>3. FlattenSeq(g) = GroupedBy(items)
    BY Zenon DEF GroupedBy, g, of, found
<1> HIDE DEF of
<1>4. g \in Seq(Seq(GroupNames))
    BY <1>1, <1>2
<1> HIDE DEF g
<1> QED BY <1>3, <1>4, FlattenProperties

LEMMA ItemsTyped ==
    ASSUME NEW f, HasScope(f), f.refs \in Seq(Aliases), NEW inner \in Seq(Aliases)
    PROVE  ItemsOver(f, inner) \subseteq Columns
<1>1. ItemTypes(f) \subseteq Types
    <2>1. (CHOOSE t \in Types : TRUE) \in Types
        BY ScopeAssumption
    <2> QED BY <2>1 DEF ItemTypes
<1>2. \A k \in ToSet(f.refs) : k \in Aliases
    BY DEF ToSet
<1>3. <<>> \in Seq(Aliases) /\ \A k \in Aliases : <<k>> \in Seq(Aliases)
    OBVIOUS
<1>4. {<<>>} \cup {<<k>> : k \in ToSet(f.refs)} \subseteq Seq(Aliases)
    BY <1>2, <1>3
<1> QED BY <1>1, <1>4 DEF ItemsOver, Columns

-----------------------------------------------------------------------------
(* The ways a step goes on with the innermost construct or the one around it. *)
Grows == uid' \in [AliasPrefixes -> Nat] /\ \A p \in AliasPrefixes : uid[p] <= uid'[p]

LEMMA Stays ==
    ASSUME IInv, UNCHANGED uid
    PROVE  Grows
BY DEF Grows, IInv, Built

LEMMA OnTop ==
    ASSUME IInv, stack # <<>>, NEW g \in Frames, WellBuilt(g), Same(top, g), Replace(g), Grows
    PROVE  IInv'
<1>1. Len(stack) \in 1..Len(stack) /\ under = SubSeq(stack, 1, Len(stack) - 1)
    BY Tops
<1>2. stack' = Append(SubSeq(stack, 1, Len(stack) - 1), g)
    BY <1>1 DEF Replace
<1>3. Same(stack[Len(stack)], g)
    BY DEF top
<1>4. Built(stack', uid')
    BY <1>1, <1>2, <1>3, Changed DEF IInv, Grows
<1> QED BY <1>4 DEF IInv

LEMMA OnOuter ==
    ASSUME IInv, stack # <<>>, ~Root(top),
           NEW g \in Frames, WellBuilt(g), Same(outer, g), ReturnTo(g), Grows
    PROVE  IInv'
<1>1. /\ Len(stack) - 1 \in 1..Len(stack) /\ outer = stack[Len(stack) - 1]
      /\ Front(under) = SubSeq(stack, 1, Len(stack) - 1 - 1)
    BY Tops
<1>2. stack' = Append(SubSeq(stack, 1, Len(stack) - 1 - 1), g)
    BY <1>1 DEF ReturnTo
<1>3. Built(stack', uid')
    BY <1>1, <1>2, Changed DEF IInv, Grows
<1> QED BY <1>3 DEF IInv

(* The aliases y come into the scope of f, the n-th construct.              *)
Joins(n, f, y) ==
    /\ Takes(f) /\ NoTwice(f.refs \o y)
    /\ f.kind = "join" => ToSet(f.lhs) \cap ToSet(y) = {}
    /\ \A i \in 1..(n - 1) : ToSet(Held(stack[i])) \cap ToSet(y) = {}

LEMMA TakenByTop ==
    ASSUME IInv, stack # <<>>, NEW y \in Seq(Aliases), NEW seen \in Seq(Aliases),
           Joins(Len(stack), top, y), Counts(ToSet(y), uid'),
           Replace(Received(top, y, seen)), Grows
    PROVE  IInv'
<1>1. Len(stack) \in 1..Len(stack) /\ under = SubSeq(stack, 1, Len(stack) - 1)
    BY Tops
<1>2. stack' = Append(SubSeq(stack, 1, Len(stack) - 1), Received(stack[Len(stack)], y, seen))
    BY <1>1 DEF Replace, top
<1>3. Joins(Len(stack), stack[Len(stack)], y)
    BY DEF top
<1>4. Built(stack', uid')
    BY <1>1, <1>2, <1>3, ReceivedStep DEF IInv, Grows, Joins
<1> QED BY <1>4 DEF IInv

LEMMA TakenByOuter ==
    ASSUME IInv, stack # <<>>, ~Root(top), NEW y \in Seq(Aliases), NEW seen \in Seq(Aliases),
           Joins(Len(stack) - 1, outer, y), Counts(ToSet(y), uid'),
           ReturnTo(Received(outer, y, seen)), Grows
    PROVE  IInv'
<1>1. /\ Len(stack) - 1 \in 1..Len(stack) /\ outer = stack[Len(stack) - 1]
      /\ Front(under) = SubSeq(stack, 1, Len(stack) - 1 - 1)
    BY Tops
<1>2. stack' = Append(SubSeq(stack, 1, Len(stack) - 1 - 1),
                      Received(stack[Len(stack) - 1], y, seen))
    BY <1>1 DEF ReturnTo
<1>3. Joins(Len(stack) - 1, stack[Len(stack) - 1], y)
    BY <1>1
<1>4. Built(stack', uid')
    BY <1>1, <1>2, <1>3, ReceivedStep DEF IInv, Grows, Joins
<1> QED BY <1>4 DEF IInv

-----------------------------------------------------------------------------
(* New aliases. *)
LEMMA NameTyped ==
    ASSUME IInv, NEW p \in AliasPrefixes, Named(p)
    PROVE  Grows /\ Uid(p) \in Aliases /\ uid'[p] = uid[p] + 1 /\ uid[p] \in Nat
<1>1. uid \in [AliasPrefixes -> Nat]
    BY DEF IInv, Built
<1>2. uid' = [uid EXCEPT ![p] = uid[p] + 1]
    BY DEF Named, Counted
<1>3. uid[p] \in Nat
    BY <1>1
<1>4. uid' \in [AliasPrefixes -> Nat]
    BY <1>1, <1>2, <1>3
<1>5. \A q \in AliasPrefixes : uid[q] <= uid'[q]
    BY <1>1, <1>2
<1>6. uid'[p] = uid[p] + 1
    BY <1>1, <1>2
<1>7. Uid(p) \in Aliases
    BY <1>3 DEF Uid, Aliases
<1> QED BY <1>3, <1>4, <1>5, <1>6, <1>7 DEF Grows

LEMMA Fresh ==
    ASSUME IInv, NEW p \in AliasPrefixes, Named(p), NEW n \in 1..Len(stack), Takes(stack[n])
    PROVE  /\ <<Uid(p)>> \in Seq(Aliases) /\ Grows
           /\ Joins(n, stack[n], <<Uid(p)>>) /\ Counts(ToSet(<<Uid(p)>>), uid')
<1> DEFINE a == Uid(p)
           f == stack[n]
<1>1. Grows /\ a \in Aliases /\ uid'[p] = uid[p] + 1 /\ uid[p] \in Nat
    BY NameTyped
<1>2. a[1] = p /\ a[2] = uid[p]
    BY DEF Uid
<1>3. <<a>> \in Seq(Aliases) /\ ToSet(<<a>>) = {a} /\ NoTwice(<<a>>)
    BY <1>1 DEF ToSet, NoTwice
<1> HIDE DEF a
<1>4. Counts(ToSet(<<a>>), uid')
    BY <1>1, <1>2, <1>3 DEF Counts
<1>5. ASSUME NEW i \in 1..Len(stack)
      PROVE  /\ a \notin ToSet(Held(stack[i]))
             /\ HasScope(stack[i]) => a \notin ToSet(stack[i].refs)
    <2>1. Old(stack[i], uid) /\ stack[i] \in Frames
        BY DEF IInv, Built, Fits
    <2>2. CASE HasScope(stack[i])
        <3>1. \A b \in ToSet(stack[i].refs) \cup ToSet(Held(stack[i])) : b[2] < uid[b[1]]
            BY <2>1, <2>2 DEF Old, Counts
        <3>2. ~(a[2] < uid[a[1]])
            BY <1>1, <1>2
        <3> QED BY <3>1, <3>2
    <2>3. CASE ~HasScope(stack[i])
        <3>1. Held(stack[i]) = <<>> /\ ToSet(<<>>) = {}
            BY <2>3 DEF HasScope, Held, ToSet
        <3> QED BY <2>3, <3>1
    <2> QED BY <2>2, <2>3
<1>6. Takes(f) /\ HasScope(f) /\ f \in Frames /\ Distinct(f)
    BY DEF Takes, WantsTableRef, HasScope, IInv, Built, Fits
<1>7. NoTwice(f.refs \o <<a>>)
    <2>1. NoTwice(f.refs) /\ f.refs \in Seq(Aliases)
        BY <1>6, AliasesOf DEF Distinct
    <2>2. ToSet(f.refs) \cap ToSet(<<a>>) = {}
        BY <1>3, <1>5, <1>6
    <2> QED BY <1>3, <2>1, <2>2, NoTwiceConcat
<1>8. f.kind = "join" => ToSet(f.lhs) \cap ToSet(<<a>>) = {}
    <2> SUFFICES ASSUME f.kind = "join" PROVE a \notin ToSet(f.lhs)
        BY <1>3
    <2>1. f.lhs \in Seq(Aliases) /\ f.rhs \in Seq(Aliases) /\ Held(f) = f.lhs \o f.rhs
        BY <1>6, AliasesOf DEF Held
    <2>2. ToSet(f.lhs \o f.rhs) = ToSet(f.lhs) \cup ToSet(f.rhs)
        BY <2>1, ToSetConcat
    <2> QED BY <1>5, <2>1, <2>2
<1>9. \A i \in 1..(n - 1) : ToSet(Held(stack[i])) \cap ToSet(<<a>>) = {}
    <2>1. \A i \in 1..(n - 1) : i \in 1..Len(stack)
        BY DEF IInv, Built
    <2> QED BY <1>3, <1>5, <2>1
<1> QED BY <1>1, <1>3, <1>4, <1>6, <1>7, <1>8, <1>9 DEF Joins, a

-----------------------------------------------------------------------------
(* One lemma for each kind of step. *)
LEMMA PushedOn ==
    ASSUME IInv, stack # <<>>, NEW f \in Frames, WellBuilt(f), Held(f) = <<>>,
           f.kind = "join" => f.phase # "rhs", Linked(top, f),
           HasScope(f) => f.refs = IF Inherits(f) THEN top.refs ELSE <<>>,
           HasScope(f) => f.withs = IF Inherits(f) THEN top.withs
                                    ELSE IF f.kind = "query" /\ f.how = "main"
                                         THEN ToSet(top.names) ELSE {},
           Push(f), UNCHANGED uid
    PROVE  IInv'
<1>1. Len(stack) # 0
    BY Tops
<1>2. stack' = Append(stack, f)
    BY DEF Push
<1>3. Built(stack', uid)
    BY <1>1, <1>2, Pushed DEF IInv, top
<1> QED BY <1>3 DEF IInv

LEMMA SubqueryPushed ==
    ASSUME IInv, stack # <<>>, HasScope(top), NEW how \in {"subq", "lateral", "exists"},
           how = "subq" => WantsTableRef(top),
           how = "lateral" => top.kind = "query" /\ top.phase = "more",
           how = "exists" => InExpression(top),
           Push(Query(how, top.refs, top.withs)), UNCHANGED uid
    PROVE  IInv'
<1> DEFINE f == Query(how, top.refs, top.withs)
<1>1. top.refs \in Seq(Aliases) /\ top.withs \in SUBSET Aliases
    BY Tops, AliasesOf
<1>2. how \in Hows
    BY DEF Hows
<1>3. /\ f \in Frames /\ WellBuilt(f) /\ Held(f) = <<>> /\ HasScope(f)
      /\ f.kind = "query" /\ f.how = how /\ f.refs = top.refs /\ f.withs = top.withs
    BY <1>1, <1>2, QueryBegins
<1>4. Push(f)
    OBVIOUS
<1> HIDE DEF f
<1>5. Inherits(f) /\ Linked(top, f)
    BY <1>3 DEF Inherits, Linked
<1> QED BY <1>3, <1>4, <1>5, PushedOn

LEMMA AloneQueryPushed ==
    ASSUME IInv, stack # <<>>, NEW how \in {"left", "right", "with"},
           how = "left" => top.kind = "setop" /\ top.phase = "left",
           how = "right" => top.kind = "setop" /\ top.phase = "right" /\ MayTry(top),
           how = "with" => top.kind = "with" /\ top.phase = "with",
           Push(Query(how, <<>>, {})), UNCHANGED uid
    PROVE  IInv'
<1> DEFINE f == Query(how, <<>>, {})
<1>1. how \in Hows
    BY DEF Hows
<1>2. /\ f \in Frames /\ WellBuilt(f) /\ Held(f) = <<>> /\ HasScope(f)
      /\ f.kind = "query" /\ f.how = how /\ f.refs = <<>> /\ f.withs = {}
    BY <1>1, BareQueryBegins
<1>3. Push(f)
    OBVIOUS
<1> HIDE DEF f
<1>4. ~Inherits(f) /\ Linked(top, f)
    BY <1>2 DEF Inherits, Linked
<1> QED BY <1>2, <1>3, <1>4, PushedOn

LEMMA StartStep ==
    ASSUME NEW root \in Starts, Start(root)
    PROVE  IInv'
<1>1. stack' = <<root>> /\ uid' \in [AliasPrefixes -> Nat]
    BY DEF Start
<1>2. /\ root \in Frames /\ WellBuilt(root) /\ Held(root) = <<>> /\ Root(root)
      /\ HasScope(root) => root.refs = <<>> /\ root.withs = {}
    <2>1. CASE root = Query("top", <<>>, {})
        <3>1. "top" \in Hows
            BY DEF Hows
        <3> QED BY <2>1, <3>1, BareQueryBegins DEF Root
    <2>2. CASE root = SetOperation(0)
        BY <2>2, SetOperationBegins DEF Root
    <2>3. CASE root = With
        BY <2>3, WithBegins DEF Root
    <2> QED BY <2>1, <2>2, <2>3 DEF Starts
<1>3. Built(stack', uid')
    BY <1>1, <1>2, First
<1> QED BY <1>3 DEF IInv

LEMMA TableRefStep ==
    ASSUME IInv, TableRef
    PROVE  IInv'
<1>1. stack # <<>> /\ Takes(top) /\ Named("ref") /\ Replace(Received(top, <<Uid("ref")>>, <<>>))
    BY DEF TableRef, Takes
<1>2. Len(stack) \in 1..Len(stack) /\ Takes(stack[Len(stack)])
    BY <1>1, Tops DEF top
<1>3. "ref" \in AliasPrefixes
    BY DEF AliasPrefixes
<1>4. /\ <<Uid("ref")>> \in Seq(Aliases) /\ Grows
      /\ Joins(Len(stack), top, <<Uid("ref")>>) /\ Counts(ToSet(<<Uid("ref")>>), uid')
    BY <1>1, <1>2, <1>3, Fresh DEF top
<1>5. <<>> \in Seq(Aliases)
    OBVIOUS
<1> QED BY <1>1, <1>4, <1>5, TakenByTop

LEMMA BeginTableRefStep ==
    ASSUME IInv, BeginTableRef
    PROVE  IInv'
<1>1. stack # <<>> /\ WantsTableRef(top) /\ HasScope(top) /\ UNCHANGED uid
    BY DEF BeginTableRef, WantsTableRef, HasScope
<1>2. CASE Push(Query("subq", top.refs, top.withs))
    BY <1>1, <1>2, SubqueryPushed
<1>3. CASE Push(Join(top.refs, top.withs))
    <2> DEFINE f == Join(top.refs, top.withs)
    <2>1. top.refs \in Seq(Aliases) /\ top.withs \in SUBSET Aliases
        BY <1>1, Tops, AliasesOf
    <2>2. /\ f \in Frames /\ WellBuilt(f) /\ Held(f) = <<>> /\ HasScope(f)
          /\ f.kind = "join" /\ f.phase = "lhs" /\ f.refs = top.refs /\ f.withs = top.withs
        BY <2>1, JoinBegins
    <2>3. Push(f)
        BY <1>3
    <2> HIDE DEF f
    <2>4. Inherits(f) /\ Linked(top, f)
        BY <1>1, <2>2 DEF Inherits, Linked
    <2> QED BY <1>1, <2>2, <2>3, <2>4, PushedOn
<1> QED BY <1>2, <1>3 DEF BeginTableRef

LEMMA EndJoinStep ==
    ASSUME IInv, EndJoin
    PROVE  IInv'
<1> DEFINE y == top.lhs \o top.rhs
<1>1. /\ stack # <<>> /\ top.kind = "join" /\ top.phase = "on" /\ UNCHANGED uid
      /\ ReturnTo(Received(outer, y, top.seen))
    BY DEF EndJoin, IsTop
<1>2. ~Root(top) /\ HasScope(top) /\ Held(top) = y /\ Added(top) = y
    BY <1>1 DEF Root, HasScope, Held, Added
<1>3. /\ top \in Frames /\ Fits(stack, uid, Len(stack) - 1, top)
      /\ Len(stack) - 1 \in 1..Len(stack) /\ outer = stack[Len(stack) - 1]
      /\ outer \in Frames /\ Linked(outer, top) /\ InScope(outer, top) /\ Apart(outer, top)
    BY <1>1, <1>2, Tops
<1>4. y \in Seq(Aliases) /\ top.seen \in Seq(Aliases)
    <2>1. top \in JoinFrames
        BY <1>1, <1>3, KindOf
    <2>2. top.lhs \in Seq(Aliases) /\ top.rhs \in Seq(Aliases) /\ top.seen \in Seq(Aliases)
        BY <2>1 DEF JoinFrames
    <2> QED BY <2>2, ToSetConcat
<1> HIDE DEF y
<1>5. Takes(outer)
    BY <1>1, <1>3 DEF Linked, Takes
<1>6. NoTwice(outer.refs \o y)
    <2>1. Inherits(top)
        BY <1>1 DEF Inherits
    <2>2. top.refs = outer.refs \o y
        BY <1>2, <1>3, <2>1 DEF InScope
    <2> QED BY <1>2, <1>3, <2>2 DEF Fits, Distinct
<1>7. outer.kind = "join" => ToSet(outer.lhs) \cap ToSet(y) = {}
    <2> SUFFICES ASSUME outer.kind = "join" PROVE ToSet(outer.lhs) \cap ToSet(y) = {}
        OBVIOUS
    <2>1. Held(outer) = outer.lhs \o outer.rhs
        BY DEF Held
    <2>2. outer.lhs \in Seq(Aliases) /\ outer.rhs \in Seq(Aliases)
        BY <1>3, AliasesOf
    <2>3. ToSet(Held(outer)) = ToSet(outer.lhs) \cup ToSet(outer.rhs)
        BY <2>1, <2>2, ToSetConcat
    <2>4. ToSet(Held(outer)) \cap ToSet(y) = {}
        BY <1>2, <1>3 DEF Apart
    <2> QED BY <2>3, <2>4
<1>8. \A i \in 1..(Len(stack) - 1 - 1) : ToSet(Held(stack[i])) \cap ToSet(y) = {}
    <2>1. \A i \in 1..(Len(stack) - 1) : Apart(stack[i], top)
        BY <1>3 DEF Fits
    <2>2. \A i \in 1..(Len(stack) - 1 - 1) : i \in 1..(Len(stack) - 1)
        BY <1>1, Tops
    <2> QED BY <1>2, <2>1, <2>2 DEF Apart
<1>9. Counts(ToSet(y), uid')
    <2>1. Counts(ToSet(y), uid)
        BY <1>2, <1>3 DEF Fits, Old, Counts
    <2> QED BY <1>1, <2>1
<1>10. Joins(Len(stack) - 1, outer, y)
    BY <1>5, <1>6, <1>7, <1>8 DEF Joins
<1>11. Grows
    BY <1>1, Stays
<1> QED BY <1>1, <1>2, <1>4, <1>9, <1>10, <1>11, TakenByOuter

LEMMA BeginLateralStep ==
    ASSUME IInv, BeginLateral
    PROVE  IInv'
<1>1. /\ stack # <<>> /\ top.kind = "query" /\ top.phase = "more" /\ HasScope(top)
      /\ Push(Query("lateral", top.refs, top.withs)) /\ UNCHANGED uid
    BY DEF BeginLateral, IsTop, HasScope
<1> QED BY <1>1, SubqueryPushed

LEMMA BeginExistsStep ==
    ASSUME IInv, BeginExists
    PROVE  IInv'
<1>1. /\ stack # <<>> /\ HasScope(top) /\ InExpression(top)
      /\ Push(Query("exists", top.refs, top.withs)) /\ UNCHANGED uid
    BY DEF BeginExists, IsTop, HasScope, InExpression
<1> QED BY <1>1, SubqueryPushed

LEMMA BeginSelectListStep ==
    ASSUME IInv, BeginSelectList
    PROVE  IInv'
<1> DEFINE g == [top EXCEPT !.phase = "select"]
<1>1. stack # <<>> /\ top.kind = "query" /\ top.phase = "more" /\ Replace(g) /\ UNCHANGED uid
    BY DEF BeginSelectList, IsTop
<1>2. top \in QueryFrames /\ WellBuilt(top)
    BY <1>1, Tops, KindOf DEF Fits
<1>3. g \in QueryFrames
    BY <1>2 DEF QueryFrames
<1>4. /\ g.kind = top.kind /\ g.phase = "select" /\ g.how = top.how /\ g.refs = top.refs
      /\ g.withs = top.withs /\ g.own = top.own
    BY <1>2 DEF QueryFrames
<1> HIDE DEF g
<1>5. WellBuilt(g)
    BY <1>1, <1>2, <1>4 DEF WellBuilt
<1>6. Same(top, g)
    BY <1>1, <1>4 DEF Same
<1> QED BY <1>1, <1>3, <1>5, <1>6, OnTop, Stays DEF Frames

(* A select item more, whatever the query. *)
LEMMA ItemAdded ==
    ASSUME NEW f \in Frames, f.kind = "query", f.phase = "select", WellBuilt(f), NEW c \in Columns
    PROVE  LET g == [f EXCEPT !.items = Append(@, c)]
           IN  g \in Frames /\ WellBuilt(g) /\ Same(f, g)
<1> DEFINE g == [f EXCEPT !.items = Append(@, c)]
<1>1. f \in QueryFrames
    BY KindOf
<1>2. f.items \in Seq(Columns)
    BY <1>1 DEF QueryFrames
<1>3. Append(f.items, c) \in Seq(Columns)
    BY <1>2
<1>4. g \in QueryFrames
    BY <1>1, <1>3 DEF QueryFrames
<1>5. /\ g.kind = f.kind /\ g.phase = f.phase /\ g.how = f.how /\ g.refs = f.refs
      /\ g.withs = f.withs /\ g.own = f.own
    BY <1>1 DEF QueryFrames
<1> HIDE DEF g
<1>6. WellBuilt(g)
    BY <1>5 DEF WellBuilt
<1>7. Same(f, g)
    BY <1>5 DEF Same
<1> QED BY <1>4, <1>6, <1>7 DEF Frames, g

LEMMA SelectItemStep ==
    ASSUME IInv, SelectItem
    PROVE  IInv'
<1>1. stack # <<>> /\ top.kind = "query" /\ top.phase = "select" /\ UNCHANGED uid
    BY DEF SelectItem, IsTop
<1>2. top \in Frames /\ WellBuilt(top)
    BY <1>1, Tops DEF Fits
<1>3. HasScope(top) /\ top.refs \in Seq(Aliases)
    BY <1>1, <1>2, AliasesOf DEF HasScope
<1>4. ItemsOver(top, <<>>) \subseteq Columns
    <2>1. PICK z \in Seq(Aliases) : z = <<>>
        <3>1. <<>> \in Seq(Aliases)
            OBVIOUS
        <3> QED BY <3>1, Zenon
    <2>2. ItemsOver(top, z) \subseteq Columns
        BY <1>3, ItemsTyped
    <2> QED BY <2>1, <2>2
<1>5. PICK c \in ItemsOver(top, <<>>) : Replace([top EXCEPT !.items = Append(@, c)])
    BY DEF SelectItem
<1> DEFINE g == [top EXCEPT !.items = Append(@, c)]
<1>6. g \in Frames /\ WellBuilt(g) /\ Same(top, g)
    BY <1>1, <1>2, <1>4, <1>5, ItemAdded
<1> QED BY <1>1, <1>5, <1>6, OnTop, Stays

LEMMA EndSelectListStep ==
    ASSUME IInv, NEW grouped \in BOOLEAN, EndSelectList(grouped)
    PROVE  IInv'
<1> DEFINE names == IF grouped THEN GroupedBy(top.items) ELSE <<>>
           g == [top EXCEPT !.phase = "where", !.grouped = grouped, !.group = names]
<1>1. /\ stack # <<>> /\ top.kind = "query" /\ top.phase = "select" /\ top.items # <<>>
      /\ Replace(g) /\ UNCHANGED uid
    BY DEF EndSelectList, IsTop
<1>2. top \in QueryFrames
    BY <1>1, Tops, KindOf
<1>3. names \in Seq(GroupNames)
    <2>1. GroupedBy(top.items) \in Seq(GroupNames)
        <3>1. top.items \in Seq(Columns)
            BY <1>2 DEF QueryFrames
        <3> QED BY <3>1, GroupTyped
    <2>2. <<>> \in Seq(GroupNames)
        OBVIOUS
    <2> QED BY <2>1, <2>2
<1> HIDE DEF names
<1>4. g \in QueryFrames
    BY <1>2, <1>3 DEF QueryFrames
<1>5. /\ g.kind = top.kind /\ g.phase = "where" /\ g.how = top.how /\ g.refs = top.refs
      /\ g.withs = top.withs /\ g.own = top.own
    BY <1>2 DEF QueryFrames
<1> HIDE DEF g
<1>6. WellBuilt(g)
    BY <1>1, <1>5 DEF WellBuilt
<1>7. Same(top, g)
    BY <1>1, <1>5 DEF Same
<1> QED BY <1>1, <1>4, <1>6, <1>7, OnTop, Stays DEF Frames

(* A query that is complete. *)
LEMMA Ending ==
    ASSUME IInv, NEW how \in Hows, IsEnding(how)
    PROVE  /\ stack # <<>> /\ top.kind = "query" /\ top.how = how /\ top \in QueryFrames
           /\ HasScope(top) /\ WellBuilt(top)
           /\ SeenIn(top) \in Seq(Aliases) /\ ColumnsOf(top) \in Seq(Types)
           /\ how # "top" => ~Root(top) /\ outer \in Frames /\ WellBuilt(outer) /\ Linked(outer, top)
<1>1. stack # <<>> /\ top.kind = "query" /\ top.how = how
    BY DEF IsEnding, IsTop
<1>2. top \in Frames /\ WellBuilt(top)
    BY <1>1, Tops DEF Fits
<1>3. top \in QueryFrames
    BY <1>1, <1>2, KindOf
<1>4. ASSUME how # "top"
      PROVE  ~Root(top) /\ outer \in Frames /\ WellBuilt(outer) /\ Linked(outer, top)
    <2>1. ~Root(top)
        BY <1>1, <1>4 DEF Root
    <2> QED BY <1>1, <2>1, Tops DEF Fits
<1> QED BY <1>1, <1>2, <1>3, <1>4, SeenTyped DEF HasScope

LEMMA EndSubqueryStep ==
    ASSUME IInv, EndSubquery
    PROVE  IInv'
<1>1. PICK how \in {"subq", "lateral"} : IsEnding(how)
    BY DEF EndSubquery
<1>2. how \in Hows /\ how # "top"
    BY DEF Hows
<1>3. /\ stack # <<>> /\ top.kind = "query" /\ top.how = how /\ SeenIn(top) \in Seq(Aliases)
      /\ ~Root(top) /\ Linked(outer, top)
    BY <1>1, <1>2, Ending
<1>4. Named("subq") /\ ReturnTo(Received(outer, <<Uid("subq")>>, SeenIn(top)))
    BY DEF EndSubquery
<1>5. Takes(outer)
    BY <1>3 DEF Linked, Takes
<1>6. Len(stack) - 1 \in 1..Len(stack) /\ outer = stack[Len(stack) - 1]
    BY <1>3, Tops
<1>7. "subq" \in AliasPrefixes
    BY DEF AliasPrefixes
<1>8. /\ <<Uid("subq")>> \in Seq(Aliases) /\ Grows
      /\ Joins(Len(stack) - 1, outer, <<Uid("subq")>>) /\ Counts(ToSet(<<Uid("subq")>>), uid')
    BY <1>4, <1>5, <1>6, <1>7, Fresh
<1> QED BY <1>3, <1>4, <1>8, TakenByOuter

LEMMA EndExistsStep ==
    ASSUME IInv, EndExists
    PROVE  IInv'
<1>1. IsEnding("exists") /\ UNCHANGED uid /\ "exists" \in Hows
    BY DEF EndExists, Hows
<1>2. /\ stack # <<>> /\ top.kind = "query" /\ top.how = "exists" /\ SeenIn(top) \in Seq(Aliases)
      /\ ~Root(top) /\ outer \in Frames /\ WellBuilt(outer) /\ Linked(outer, top)
    BY <1>1, Ending
<1>3. HasScope(outer) /\ InExpression(outer) /\ outer.refs \in Seq(Aliases)
    BY <1>2, AliasesOf DEF Linked
<1>4. CASE outer.phase = "select"
    <2>1. outer.kind = "query"
        <3>1. outer.kind = "join" => outer \in JoinFrames
            BY <1>2, KindOf
        <3>2. \A j \in JoinFrames : j.phase # "select"
            BY DEF JoinFrames
        <3> QED BY <1>3, <1>4, <3>1, <3>2 DEF HasScope
    <2>2. PICK c \in ItemsOver(outer, SeenIn(top)) :
              ReturnTo([outer EXCEPT !.items = Append(@, c)])
        BY <1>4 DEF EndExists
    <2>3. c \in Columns
        BY <1>2, <1>3, ItemsTyped
    <2> DEFINE g == [outer EXCEPT !.items = Append(@, c)]
    <2>4. g \in Frames /\ WellBuilt(g) /\ Same(outer, g)
        BY <1>2, <1>4, <2>1, <2>3, ItemAdded
    <2> QED BY <1>1, <1>2, <2>2, <2>4, OnOuter, Stays
<1>5. CASE outer.phase # "select"
    <2> DEFINE x == SeenIn(top)
               g == [outer EXCEPT !.seen = @ \o x]
    <2>1. ReturnTo(g)
        BY <1>5 DEF EndExists
    <2>2. x \in Seq(Aliases)
        BY <1>2
    <2> HIDE DEF x
    <2>3. g \in Frames /\ WellBuilt(g) /\ Same(outer, g)
        <3>1. CASE outer.kind = "query"
            <4>1. outer \in QueryFrames
                BY <1>2, <3>1, KindOf
            <4>2. outer.seen \o x \in Seq(Aliases)
                BY <2>2, <4>1 DEF QueryFrames
            <4>3. g \in QueryFrames
                BY <4>1, <4>2 DEF QueryFrames
            <4>4. /\ g.kind = outer.kind /\ g.phase = outer.phase /\ g.how = outer.how
                  /\ g.refs = outer.refs /\ g.withs = outer.withs /\ g.own = outer.own
                  /\ g.items = outer.items
                BY <4>1 DEF QueryFrames
            <4> HIDE DEF g
            <4>5. WellBuilt(g)
                BY <1>2, <3>1, <4>4 DEF WellBuilt
            <4>6. Same(outer, g)
                BY <3>1, <4>4 DEF Same
            <4> QED BY <4>3, <4>5, <4>6 DEF Frames
        <3>2. CASE outer.kind = "join"
            <4>1. outer \in JoinFrames
                BY <1>2, <3>2, KindOf
            <4>2. outer.seen \o x \in Seq(Aliases)
                BY <2>2, <4>1 DEF JoinFrames
            <4>3. g \in JoinFrames
                BY <4>1, <4>2 DEF JoinFrames
            <4>4. /\ g.kind = outer.kind /\ g.phase = outer.phase /\ g.refs = outer.refs
                  /\ g.withs = outer.withs /\ g.lhs = outer.lhs /\ g.rhs = outer.rhs
                BY <4>1 DEF JoinFrames
            <4> HIDE DEF g
            <4>5. WellBuilt(g)
                BY <1>2, <3>2, <4>4 DEF WellBuilt
            <4>6. Same(outer, g)
                BY <3>2, <4>4 DEF Same
            <4> QED BY <4>3, <4>5, <4>6 DEF Frames
        <3> QED BY <1>3, <3>1, <3>2 DEF HasScope
    <2> QED BY <1>1, <1>2, <2>1, <2>3, OnOuter, Stays
<1> QED BY <1>4, <1>5

-----------------------------------------------------------------------------
LEMMA NothingLeft ==
    ASSUME IInv, stack' = <<>>, UNCHANGED uid
    PROVE  IInv'
<1>1. Built(stack', uid')
    BY DEF Built, IInv
<1> QED BY <1>1 DEF IInv

LEMMA BeginSideStep ==
    ASSUME IInv, BeginSide
    PROVE  IInv'
<1>1. UNCHANGED uid
    BY DEF BeginSide
<1>2. CASE IsTop("setop", {"left"}) /\ Push(Query("left", <<>>, {}))
    BY <1>1, <1>2, AloneQueryPushed DEF IsTop
<1>3. CASE IsTop("setop", {"right"}) /\ MayTry(top) /\ Push(Query("right", <<>>, {}))
    BY <1>1, <1>3, AloneQueryPushed DEF IsTop
<1>4. CASE /\ IsTop("setop", {"right"}) /\ MayTry(top)
           /\ top.level < 2 /\ Push(SetOperation(top.level + 1))
    <2> DEFINE f == SetOperation(top.level + 1)
    <2>1. stack # <<>> /\ top.kind = "setop" /\ top.phase = "right"
        BY <1>4 DEF IsTop
    <2>2. top \in SetOpFrames
        BY <2>1, Tops, KindOf
    <2>3. top.level + 1 \in 0..2
        <3>1. top.level \in 0..2
            BY <2>2 DEF SetOpFrames
        <3> QED BY <1>4, <3>1
    <2>4. /\ f \in Frames /\ WellBuilt(f) /\ Held(f) = <<>> /\ ~HasScope(f)
          /\ f.kind = "setop" /\ f.level = top.level + 1
        BY <2>3, SetOperationBegins
    <2>5. Push(f)
        BY <1>4
    <2> HIDE DEF f
    <2>6. Linked(top, f)
        BY <1>4, <2>1, <2>4 DEF Linked
    <2> QED BY <1>1, <2>1, <2>4, <2>5, <2>6, PushedOn
<1> QED BY <1>2, <1>3, <1>4 DEF BeginSide

LEMMA EndLeftStep ==
    ASSUME IInv, EndLeft
    PROVE  IInv'
<1> DEFINE cols == ColumnsOf(top)
           g == [outer EXCEPT !.left = cols, !.phase = "right"]
<1>1. IsEnding("left") /\ UNCHANGED uid /\ "left" \in Hows /\ ReturnTo(g)
    BY DEF EndLeft, Hows
<1>2. /\ stack # <<>> /\ top.kind = "query" /\ top.how = "left" /\ cols \in Seq(Types)
      /\ ~Root(top) /\ outer \in Frames /\ Linked(outer, top)
    BY <1>1, Ending
<1> HIDE DEF cols
<1>3. outer.kind = "setop" /\ outer \in SetOpFrames
    BY <1>2, KindOf DEF Linked
<1>4. g \in SetOpFrames
    BY <1>2, <1>3 DEF SetOpFrames
<1>5. g.kind = "setop" /\ g.phase = "right" /\ g.level = outer.level
    BY <1>3 DEF SetOpFrames
<1> HIDE DEF g
<1>6. WellBuilt(g) /\ Same(outer, g)
    BY <1>3, <1>5 DEF WellBuilt, Same
<1> QED BY <1>1, <1>2, <1>4, <1>6, OnOuter, Stays DEF Frames

(* The second side of a set operation is there, or one attempt failed.      *)
LEMMA TriedAgain ==
    ASSUME NEW f \in SetOpFrames, f.phase = "right", MayTry(f)
    PROVE  LET g == [f EXCEPT !.tries = @ + 1]
           IN  g \in Frames /\ WellBuilt(g) /\ Same(f, g)
<1> DEFINE g == [f EXCEPT !.tries = @ + 1]
<1>1. f.tries \in 0..(AttemptLimit + 1) /\ f.tries <= AttemptLimit /\ AttemptLimit \in Nat
    BY ScopeAssumption DEF SetOpFrames, MayTry
<1>2. f.tries + 1 \in 0..(AttemptLimit + 1)
    BY <1>1
<1>3. g \in SetOpFrames
    BY <1>2 DEF SetOpFrames
<1>4. /\ g.kind = "setop" /\ f.kind = "setop" /\ g.phase = "right" /\ g.level = f.level
    BY DEF SetOpFrames
<1> HIDE DEF g
<1>5. WellBuilt(g) /\ Same(f, g)
    BY <1>4 DEF WellBuilt, Same
<1> QED BY <1>3, <1>5 DEF Frames, g

LEMMA MatchedFrame ==
    ASSUME NEW f \in SetOpFrames, f.phase = "right", MayTry(f),
           NEW cols \in Seq(Types), NEW others \in SUBSET Seq(Types),
           \A c \in others : Len(c) = Len(cols)
    PROVE  LET g == Matched(f, cols, others)
           IN  g \in Frames /\ WellBuilt(g) /\ Same(f, g)
<1>1. CASE Unifies(f.left, cols)
    <2> DEFINE g == [f EXCEPT !.others = others, !.phase = "order"]
    <2>1. g \in SetOpFrames
        BY DEF SetOpFrames
    <2>2. /\ g.kind = "setop" /\ f.kind = "setop" /\ g.level = f.level
          /\ g.left = f.left /\ g.others = others
        BY DEF SetOpFrames
    <2>3. g = Matched(f, cols, others)
        BY <1>1 DEF Matched
    <2> HIDE DEF g
    <2>4. Len(f.left) = Len(cols)
        BY <1>1 DEF Unifies
    <2>5. WellBuilt(g)
        BY <2>2, <2>4 DEF WellBuilt
    <2>6. Same(f, g)
        BY <2>2 DEF Same
    <2> QED BY <2>1, <2>3, <2>5, <2>6 DEF Frames
<1>2. CASE ~Unifies(f.left, cols)
    BY <1>2, TriedAgain DEF Matched
<1> QED BY <1>1, <1>2

LEMMA EndRightStep ==
    ASSUME IInv, EndRight
    PROVE  IInv'
<1> DEFINE cols == ColumnsOf(top)
           g == Matched(outer, cols, {cols})
<1>1. IsEnding("right") /\ UNCHANGED uid /\ "right" \in Hows /\ ReturnTo(g)
    BY DEF EndRight, Hows
<1>2. /\ stack # <<>> /\ top.kind = "query" /\ top.how = "right" /\ cols \in Seq(Types)
      /\ ~Root(top) /\ outer \in Frames /\ Linked(outer, top)
    BY <1>1, Ending
<1> HIDE DEF cols
<1>3. outer.phase = "right" /\ MayTry(outer) /\ outer \in SetOpFrames
    BY <1>2, KindOf DEF Linked
<1>4. {cols} \in SUBSET Seq(Types) /\ \A c \in {cols} : Len(c) = Len(cols)
    BY <1>2
<1>5. g \in Frames /\ WellBuilt(g) /\ Same(outer, g)
    BY <1>2, <1>3, <1>4, MatchedFrame
<1> QED BY <1>1, <1>2, <1>5, OnOuter, Stays

LEMMA EndSetOperationStep ==
    ASSUME IInv, EndSetOperation
    PROVE  IInv'
<1>1. stack # <<>> /\ top.kind = "setop" /\ top.phase = "order" /\ UNCHANGED uid
    BY DEF EndSetOperation, IsTop
<1>2. CASE under = <<>>
    BY <1>1, <1>2, NothingLeft DEF EndSetOperation
<1>3. CASE under # <<>>
    <2> DEFINE others == top.others \cup {top.left}
               g == Matched(outer, top.left, others)
    <2>1. ReturnTo(g)
        BY <1>3 DEF EndSetOperation
    <2>2. top \in SetOpFrames /\ WellBuilt(top) /\ Fits(stack, uid, Len(stack) - 1, top)
        BY <1>1, Tops, KindOf DEF Fits
    <2>3. ~Root(top)
        <3>1. stack \in Seq(Frames) /\ Len(stack) \in Nat
            BY DEF IInv, Built
        <3>2. Len(stack) - 1 # 0
            <4>1. Front(stack) \in Seq(Frames) /\ Len(Front(stack)) = Len(stack) - 1
                BY <1>1, <3>1, FrontOf
            <4> QED BY <1>3, <4>1, EmptySeq DEF under
        <3>3. Linked(stack[Len(stack) - 1], top)
            BY <2>2, <3>2 DEF Fits, Stands
        <3>4. stack[Len(stack) - 1] \in Frames
            <4>1. Len(stack) - 1 \in 1..Len(stack)
                <5>1. Len(stack) \in Nat \ {0}
                    BY <1>1, Tops
                <5>2. \A m \in Nat \ {0} : m - 1 # 0 => m - 1 \in 1..m
                    OBVIOUS
                <5> QED BY <3>2, <5>1, <5>2, Zenon
            <4> QED BY <3>1, <4>1
        <3>5. stack[Len(stack) - 1].kind = "setop" /\ top.level = stack[Len(stack) - 1].level + 1
            BY <1>1, <3>3 DEF Linked
        <3>6. stack[Len(stack) - 1] \in SetOpFrames
            BY <3>4, <3>5, KindOf
        <3>7. stack[Len(stack) - 1].level \in 0..2
            BY <3>6 DEF SetOpFrames
        <3>8. top.level # 0
            BY <3>5, <3>7
        <3> QED BY <1>1, <3>8 DEF Root
    <2>4. outer \in Frames /\ Linked(outer, top)
        BY <1>1, <2>3, Tops
    <2>5. outer.phase = "right" /\ MayTry(outer) /\ outer \in SetOpFrames
        BY <1>1, <2>4, KindOf DEF Linked
    <2>6. /\ top.left \in Seq(Types) /\ others \in SUBSET Seq(Types)
          /\ \A c \in others : Len(c) = Len(top.left)
        <3>1. top.left \in Seq(Types) /\ top.others \in SUBSET Seq(Types)
            BY <2>2 DEF SetOpFrames
        <3>2. \A c \in top.others : Len(c) = Len(top.left)
            BY <1>1, <2>2 DEF WellBuilt
        <3> QED BY <3>1, <3>2
    <2> HIDE DEF others
    <2>7. g \in Frames /\ WellBuilt(g) /\ Same(outer, g)
        BY <2>5, <2>6, MatchedFrame
    <2> QED BY <1>1, <2>1, <2>3, <2>7, OnOuter, Stays
<1> QED BY <1>2, <1>3

LEMMA BeginWithQueryStep ==
    ASSUME IInv, BeginWithQuery
    PROVE  IInv'
<1>1. /\ stack # <<>> /\ top.kind = "with" /\ top.phase = "with"
      /\ Push(Query("with", <<>>, {})) /\ UNCHANGED uid
    BY DEF BeginWithQuery, IsTop
<1> QED BY <1>1, AloneQueryPushed

LEMMA EndWithQueryStep ==
    ASSUME IInv, EndWithQuery
    PROVE  IInv'
<1> DEFINE a == Uid("jennifer")
           g == [outer EXCEPT !.names = Append(@, a)]
<1>1. IsEnding("with") /\ Named("jennifer") /\ "with" \in Hows /\ ReturnTo(g)
    BY DEF EndWithQuery, Hows
<1>2. /\ stack # <<>> /\ top.kind = "query" /\ top.how = "with"
      /\ ~Root(top) /\ outer \in Frames /\ Linked(outer, top)
    BY <1>1, Ending
<1>3. Grows /\ a \in Aliases
    BY <1>1, NameTyped DEF AliasPrefixes
<1> HIDE DEF a
<1>4. outer.kind = "with" /\ outer \in WithFrames
    BY <1>2, KindOf DEF Linked
<1>5. g \in WithFrames
    <2>1. outer.names \in Seq(Aliases)
        BY <1>4 DEF WithFrames
    <2>2. Append(outer.names, a) \in Seq(Aliases)
        BY <1>3, <2>1
    <2> QED BY <1>4, <2>2 DEF WithFrames
<1>6. g.kind = "with"
    BY <1>4 DEF WithFrames
<1> HIDE DEF g
<1>7. WellBuilt(g) /\ Same(outer, g)
    BY <1>4, <1>6 DEF WellBuilt, Same
<1> QED BY <1>1, <1>2, <1>3, <1>5, <1>7, OnOuter DEF Frames

LEMMA BeginMainStep ==
    ASSUME IInv, BeginMain
    PROVE  IInv'
<1> DEFINE g == [top EXCEPT !.phase = "main"]
           t == Append(SubSeq(stack, 1, Len(stack) - 1), g)
           f == Query("main", <<>>, ToSet(top.names))
<1>1. stack # <<>> /\ top.kind = "with" /\ UNCHANGED uid
    BY DEF BeginMain, IsTop
<1>2. /\ Len(stack) \in 1..Len(stack) /\ under = SubSeq(stack, 1, Len(stack) - 1)
      /\ top \in WithFrames
    BY <1>1, Tops, KindOf
<1>3. g \in WithFrames /\ g.kind = "with" /\ g.names = top.names /\ g.phase = "main"
    BY <1>2 DEF WithFrames
<1>4. top.names \in Seq(Aliases)
    BY <1>2 DEF WithFrames
<1>5. f \in Frames /\ WellBuilt(f) /\ Held(f) = <<>> /\ f.kind = "query" /\ f.how = "main"
        /\ f.refs = <<>> /\ f.withs = ToSet(top.names)
    <2>1. "main" \in Hows /\ ToSet(top.names) \in SUBSET Aliases
        BY <1>4 DEF Hows, ToSet
    <2> QED BY <2>1, BareQueryBegins
<1>6. stack' = t \o <<f>>
    BY <1>2 DEF BeginMain
<1>7. t \in Seq(Frames) /\ Len(t) # 0 /\ t[Len(t)] = g
    <2>1. /\ SubSeq(stack, 1, Len(stack) - 1) \in Seq(Frames) /\ g \in Frames
        BY <1>2, <1>3 DEF IInv, Built, Frames
    <2> HIDE DEF g
    <2> QED BY <2>1, AppendProperties
<1>8. Built(t, uid)
    <2>1. g \in Frames /\ WellBuilt(g) /\ Same(stack[Len(stack)], g)
        BY <1>1, <1>3 DEF Frames, WellBuilt, Same, top
    <2> HIDE DEF g
    <2>2. uid \in [AliasPrefixes -> Nat] /\ \A p \in AliasPrefixes : uid[p] <= uid[p]
        BY DEF IInv, Built
    <2> QED BY <1>2, <2>1, <2>2, Changed DEF IInv
<1> HIDE DEF t, f, g
<1>9. stack' = Append(t, f)
    BY <1>5, <1>6, <1>7
<1>10. Linked(g, f) /\ ~Inherits(f)
    BY <1>3, <1>5 DEF Linked, Inherits
<1>11. Built(stack', uid)
    BY <1>3, <1>5, <1>7, <1>8, <1>9, <1>10, Pushed
<1> QED BY <1>1, <1>11 DEF IInv

LEMMA FailStep ==
    ASSUME IInv, Fail
    PROVE  IInv'
<1> DEFINE caught == {i \in 1..Len(stack) : Caught(stack[i])}
           i == CHOOSE j \in caught : \A k \in caught : k <= j
           left == SubSeq(stack, 1, i - 1)
<1>1. stack \in Seq(Frames) /\ Len(stack) \in Nat /\ UNCHANGED uid
    BY DEF IInv, Built, Fail
<1>2. stack' = IF caught = {} THEN <<>>
               ELSE IF left[i - 1].kind = "setop" THEN [left EXCEPT ![i - 1].tries = @ + 1]
               ELSE left
    BY Zenon DEF Fail
<1>3. CASE caught = {}
    BY <1>1, <1>2, <1>3, NothingLeft
<1>4. CASE caught # {}
    <2>1. i \in caught
        <3>1. caught \in SUBSET (1..Len(stack))
            OBVIOUS
        <3>2. \E j \in caught : \A k \in caught : k <= j
            BY <1>1, <1>4, <3>1, GreatestIndex
        <3> QED BY <3>2
    <2>2. i \in 1..Len(stack) /\ Caught(stack[i])
        BY <2>1
    <2> HIDE DEF i, caught
    <2>3. stack[i] \in Frames /\ Fits(stack, uid, i - 1, stack[i])
        BY <1>1, <2>2 DEF IInv, Built
    <2>4. i - 1 # 0 /\ Linked(stack[i - 1], stack[i])
        <3>1. ~Root(stack[i])
            <4>1. stack[i].kind = "setop" => stack[i] \in SetOpFrames
                BY <2>3, KindOf
            <4>2. stack[i].kind = "setop" => stack[i].level \in 0..2
                BY <4>1 DEF SetOpFrames
            <4> QED BY <2>2, <4>2 DEF Caught, Root
        <3> QED BY <2>3, <3>1 DEF Fits, Stands
    <2>5. i - 1 \in 1..Len(stack) /\ i - 1 \in 0..Len(stack) /\ i - 1 \in Nat \ {0}
        BY <1>1, <2>2, <2>4
    <2>6. left \in Seq(Frames) /\ Len(left) = i - 1 /\ \A k \in 1..(i - 1) : left[k] = stack[k]
        BY <1>1, <2>5
    <2>7. left[i - 1] = stack[i - 1] /\ stack[i - 1] \in Frames
        BY <1>1, <2>5, <2>6
    <2>8. CASE stack[i - 1].kind # "setop"
        <3>1. stack' = left
            BY <1>2, <1>4, <2>7, <2>8
        <3>2. Built(left, uid)
            BY <2>5, Dropped DEF IInv
        <3> QED BY <1>1, <3>1, <3>2 DEF IInv
    <2>9. CASE stack[i - 1].kind = "setop"
        <3> DEFINE f == stack[i - 1]
                   g == [f EXCEPT !.tries = @ + 1]
        <3>1. f \in SetOpFrames /\ f.phase = "right" /\ MayTry(f)
            <4>1. f \in SetOpFrames
                BY <2>7, <2>9, KindOf
            <4>2. Linked(f, stack[i]) /\ f.kind = "setop"
                BY <2>4, <2>9
            <4> HIDE DEF f
            <4>3. f.phase = "right" /\ MayTry(f)
                BY <2>2, <4>2 DEF Linked, Caught, WantsTableRef, HasScope
            <4> QED BY <4>1, <4>3
        <3>2. g \in Frames /\ WellBuilt(g) /\ Same(f, g)
            BY <3>1, TriedAgain
        <3>3. stack' = [left EXCEPT ![i - 1] = g]
            <4>1. stack' = [left EXCEPT ![i - 1].tries = @ + 1]
                BY <1>2, <1>4, <2>7, <2>9
            <4> QED BY <2>7, <4>1
        <3> HIDE DEF g
        <3>4. stack' = Append(SubSeq(stack, 1, i - 1 - 1), g)
            <4>1. /\ SubSeq(stack, 1, i - 1 - 1) \in Seq(Frames)
                  /\ Len(SubSeq(stack, 1, i - 1 - 1)) = i - 1 - 1
                  /\ \A k \in 1..(i - 1 - 1) : SubSeq(stack, 1, i - 1 - 1)[k] = stack[k]
                BY <1>1, <2>5
            <4> DEFINE r == Append(SubSeq(stack, 1, i - 1 - 1), g)
                       l == [left EXCEPT ![i - 1] = g]
            <4>2. r \in Seq(Frames) /\ Len(r) = i - 1 /\ r[i - 1] = g
                    /\ \A k \in 1..(i - 1 - 1) : r[k] = stack[k]
                BY <2>5, <3>2, <4>1, AppendProperties
            <4>3. l \in Seq(Frames) /\ Len(l) = i - 1 /\ l[i - 1] = g
                    /\ \A k \in 1..(i - 1 - 1) : l[k] = stack[k]
                <5>1. i - 1 \in 1..Len(left) /\ \A k \in 1..(i - 1 - 1) : k # i - 1 /\ k \in 1..(i - 1)
                    BY <2>5, <2>6
                <5>2. left \in Seq(Frames) /\ g \in Frames
                    BY <2>6, <3>2
                <5> HIDE DEF left
                <5>3. l \in Seq(Frames) /\ Len(l) = Len(left) /\ l[i - 1] = g
                        /\ \A k \in 1..Len(left) : k # i - 1 => l[k] = left[k]
                    BY <5>1, <5>2
                <5> HIDE DEF l
                <5> QED BY <2>6, <5>1, <5>3
            <4> HIDE DEF r, l
            <4>4. \A k \in 1..(i - 1) : r[k] = l[k]
                BY <2>5, <4>2, <4>3
            <4>5. r = l
                BY <4>2, <4>3, <4>4, SeqEqual
            <4> QED BY <3>3, <4>5 DEF r, l
        <3>5. Built(stack', uid')
            <4>1. Grows
                BY <1>1, Stays
            <4> QED BY <2>5, <3>2, <3>4, <4>1, Changed DEF IInv, Grows
        <3> QED BY <3>5 DEF IInv
    <2> QED BY <2>8, <2>9
<1> QED BY <1>3, <1>4

-----------------------------------------------------------------------------
LEMMA IInvInit ==
    ASSUME Init
    PROVE  IInv
BY DEF Init, IInv, Built

LEMMA IInvNext ==
    ASSUME IInv, [Next]_vars
    PROVE  IInv'
<1>1. CASE UNCHANGED vars
    <2>1. Built(stack', uid')
        BY <1>1 DEF vars, IInv
    <2> QED BY <2>1 DEF IInv
<1>2. CASE \E root \in Starts : Start(root)
    BY <1>2, StartStep
<1>3. CASE \E grouped \in BOOLEAN : EndSelectList(grouped)
    BY <1>3, EndSelectListStep
<1>4. CASE EndTop
    BY <1>4, NothingLeft DEF EndTop
<1> QED BY <1>1, <1>2, <1>3, <1>4, TableRefStep, BeginTableRefStep, BeginLateralStep,
           EndJoinStep, BeginSelectListStep, BeginExistsStep, SelectItemStep, EndSubqueryStep,
           EndExistsStep, BeginSideStep, EndLeftStep, EndRightStep, EndSetOperationStep,
           BeginWithQueryStep, EndWithQueryStep, BeginMainStep, FailStep, Zenon DEF Next

(* Every construct fits the one it is in.                                   *)
THEOREM Invariant == Spec => []IInv
<1>1. Init => IInv
    BY IInvInit
<1>2. IInv /\ [Next]_vars => IInv'
    BY IInvNext
<1> QED BY <1>1, <1>2, PTL DEF Spec

(* Every construct has the parts its class declares, and a set operation    *)
(* makes at most one attempt more than its limit.                            *)
THEOREM TypeCorrect == Spec => []TypeOK
<1>1. IInv => TypeOK
    BY DEF IInv, Built, TypeOK
<1> QED BY <1>1, Invariant, PTL

(* No two of the aliases an expression can pick from are the same, in any   *)
(* scope of a statement: stmt_uid never gives a name that is still in one.   *)
THEOREM AliasesUnique == Spec => []NoShadowing
<1>1. ASSUME IInv PROVE NoShadowing
    <2> SUFFICES ASSUME NEW i \in 1..Len(stack), HasScope(stack[i]),
                        NEW j \in DOMAIN stack[i].refs, NEW k \in DOMAIN stack[i].refs,
                        stack[i].refs[j] = stack[i].refs[k]
                 PROVE  j = k
        BY DEF NoShadowing
    <2>1. stack[i] \in Frames /\ Distinct(stack[i])
        BY <1>1 DEF IInv, Built, Fits
    <2>2. stack[i].refs \in Seq(Aliases) /\ NoTwice(stack[i].refs)
        BY <2>1, AliasesOf DEF Distinct
    <2>3. DOMAIN stack[i].refs = 1..Len(stack[i].refs)
        BY <2>2
    <2> QED BY <2>2, <2>3 DEF NoTwice
<1> QED BY <1>1, Invariant, PTL

(* All queries of a nest of set operations return equally many columns.     *)
THEOREM SidesAgree == Spec => []SameColumns
<1>1. ASSUME IInv PROVE SameColumns
    <2>1. \A i \in 1..Len(stack) : WellBuilt(stack[i])
        BY <1>1 DEF IInv, Built, Fits
    <2> QED BY <2>1 DEF WellBuilt, SameColumns
<1> QED BY <1>1, Invariant, PTL

-----------------------------------------------------------------------------
(* What SQL's rules show of the constructs around one, which Outside defines *)
(* by recursion, is what the scopes were made of.                            *)
Through(f) == f.kind = "query" /\ f.how \in {"lateral", "exists"}

LEMMA OutsideExists ==
    ASSUME NEW n \in Nat
    PROVE  \E out : out = [i \in 0..n |->
               IF i < 2 THEN {}
               ELSE IF Through(stack[i]) THEN out[i - 1] \cup Items(stack[i - 1])
               ELSE out[i - 1]]
<1> DEFINE Step(out, i) == IF Through(stack[i]) THEN out[i - 1] \cup Items(stack[i - 1])
                            ELSE out[i - 1]
           Builds(m) == \E out : out = [i \in 0..m |-> IF i < 2 THEN {} ELSE Step(out, i)]
           T == {m \in Nat : ~Builds(m)}
<1>1. SUFFICES ASSUME T # {} PROVE FALSE
    OBVIOUS
<1>2. PICK m \in T : \A k \in T : m <= k
    <2> HIDE DEF Builds
    <2> QED BY <1>1, LeastNatural
<1>3. CASE m < 2
    <2> DEFINE g == [i \in 0..m |-> {}]
    <2>1. g = [i \in 0..m |-> IF i < 2 THEN {} ELSE Step(g, i)]
        BY <1>3
    <2> QED BY <1>2, <2>1
<1>4. CASE ~(m < 2)
    <2>1. m - 1 \in Nat /\ m - 1 \notin T /\ m \in Nat
        <3> HIDE DEF Builds
        <3>1. m \in Nat
            OBVIOUS
        <3> QED BY <1>2, <1>4, <3>1
    <2>2. PICK f : f = [i \in 0..(m - 1) |-> IF i < 2 THEN {} ELSE Step(f, i)]
        BY <2>1
    <2> DEFINE g == [i \in 0..m |-> IF i < 2 THEN {} ELSE Step(f, i)]
    <2>3. ASSUME NEW i \in 0..m PROVE g[i] = IF i < 2 THEN {} ELSE Step(g, i)
        <3>1. CASE i < 2
            BY <3>1
        <3>2. CASE ~(i < 2)
            <4>1. i - 1 \in 0..(m - 1) /\ i - 1 \in 0..m
                BY <2>1, <3>2
            <4>2. g[i - 1] = IF i - 1 < 2 THEN {} ELSE Step(f, i - 1)
                BY <4>1
            <4>3. f[i - 1] = IF i - 1 < 2 THEN {} ELSE Step(f, i - 1)
                <5> HIDE DEF Step
                <5> QED BY <2>2, <4>1
            <4> QED BY <3>2, <4>2, <4>3
        <3> QED BY <3>1, <3>2
    <2>4. g = [i \in 0..m |-> IF i < 2 THEN {} ELSE Step(g, i)]
        BY <2>3
    <2> HIDE DEF g
    <2> QED BY <1>2, <2>4
<1> QED BY <1>3, <1>4

LEMMA OutsideIs ==
    ASSUME IInv
    PROVE  \A i \in 0..Len(stack) :
               Outside[i] = IF i < 2 THEN {}
                            ELSE IF Through(stack[i]) THEN Outside[i - 1] \cup Items(stack[i - 1])
                            ELSE Outside[i - 1]
<1>1. Len(stack) \in Nat
    BY DEF IInv, Built
<1>2. \E out : out = [i \in 0..Len(stack) |->
               IF i < 2 THEN {}
               ELSE IF Through(stack[i]) THEN out[i - 1] \cup Items(stack[i - 1])
               ELSE out[i - 1]]
    BY <1>1, OutsideExists
<1>3. Outside = CHOOSE out : out = [i \in 0..Len(stack) |->
               IF i < 2 THEN {}
               ELSE IF Through(stack[i]) THEN out[i - 1] \cup Items(stack[i - 1])
               ELSE out[i - 1]]
    BY DEF Outside, Through
<1>4. Outside = [i \in 0..Len(stack) |->
               IF i < 2 THEN {}
               ELSE IF Through(stack[i]) THEN Outside[i - 1] \cup Items(stack[i - 1])
               ELSE Outside[i - 1]]
    BY <1>2, <1>3
<1> QED BY <1>4

LEMMA ItemsAre ==
    ASSUME NEW f \in Frames
    PROVE  /\ Items(f) = ToSet(Held(f))
           /\ WantsTableRef(f) /\ WellBuilt(f) => Added(f) = <<>>
           /\ HasScope(f) /\ InExpression(f) => Added(f) = Held(f)
           /\ f.kind = "query" => Added(f) = Held(f)
<1>1. Items(f) = ToSet(Held(f))
    <2>1. ToSet(<<>>) = {}
        BY DEF ToSet
    <2>2. f.kind = "join" => ToSet(f.lhs \o f.rhs) = ToSet(f.lhs) \cup ToSet(f.rhs)
        BY AliasesOf, ToSetConcat
    <2> QED BY <2>1, <2>2 DEF Items, Held
<1>2. HasScope(f) /\ InExpression(f) => Added(f) = Held(f)
    <2>1. f.kind = "join" => f.phase \in {"lhs", "rhs", "on"}
        <3>1. f.kind = "join" => f \in JoinFrames
            BY KindOf
        <3> QED BY <3>1 DEF JoinFrames
    <2> QED BY <2>1 DEF HasScope, InExpression, Added
<1>3. WantsTableRef(f) /\ WellBuilt(f) => Added(f) = <<>>
    BY DEF WantsTableRef, WellBuilt, Added, Held
<1>4. f.kind = "query" => Added(f) = Held(f)
    BY DEF Added
<1> QED BY <1>1, <1>2, <1>3, <1>4

(* The i-th construct: its scope, and what it stands in.                    *)
LEMMA StandsAt ==
    ASSUME IInv, NEW i \in 1..Len(stack)
    PROVE  /\ stack[i] \in Frames /\ WellBuilt(stack[i]) /\ InScope(stack[i - 1], stack[i])
           /\ i = 1 => Root(stack[i]) /\ ~Inherits(stack[i])
           /\ i # 1 => /\ i - 1 \in 1..Len(stack) /\ i \in Nat /\ i - 1 < i
                       /\ Linked(stack[i - 1], stack[i])
<1>1. Fits(stack, uid, i - 1, stack[i]) /\ Len(stack) \in Nat
    BY DEF IInv, Built
<1>2. i = 1 => Root(stack[i]) /\ ~Inherits(stack[i])
    <2>1. i = 1 => i - 1 = 0
        OBVIOUS
    <2>2. i = 1 => Root(stack[i])
        BY <1>1, <2>1 DEF Fits, Stands
    <2> QED BY <2>2 DEF Root, Inherits
<1>3. i # 1 => i - 1 \in 1..Len(stack) /\ i \in Nat /\ i - 1 < i /\ i - 1 # 0
    BY <1>1
<1> QED BY <1>1, <1>2, <1>3 DEF Fits, Stands

ScopeIsOutside(i) ==
    IF HasScope(stack[i]) THEN ToSet(stack[i].refs) = Outside[i] \cup ToSet(Added(stack[i]))
    ELSE Outside[i] = {}

LEMMA ScopesAreOutside ==
    ASSUME IInv
    PROVE  \A i \in 1..Len(stack) : ScopeIsOutside(i)
<1> DEFINE T == {i \in 1..Len(stack) : ~ScopeIsOutside(i)}
<1>1. SUFFICES ASSUME T # {} PROVE FALSE
    OBVIOUS
<1>2. PICK i \in T : \A k \in T : i <= k
    <2>1. T \in SUBSET Nat
        OBVIOUS
    <2> HIDE DEF T
    <2> QED BY <1>1, <2>1, LeastNatural
<1>3. i \in 1..Len(stack) /\ i \in 0..Len(stack) /\ i \in Nat
    BY DEF IInv, Built
<1> DEFINE f == stack[i]
           p == stack[i - 1]
<1>4. /\ f \in Frames /\ WellBuilt(f) /\ InScope(p, f)
      /\ i = 1 => Root(f) /\ ~Inherits(f)
      /\ i # 1 => /\ i - 1 \in 1..Len(stack) /\ i \in Nat /\ i - 1 < i
                  /\ Linked(p, f)
    BY <1>3, StandsAt
<1>5. ToSet(<<>>) = {}
    BY DEF ToSet
<1>6. Added(f) \in Seq(Aliases)
    BY <1>4, AliasesOf
<1>7. CASE i = 1
    <2>1. Outside[i] = {}
        <3>1. \A k \in 0..Len(stack) : k < 2 => Outside[k] = {}
            BY OutsideIs, Zenon
        <3>2. i < 2
            BY <1>7
        <3> QED BY <1>3, <3>1, <3>2, Zenon
    <2>2. HasScope(f) => f.refs = <<>> \o Added(f)
        BY <1>4, <1>7 DEF InScope
    <2>3. HasScope(f) => f.refs = Added(f)
        BY <1>6, <2>2, ConcatEmptySeq
    <2>4. ScopeIsOutside(i)
        BY <2>1, <2>3 DEF ScopeIsOutside
    <2> QED BY <1>2, <2>4
<1>8. CASE i # 1
    <2>1. i - 1 \in 1..Len(stack) /\ i - 1 < i /\ Linked(p, f) /\ ~(i < 2)
        BY <1>3, <1>4, <1>8
    <2>2. ScopeIsOutside(i - 1)
        <3>1. ~(i <= i - 1)
            BY <1>3
        <3> QED BY <1>2, <2>1, <3>1
    <2>3. p \in Frames /\ WellBuilt(p)
        BY <2>1, StandsAt
    <2>4. Outside[i] = IF Through(f) THEN Outside[i - 1] \cup Items(p) ELSE Outside[i - 1]
        BY <1>3, <2>1, OutsideIs
    <2>5. IF HasScope(p) THEN ToSet(p.refs) = Outside[i - 1] \cup ToSet(Added(p))
          ELSE Outside[i - 1] = {}
        BY <2>2 DEF ScopeIsOutside
    <2>6. Inherits(f) => HasScope(p) /\ HasScope(f)
        <3> HIDE DEF f, p
        <3> QED BY <2>1 DEF Linked, Inherits, WantsTableRef, HasScope
    <2>7. CASE Inherits(f)
        <3>1. ToSet(p.refs) = Outside[i]
            <4>1. CASE Through(f)
                <5>1. Added(p) = Held(p)
                    <6> HIDE DEF f, p
                    <6>1. p.kind = "query" \/ (HasScope(p) /\ InExpression(p))
                        BY <2>1, <4>1 DEF Linked, Through
                    <6> QED BY <2>3, <6>1, ItemsAre
                <5>2. Items(p) = ToSet(Held(p))
                    BY <2>3, ItemsAre
                <5> QED BY <2>4, <2>5, <2>6, <2>7, <4>1, <5>1, <5>2
            <4>2. CASE ~Through(f)
                <5>1. WantsTableRef(p)
                    <6> HIDE DEF f, p
                    <6> QED BY <2>1, <2>7, <4>2 DEF Linked, Inherits, Through
                <5>2. Added(p) = <<>>
                    BY <2>3, <5>1, ItemsAre
                <5> QED BY <1>5, <2>4, <2>5, <2>6, <2>7, <4>2, <5>2
            <4> QED BY <4>1, <4>2
        <3>2. f.refs = p.refs \o Added(f) /\ p.refs \in Seq(Aliases)
            BY <1>4, <2>3, <2>6, <2>7, AliasesOf DEF InScope
        <3>3. ToSet(f.refs) = ToSet(p.refs) \cup ToSet(Added(f))
            BY <1>6, <3>2, ToSetConcat
        <3>4. ScopeIsOutside(i)
            BY <2>6, <2>7, <3>1, <3>3 DEF ScopeIsOutside
        <3> QED BY <1>2, <3>4
    <2>8. CASE ~Inherits(f)
        <3>1. ~HasScope(p) /\ ~Through(f)
            <4> HIDE DEF f, p
            <4> QED BY <1>4, <2>1, <2>8, KindOf DEF Linked, Inherits, HasScope, Through
        <3>2. Outside[i] = {}
            BY <2>4, <2>5, <3>1
        <3>3. HasScope(f) => f.refs = <<>> \o Added(f)
            BY <1>4, <2>8 DEF InScope
        <3>4. HasScope(f) => f.refs = Added(f)
            BY <1>6, <3>3, ConcatEmptySeq
        <3>5. ScopeIsOutside(i)
            BY <3>2, <3>4 DEF ScopeIsOutside
        <3> QED BY <1>2, <3>5
    <2> QED BY <2>7, <2>8
<1> QED BY <1>7, <1>8

LEMMA WithsAreNames ==
    ASSUME IInv
    PROVE  \A i \in 1..Len(stack) : HasScope(stack[i]) => stack[i].withs \subseteq WithNames(i)
<1> DEFINE T == {i \in 1..Len(stack) :
                   ~(HasScope(stack[i]) => stack[i].withs \subseteq WithNames(i))}
<1>1. SUFFICES ASSUME T # {} PROVE FALSE
    OBVIOUS
<1>2. PICK i \in T : \A k \in T : i <= k
    <2>1. T \in SUBSET Nat
        OBVIOUS
    <2> HIDE DEF T
    <2> QED BY <1>1, <2>1, LeastNatural
<1>3. i \in 1..Len(stack) /\ i \in Nat
    BY DEF IInv, Built
<1> DEFINE f == stack[i]
           p == stack[i - 1]
<1>4. /\ f \in Frames /\ InScope(p, f)
      /\ i = 1 => Root(f) /\ ~Inherits(f)
      /\ i # 1 => /\ i - 1 \in 1..Len(stack) /\ i \in Nat /\ i - 1 < i
                  /\ Linked(p, f)
    BY <1>3, StandsAt
<1>5. HasScope(f) /\ ~(f.withs \subseteq WithNames(i))
    BY <1>2
<1>6. f.withs = IF Inherits(f) THEN p.withs
                ELSE IF f.kind = "query" /\ f.how = "main" THEN ToSet(p.names) ELSE {}
    BY <1>4, <1>5 DEF InScope
<1>7. i # 1
    BY <1>4, <1>5, <1>6 DEF Root
<1>8. i - 1 \in 1..Len(stack) /\ Linked(p, f) /\ ~(i <= i - 1)
    BY <1>3, <1>4, <1>7
<1>9. CASE Inherits(f)
    <2>1. HasScope(p)
        <3> HIDE DEF f, p
        <3> QED BY <1>8, <1>9 DEF Linked, Inherits, WantsTableRef, HasScope
    <2>2. p.withs \subseteq WithNames(i - 1)
        BY <1>2, <1>8, <2>1
    <2>3. WithNames(i - 1) \subseteq WithNames(i)
        <3>1. \A k \in 1..(i - 1 - 1) : k \in 1..(i - 1)
            BY <1>3
        <3> QED BY <3>1 DEF WithNames
    <2> QED BY <1>5, <1>6, <1>9, <2>2, <2>3
<1>10. CASE ~Inherits(f)
    <2>1. f.kind = "query" /\ f.how = "main"
        BY <1>5, <1>6, <1>10
    <2>2. p.kind = "with" /\ p.phase = "main"
        <3> HIDE DEF f, p
        <3> QED BY <1>8, <2>1 DEF Linked
    <2>3. i - 1 \in 1..(i - 1)
        BY <1>3, <1>8
    <2>4. ToSet(p.names) \subseteq WithNames(i)
        BY <2>2, <2>3 DEF WithNames
    <2> QED BY <1>5, <1>6, <1>10, <2>1, <2>4
<1> QED BY <1>9, <1>10

(* Where an expression is generated, the aliases it picks from are exactly  *)
(* those that SQL's rules show there.                                        *)
LEMMA ScopesAreVisible ==
    ASSUME IInv, NEW i \in 1..Len(stack), HasScope(stack[i]), InExpression(stack[i])
    PROVE  ToSet(stack[i].refs) = Visible(i)
<1>1. ScopeIsOutside(i)
    BY ScopesAreOutside
<1>2. stack[i] \in Frames
    BY StandsAt
<1>3. Items(stack[i]) = ToSet(Held(stack[i])) /\ Added(stack[i]) = Held(stack[i])
    BY <1>2, ItemsAre
<1> QED BY <1>1, <1>3 DEF ScopeIsOutside, Visible

(* An expression names nothing that is not visible where it stands.         *)
THEOREM ScopesSound == Spec => []NamesVisible
<1>1. ASSUME IInv PROVE NamesVisible
    BY <1>1, ScopesAreVisible, WithsAreNames DEF NamesVisible
<1> QED BY <1>1, Invariant, PTL

(* And all that is visible there can be named.                              *)
THEOREM ScopesComplete == Spec => []VisibleNamed
<1>1. ASSUME IInv PROVE VisibleNamed
    BY <1>1, ScopesAreVisible DEF VisibleNamed
<1> QED BY <1>1, Invariant, PTL
=============================================================================
