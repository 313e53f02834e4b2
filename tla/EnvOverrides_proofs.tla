------------------------- MODULE EnvOverrides_proofs -------------------------
(***************************************************************************)
(* What one variable does to the groups, and what a pass over all of them  *)
(* keeps.                                                                  *)
(***************************************************************************)
EXTENDS EnvOverrides, SequenceTheorems, WellFoundedInduction, TLAPS

-----------------------------------------------------------------------------
(***************************************************************************)
(* Names.                                                                  *)
(***************************************************************************)

\* An interval determines its end.
LEMMA SameInterval ==
  ASSUME NEW a \in Nat, NEW b \in Nat, 1..a = 1..b
  PROVE  a = b
<1>1. ASSUME a < b PROVE FALSE
  <2>1. b \in 1..b /\ b \notin 1..a
    BY <1>1
  <2> QED  BY <2>1
<1>2. ASSUME b < a PROVE FALSE
  <2>1. a \in 1..a /\ a \notin 1..b
    BY <1>2
  <2> QED  BY <2>1
<1> QED  BY <1>1, <1>2

\* The comparison of the code, letter by letter, is equality in lower case.
LEMMA EqIsSameGroup ==
  ASSUME NEW m \in Names, NEW n \in Names
  PROVE  eq_ignore_ascii_case(m, n) <=> SameGroup(m, n)
<1>1. /\ Len(m) \in Nat /\ DOMAIN m = 1..Len(m)
      /\ Len(n) \in Nat /\ DOMAIN n = 1..Len(n)
  BY DEF Names
<1>2. ASSUME eq_ignore_ascii_case(m, n) PROVE SameGroup(m, n)
  BY <1>1, <1>2 DEF eq_ignore_ascii_case, SameGroup, InLowerCase
<1>3. ASSUME SameGroup(m, n) PROVE eq_ignore_ascii_case(m, n)
  <2>1. 1..Len(m) = 1..Len(n)
    BY <1>1, <1>3 DEF SameGroup, InLowerCase
  <2>2. Len(m) = Len(n)
    BY <1>1, <2>1, SameInterval
  <2>3. \A k \in 1..Len(m) : InLowerCase(m)[k] = InLowerCase(n)[k]
    BY <1>3 DEF SameGroup
  <2> QED  BY <1>1, <2>1, <2>2, <2>3 DEF eq_ignore_ascii_case, InLowerCase
<1> QED  BY <1>2, <1>3

\* A group's name followed by a known field ends in that field and in no other,
\* since no field ends in another.
LEMMA OneField ==
  ASSUME NEW g \in Names, NEW f \in GroupFields
  PROVE  FieldsOf(g \o f) = {f}
<1>1. f \in Names
  BY OverridesAssumption
<1>2. /\ Len(g \o f) = Len(g) + Len(f) /\ Len(g) \in Nat \ {0} /\ Len(f) \in Nat
      /\ \A k \in 1..Len(f) : (g \o f)[Len(g) + k] = f[k]
  <2>1. g \in Seq(Words) /\ f \in Seq(Words) /\ g # <<>>
    BY <1>1 DEF Names
  <2>2. Len(g) # 0
    BY <2>1, EmptySeq
  <2> QED  BY <2>1, <2>2, ConcatProperties, LenProperties
<1>3. Ends(g \o f, f)
  BY <1>2 DEF Ends
<1>4. ASSUME NEW h \in GroupFields, Ends(g \o f, h) PROVE h = f
  <2>1. h \in Seq(Words) /\ f \in Seq(Words)
    BY OverridesAssumption DEF Names
  <2>2. Len(h) \in Nat
    BY <2>1
  <2>3. \A k \in 1..Len(h) : h[k] = (g \o f)[Len(g) + Len(f) - Len(h) + k]
    BY <1>2, <1>4 DEF Ends
  <2>4. ASSUME Len(h) < Len(f) PROVE FALSE
    <3>1. \A k \in 1..Len(h) : h[k] = f[Len(f) - Len(h) + k]
      <4> TAKE k \in 1..Len(h)
      <4>1. Len(f) - Len(h) + k \in 1..Len(f)
        BY <1>2, <2>2, <2>4
      <4>2. Len(g) + (Len(f) - Len(h) + k) = Len(g) + Len(f) - Len(h) + k
        BY <1>2, <2>2
      <4> QED  BY <1>2, <2>3, <4>1, <4>2
    <3>2. Ends(f, h)
      BY <2>4, <3>1 DEF Ends
    <3> QED  BY <3>2, OverridesAssumption
  <2>5. ASSUME Len(f) < Len(h) PROVE FALSE
    <3>1. \A k \in 1..Len(f) : f[k] = h[Len(h) - Len(f) + k]
      <4> TAKE k \in 1..Len(f)
      <4>1. Len(h) - Len(f) + k \in 1..Len(h)
        BY <1>2, <2>2, <2>5
      <4>2. Len(g) + Len(f) - Len(h) + (Len(h) - Len(f) + k) = Len(g) + k
        BY <1>2, <2>2
      <4> QED  BY <1>2, <2>3, <4>1, <4>2
    <3>2. Ends(h, f)
      BY <2>5, <3>1 DEF Ends
    <3> QED  BY <3>2, OverridesAssumption
  <2>6. Len(h) = Len(f)
    BY <1>2, <2>2, <2>4, <2>5
  <2>7. \A k \in 1..Len(h) : h[k] = f[k]
    <3> TAKE k \in 1..Len(h)
    <3>1. Len(g) + Len(f) - Len(h) + k = Len(g) + k
      BY <1>2, <2>6
    <3> QED  BY <1>2, <2>3, <2>6, <3>1
  <2> QED  BY <2>1, <2>6, <2>7, SeqEqual
<1> QED  BY <1>3, <1>4 DEF FieldsOf

\* What is cut off a name in front of its last part.
LEMMA PrefixOfConcat ==
  ASSUME NEW g \in Seq(Words), NEW f \in Seq(Words)
  PROVE  SubSeq(g \o f, 1, Len(g)) = g
<1> DEFINE n == g \o f
<1>1. Len(g) \in Nat /\ Len(f) \in Nat /\ \A i \in 1..Len(g) : g[i] \in Words
  BY ElementOfSeq
<1>2. \A i \in 1..(Len(g) + Len(f)) : n[i] = IF i <= Len(g) THEN g[i] ELSE f[i - Len(g)]
  BY ConcatProperties
<1> HIDE DEF n
<1>3. \A i \in 1..Len(g) : n[i] = g[i]
  <2> TAKE i \in 1..Len(g)
  <2>1. i \in 1..(Len(g) + Len(f)) /\ i <= Len(g)
    BY <1>1
  <2> QED  BY <1>2, <2>1
<1>4. \A i \in 1..Len(g) : n[i] \in Words
  BY <1>1, <1>3
<1>5. /\ SubSeq(n, 1, Len(g)) \in Seq(Words)
      /\ Len(SubSeq(n, 1, Len(g))) = IF 1 <= Len(g) THEN Len(g) - 1 + 1 ELSE 0
      /\ \A i \in 1..(Len(g) - 1 + 1) : SubSeq(n, 1, Len(g))[i] = n[1 + i - 1]
  <2>1. 1 \in Int /\ Len(g) \in Int
    BY <1>1
  <2> QED  BY <1>4, <2>1, SubSeqProperties
<1>6. Len(SubSeq(n, 1, Len(g))) = Len(g)
  BY <1>1, <1>5
<1>7. \A i \in 1..Len(SubSeq(n, 1, Len(g))) : SubSeq(n, 1, Len(g))[i] = g[i]
  <2> TAKE i \in 1..Len(SubSeq(n, 1, Len(g)))
  <2>1. i \in 1..(Len(g) - 1 + 1) /\ i \in 1..Len(g) /\ 1 + i - 1 = i
    BY <1>1, <1>6
  <2> QED  BY <1>3, <1>5, <2>1
<1>8. SubSeq(n, 1, Len(g)) = g
  BY <1>5, <1>6, <1>7, SeqEqual
<1> QED  BY <1>8 DEF n

\* So the code takes a name apart into what it was made of.
LEMMA SplitIsInverse ==
  ASSUME NEW v \in Variables, v.field \in GroupFields
  PROVE  split_group_var(Name(v)) = {[group |-> v.group, field |-> v.field]}
<1>0. v.group \in Seq(Words) /\ v.group # <<>> /\ v.field \in Seq(Words)
  BY DEF Variables, Names
<1>1. FieldsOf(Name(v)) = {v.field}
  BY OneField DEF Variables, Name
<1>2. Longest({v.field}) = v.field
  <2>1. Len(v.field) <= Len(v.field)
    BY <1>0
  <2> QED  BY <2>1 DEF Longest
<1>3. Len(Name(v)) - Len(v.field) = Len(v.group)
  BY <1>0, ConcatProperties, LenProperties DEF Name
<1>4. SubSeq(Name(v), 1, Len(v.group)) = v.group
  BY <1>0, PrefixOfConcat DEF Name
<1> QED  BY <1>1, <1>2, <1>3, <1>4 DEF split_group_var

-----------------------------------------------------------------------------
(***************************************************************************)
(* Groups.                                                                 *)
(***************************************************************************)
IsFirst(gs, k, name) ==
  /\ k \in DOMAIN gs
  /\ SameGroup(gs[k].name, name)
  /\ \A j \in 1..(k - 1) : ~SameGroup(gs[j].name, name)

\* To be spelt the same, but for case, is an equivalence.
LEMMA SameGroupIsEquivalence ==
  /\ \A m, n : SameGroup(m, n) <=> SameGroup(n, m)
  /\ \A l, m, n : SameGroup(l, m) /\ SameGroup(m, n) => SameGroup(l, n)
  /\ \A n : SameGroup(n, n)
BY DEF SameGroup

\* A set of indices that is not empty has a least one.
LEMMA LeastIndex ==
  ASSUME NEW T \in SUBSET Nat, T # {}
  PROVE  \E k \in T : \A j \in T : k <= j
<1> DEFINE R == OpToRel(<, Nat)
<1>1. PICK k \in T : \A j \in T : <<j, k>> \notin R
  <2>1. IsWellFoundedOn(R, Nat)
    BY NatLessThanWellFounded
  <2> HIDE DEF R
  <2> QED  BY <2>1, WFMin
<1>2. \A j \in T : ~(j < k)
  BY <1>1 DEF OpToRel
<1> QED  BY <1>2

\* position() finds the first group of the name, if there is one.
LEMMA PositionIsFirst ==
  ASSUME NEW gs \in Seq(Groups), NEW name \in Names,
         \E k \in DOMAIN gs : SameGroup(gs[k].name, name)
  PROVE  IsFirst(gs, Position(gs, name), name)
<1> DEFINE at == {k \in DOMAIN gs : eq_ignore_ascii_case(gs[k].name, name)}
<1>1. DOMAIN gs = 1..Len(gs) /\ Len(gs) \in Nat /\ \A k \in DOMAIN gs : gs[k].name \in Names
  <2>1. DOMAIN gs = 1..Len(gs) /\ Len(gs) \in Nat
    BY LenProperties
  <2>2. \A k \in DOMAIN gs : gs[k] \in Groups
    BY <2>1, ElementOfSeq
  <2> QED  BY <2>1, <2>2 DEF Groups
<1>2. \A k \in DOMAIN gs : k \in at <=> SameGroup(gs[k].name, name)
  BY <1>1, EqIsSameGroup
<1>3. at \in SUBSET Nat /\ at # {}
  BY <1>1, <1>2
<1>4. \E k \in at : \A j \in at : k <= j
  <2> HIDE DEF at
  <2> QED  BY <1>3, LeastIndex
<1>5. Position(gs, name) \in at /\ \A j \in at : Position(gs, name) <= j
  BY <1>4 DEF Position
<1>6. Position(gs, name) \in DOMAIN gs
  BY <1>5
<1>7. \A j \in 1..(Position(gs, name) - 1) : ~SameGroup(gs[j].name, name)
  <2> TAKE j \in 1..(Position(gs, name) - 1)
  <2>1. j \in DOMAIN gs /\ ~(Position(gs, name) <= j)
    BY <1>1, <1>6
  <2> QED  BY <1>2, <1>5, <2>1
<1> QED  BY <1>2, <1>5, <1>6, <1>7 DEF IsFirst

\* There is one first group of a name.
LEMMA FirstIsUnique ==
  ASSUME NEW gs \in Seq(Groups), NEW name,
         NEW j, NEW k, IsFirst(gs, j, name), IsFirst(gs, k, name)
  PROVE  j = k
<1>1. j \in 1..Len(gs) /\ k \in 1..Len(gs) /\ Len(gs) \in Nat
  BY DEF IsFirst
<1> QED  BY <1>1 DEF IsFirst

\* The list with the variable's group: as it was, or longer by one group that
\* has the name of no other.
LEMMA WithGroupEffect ==
  ASSUME NEW gs \in Seq(Groups), NEW name \in Names
  PROVE  LET with == WithGroup(gs, name) IN
         /\ with \in Seq(Groups)
         /\ Len(gs) <= Len(with)
         /\ (\E j \in DOMAIN gs : SameGroup(gs[j].name, name)) => Len(with) = Len(gs)
         /\ \A j \in 1..Len(gs) : with[j] = gs[j]
         /\ \E k \in DOMAIN with : SameGroup(with[k].name, name)
         /\ \A j \in 1..Len(with) : j > Len(gs) =>
              \A i \in 1..(j - 1) : ~SameGroup(with[i].name, with[j].name)
<1>0. /\ Len(gs) \in Nat /\ DOMAIN gs = 1..Len(gs)
      /\ \A k \in 1..Len(gs) : gs[k] \in Groups /\ gs[k].name \in Names
  <2>1. Len(gs) \in Nat /\ DOMAIN gs = 1..Len(gs)
    BY LenProperties
  <2>2. \A k \in 1..Len(gs) : gs[k] \in Groups
    BY <2>1, ElementOfSeq
  <2> QED  BY <2>1, <2>2 DEF Groups
<1>1. \A k \in 1..Len(gs) :
        eq_ignore_ascii_case(gs[k].name, name) <=> SameGroup(gs[k].name, name)
  BY <1>0, EqIsSameGroup
<1>2. CASE \E k \in DOMAIN gs : eq_ignore_ascii_case(gs[k].name, name)
  <2>1. WithGroup(gs, name) = gs
    BY <1>2 DEF WithGroup
  <2>2. \E k \in DOMAIN gs : SameGroup(gs[k].name, name)
    BY <1>0, <1>1, <1>2
  <2>3. \A j \in 1..Len(gs) : ~(j > Len(gs))
    BY <1>0
  <2> QED  BY <1>0, <2>1, <2>2, <2>3
<1>3. CASE ~\E k \in DOMAIN gs : eq_ignore_ascii_case(gs[k].name, name)
  <2> DEFINE new == [name |-> name, fields |-> DefaultFields]
             with == Append(gs, new)
  <2>1. WithGroup(gs, name) = with
    BY <1>3 DEF WithGroup
  <2>2. new \in Groups /\ new.name = name
    BY OverridesAssumption DEF Groups
  <2> HIDE DEF new
  <2>3. /\ with \in Seq(Groups) /\ Len(with) = Len(gs) + 1
        /\ \A j \in 1..Len(gs) : with[j] = gs[j]
        /\ with[Len(gs) + 1] = new
    BY <2>2, AppendProperties
  <2>4. DOMAIN with = 1..(Len(gs) + 1) /\ Len(gs) + 1 \in DOMAIN with
    BY <1>0, <2>3, LenProperties
  <2> HIDE DEF with
  <2>5. SameGroup(with[Len(gs) + 1].name, name)
    BY <2>2, <2>3, SameGroupIsEquivalence
  <2>6. \A j \in 1..Len(with) : j > Len(gs) =>
          \A i \in 1..(j - 1) : ~SameGroup(with[i].name, with[j].name)
    <3> SUFFICES ASSUME NEW j \in 1..Len(with), j > Len(gs), NEW i \in 1..(j - 1)
                 PROVE  ~SameGroup(with[i].name, with[j].name)
      OBVIOUS
    <3>1. j = Len(gs) + 1 /\ i \in 1..Len(gs)
      BY <1>0, <2>3
    <3>2. with[i] = gs[i] /\ with[j].name = name
      BY <2>2, <2>3, <3>1
    <3>3. ~SameGroup(gs[i].name, name)
      BY <1>0, <1>1, <1>3, <3>1
    <3> QED  BY <3>2, <3>3
  <2>7. ~\E j \in DOMAIN gs : SameGroup(gs[j].name, name)
    BY <1>0, <1>1, <1>3
  <2>8. Len(gs) <= Len(with)
    BY <1>0, <2>3
  <2>9. \E k \in DOMAIN with : SameGroup(with[k].name, name)
    BY <2>4, <2>5
  <2> QED  BY <2>1, <2>3, <2>6, <2>7, <2>8, <2>9
<1> QED  BY <1>2, <1>3

\* What the code does with a SET_GROUP_ variable that it knows.
Effect(gs, out, v, k) ==
  /\ out \in Seq(Groups)
  /\ Len(gs) <= Len(out)
  /\ (\E j \in DOMAIN gs : SameGroup(gs[j].name, v.group)) => Len(out) = Len(gs)
  /\ IsFirst(out, k, v.group)
  /\ \A j \in 1..Len(gs) : out[j].name = gs[j].name
  /\ \A j \in 1..Len(gs) : \A f \in GroupFields :
       (j = k /\ f = v.field /\ Sets(v)) \/ out[j].fields[f] = gs[j].fields[f]
  /\ Sets(v) => out[k].fields[v.field] = v.text
  /\ \A j \in 1..Len(out) : j > Len(gs) =>
       \A i \in 1..(j - 1) : ~SameGroup(out[i].name, out[j].name)

\* A variable with a known field changes that one field of one group, which it may
\* have to make.
LEMMA OverriddenEffect ==
  ASSUME NEW gs \in Seq(Groups), NEW v \in Variables, v.field \in GroupFields
  PROVE  \E k : Effect(gs, Overridden(gs, v), v, k)
<1> DEFINE with == WithGroup(gs, v.group)
           k == Position(with, v.group)
           out == SetField(with, k, v.field, v.text)
<1>0. v.group \in Names /\ v.text \in Texts
  BY DEF Variables
<1>1. Overridden(gs, v) = out
  <2>1. split_group_var(Name(v)) = {[group |-> v.group, field |-> v.field]}
    BY SplitIsInverse
  <2>2. (CHOOSE s \in split_group_var(Name(v)) : TRUE)
          = [group |-> v.group, field |-> v.field]
    BY <2>1
  <2> QED  BY <2>1, <2>2 DEF Overridden
<1>2. /\ with \in Seq(Groups)
      /\ Len(gs) <= Len(with)
      /\ (\E j \in DOMAIN gs : SameGroup(gs[j].name, v.group)) => Len(with) = Len(gs)
      /\ \A j \in 1..Len(gs) : with[j] = gs[j]
      /\ \E j \in DOMAIN with : SameGroup(with[j].name, v.group)
      /\ \A j \in 1..Len(with) : j > Len(gs) =>
           \A i \in 1..(j - 1) : ~SameGroup(with[i].name, with[j].name)
  BY <1>0, WithGroupEffect
<1> HIDE DEF with
<1>3. IsFirst(with, k, v.group)
  BY <1>0, <1>2, PositionIsFirst
<1>4. /\ Len(gs) \in Nat /\ Len(with) \in Nat /\ DOMAIN with = 1..Len(with)
      /\ k \in 1..Len(with)
  <2>1. Len(gs) \in Nat /\ Len(with) \in Nat /\ DOMAIN with = 1..Len(with)
    BY <1>2, LenProperties
  <2> QED  BY <1>3, <2>1 DEF IsFirst
<1> HIDE DEF k
<1>5. \A j \in 1..Len(with) : with[j] \in Groups
  BY <1>2, ElementOfSeq
<1> DEFINE value == parse_or_keep(v.field, v.text, with[k].fields[v.field])
           group == [with[k] EXCEPT !.fields = [@ EXCEPT ![v.field] = value]]
<1>6. out = [with EXCEPT ![k] = group]
  BY DEF SetField
<1>7. value \in Texts /\ value \in Parses[v.field] /\ (Sets(v) => value = v.text)
      /\ (~Sets(v) => value = with[k].fields[v.field])
  <2>1. with[k] \in Groups
    BY <1>4, <1>5
  <2>2. /\ with[k].fields[v.field] \in Texts
        /\ with[k].fields[v.field] \in Parses[v.field]
    BY <2>1 DEF Groups, FieldValues
  <2> QED  BY <1>0, <2>2 DEF parse_or_keep, Sets
<1> HIDE DEF value
<1>8. /\ group \in Groups
      /\ group.name = with[k].name
      /\ group.fields[v.field] = value
      /\ \A f \in GroupFields : f # v.field => group.fields[f] = with[k].fields[f]
  <2>1. with[k] \in Groups
    BY <1>4, <1>5
  <2>2. with[k].fields \in FieldValues /\ with[k].name \in Names
    BY <2>1 DEF Groups
  <2>3. [with[k].fields EXCEPT ![v.field] = value] \in FieldValues
    BY <1>7, <2>2 DEF FieldValues
  <2> QED  BY <2>1, <2>2, <2>3 DEF Groups, FieldValues
<1> HIDE DEF group, out
<1>9. /\ out \in Seq(Groups) /\ Len(out) = Len(with)
      /\ out[k] = group /\ \A j \in 1..Len(with) : j # k => out[j] = with[j]
  <2>1. out \in [1..Len(with) -> Groups]
    BY <1>2, <1>4, <1>5, <1>6, <1>8
  <2>2. out \in Seq(Groups) /\ DOMAIN out = 1..Len(with)
    BY <1>4, <2>1, IsASeq
  <2>3. Len(out) = Len(with)
    BY <1>4, <2>2, SameInterval, LenProperties
  <2> QED  BY <1>4, <1>6, <2>2, <2>3
<1>10. \A j \in 1..Len(with) : out[j].name = with[j].name
  BY <1>8, <1>9
<1>11. IsFirst(out, k, v.group)
  <2>1. DOMAIN out = 1..Len(with)
    BY <1>9, LenProperties
  <2>2. \A j \in 1..(k - 1) : j \in 1..Len(with)
    BY <1>4
  <2> QED  BY <1>3, <1>4, <1>10, <2>1, <2>2 DEF IsFirst
<1>12. \A j \in 1..Len(gs) : j \in 1..Len(with)
  BY <1>2, <1>4
<1>13. \A j \in 1..Len(gs) : out[j].name = gs[j].name
  BY <1>2, <1>10, <1>12
<1>14. \A j \in 1..Len(gs) : \A f \in GroupFields :
         (j = k /\ f = v.field /\ Sets(v)) \/ out[j].fields[f] = gs[j].fields[f]
  BY <1>2, <1>7, <1>8, <1>9, <1>12
<1>15. Sets(v) => out[k].fields[v.field] = v.text
  BY <1>7, <1>8, <1>9
<1>16. \A j \in 1..Len(out) : j > Len(gs) =>
         \A i \in 1..(j - 1) : ~SameGroup(out[i].name, out[j].name)
  <2> SUFFICES ASSUME NEW j \in 1..Len(out), j > Len(gs), NEW i \in 1..(j - 1)
               PROVE  ~SameGroup(out[i].name, out[j].name)
    OBVIOUS
  <2>1. j \in 1..Len(with) /\ i \in 1..Len(with)
    BY <1>4, <1>9
  <2> QED  BY <1>2, <1>10, <2>1
<1>17. Effect(gs, out, v, k)
  BY <1>2, <1>9, <1>11, <1>13, <1>14, <1>15, <1>16 DEF Effect
<1> QED  BY <1>1, <1>17

\* A variable that ends in no known field changes nothing.
LEMMA OtherVariables ==
  ASSUME NEW gs, NEW v \in Variables, v.field \notin GroupFields
  PROVE  Overridden(gs, v) = gs /\ ~Sets(v)
BY DEF Variables, Overridden, split_group_var, Sets

-----------------------------------------------------------------------------
(***************************************************************************)
(* The pass.                                                               *)
(***************************************************************************)
HasGroup(gs, v) == \E k \in DOMAIN gs : SameGroup(gs[k].name, v.group)

\* Every variable so far that the code knows has its group; if the config had
\* them all before, none was made; and a field that has changed was set in the
\* first group of its name.
GroupsAreThere ==
  \A i \in 1..seen : environ[i].field \in GroupFields => HasGroup(groups, environ[i])

NoneIsNew ==
  (\A i \in 1..seen : environ[i].field \in GroupFields => HasGroup(found, environ[i]))
  => Len(groups) = Len(found)

NamesStay ==
  /\ Len(found) <= Len(groups)
  /\ \A k \in 1..Len(found) : groups[k].name = found[k].name

FieldsAreSet ==
  \A k \in 1..Len(found) : \A f \in GroupFields :
    groups[k].fields[f] = found[k].fields[f]
    \/ \E i \in 1..seen : /\ Sets(environ[i]) /\ environ[i].field = f
                          /\ IsFirst(groups, k, environ[i].group)

PassInv ==
  /\ EnvTypeOK
  /\ VariablesWin
  /\ NoTwinGroups
  /\ GroupsAreThere
  /\ NoneIsNew
  /\ NamesStay
  /\ FieldsAreSet

\* A pass begins with every claim about it true.
LEMMA BeginPassInv ==
  ASSUME environ \in Seq(Variables), NEW gs \in Seq(Groups), BeginPass(gs)
  PROVE  PassInv'
<1>1. Len(environ) \in Nat /\ Len(gs) \in Nat /\ DOMAIN gs = 1..Len(gs)
  BY LenProperties
<1>2. \A i \in 1..0 : FALSE
  OBVIOUS
<1>3. EnvTypeOK'
  BY <1>1 DEF BeginPass, EnvTypeOK
<1>4. VariablesWin'
  BY <1>2 DEF BeginPass, VariablesWin
<1>5. NoTwinGroups'
  BY <1>1 DEF BeginPass, NoTwinGroups
<1>6. GroupsAreThere' /\ FieldsAreSet'
  BY <1>2 DEF BeginPass, GroupsAreThere, FieldsAreSet
<1>7. NoneIsNew' /\ NamesStay'
  BY <1>1 DEF BeginPass, NoneIsNew, NamesStay
<1> QED  BY <1>3, <1>4, <1>5, <1>6, <1>7 DEF PassInv

\* So does the process that has no config in memory.
LEMMA EndPassInv ==
  ASSUME environ' \in Seq(Variables), groups' = <<>>, found' = <<>>, seen' = 0
  PROVE  PassInv'
<1>1. Len(environ') \in Nat /\ <<>> \in Seq(Groups) /\ Len(<<>>) = 0 /\ DOMAIN <<>> = {}
  BY LenProperties
<1>2. \A i \in 1..0 : FALSE
  OBVIOUS
<1>3. EnvTypeOK'
  BY <1>1 DEF EnvTypeOK
<1>4. VariablesWin'
  BY <1>2 DEF VariablesWin
<1>5. NoTwinGroups'
  BY <1>1 DEF NoTwinGroups
<1>6. GroupsAreThere' /\ FieldsAreSet'
  BY <1>2 DEF GroupsAreThere, FieldsAreSet
<1>7. NoneIsNew' /\ NamesStay'
  BY <1>1 DEF NoneIsNew, NamesStay
<1> QED  BY <1>3, <1>4, <1>5, <1>6, <1>7 DEF PassInv

\* One more variable keeps them.
LEMMA ApplyPassInv ==
  ASSUME PassInv, Apply
  PROVE  PassInv'
<1> DEFINE v == environ[seen + 1]
<1>0. /\ environ \in Seq(Variables) /\ groups \in Seq(Groups) /\ found \in Seq(Groups)
      /\ seen \in Nat /\ seen' = seen + 1 /\ seen + 1 \in 1..Len(environ)
      /\ environ' = environ /\ found' = found
      /\ groups' = Overridden(groups, v)
      /\ Len(groups) \in Nat /\ Len(found) \in Nat /\ Len(environ) \in Nat
      /\ DOMAIN groups = 1..Len(groups) /\ DOMAIN found = 1..Len(found)
  <2>1. environ \in Seq(Variables) /\ groups \in Seq(Groups) /\ found \in Seq(Groups)
    BY DEF PassInv, EnvTypeOK
  <2>2. /\ Len(groups) \in Nat /\ Len(found) \in Nat /\ Len(environ) \in Nat
        /\ DOMAIN groups = 1..Len(groups) /\ DOMAIN found = 1..Len(found)
    BY <2>1, LenProperties
  <2>3. seen \in Nat /\ seen < Len(environ)
    BY <2>2 DEF PassInv, EnvTypeOK, Apply
  <2> QED  BY <2>1, <2>2, <2>3 DEF Apply
<1>1. v \in Variables
  BY <1>0, ElementOfSeq
<1>2. \A i \in 1..(seen + 1) : i \in 1..seen \/ i = seen + 1
  BY <1>0
<1>3. CASE v.field \notin GroupFields
  <2>1. groups' = groups /\ ~Sets(v)
    BY <1>0, <1>1, <1>3, OtherVariables
  <2>2. EnvTypeOK'
    BY <1>0, <2>1 DEF PassInv, EnvTypeOK
  <2>3. VariablesWin'
    <3> SUFFICES ASSUME NEW i \in 1..(seen + 1) PROVE Wins(groups, seen + 1, i)
      BY <1>0, <2>1 DEF VariablesWin, Wins
    <3>1. CASE i = seen + 1
      BY <2>1, <3>1 DEF Wins
    <3>2. CASE i \in 1..seen
      <4>1. Wins(groups, seen, i)
        BY <3>2 DEF PassInv, VariablesWin
      <4>2. \A j \in (i + 1)..seen : j \in (i + 1)..(seen + 1)
        BY <1>0
      <4> QED  BY <4>1, <4>2 DEF Wins
    <3> QED  BY <1>2, <3>1, <3>2
  <2>4. NoTwinGroups'
    BY <1>0, <2>1 DEF PassInv, NoTwinGroups
  <2>5. \A i \in 1..seen : i \in 1..(seen + 1)
    BY <1>0
  <2>6. GroupsAreThere'
    BY <1>0, <1>2, <1>3, <2>1 DEF PassInv, GroupsAreThere, HasGroup
  <2>7. NoneIsNew'
    BY <1>0, <2>1, <2>5 DEF PassInv, NoneIsNew, HasGroup
  <2>8. NamesStay'
    BY <1>0, <2>1 DEF PassInv, NamesStay
  <2>9. FieldsAreSet'
    BY <1>0, <2>1, <2>5 DEF PassInv, FieldsAreSet, IsFirst
  <2> QED  BY <2>2, <2>3, <2>4, <2>6, <2>7, <2>8, <2>9 DEF PassInv
<1>4. CASE v.field \in GroupFields
  <2>1. PICK k : Effect(groups, groups', v, k)
    BY <1>0, <1>1, <1>4, OverriddenEffect
  <2> DEFINE out == groups'
  <2>2. /\ out \in Seq(Groups) /\ Len(out) \in Nat /\ DOMAIN out = 1..Len(out)
        /\ Len(groups) <= Len(out)
        /\ \A j \in 1..Len(groups) : j \in 1..Len(out) /\ out[j].name = groups[j].name
        /\ IsFirst(out, k, v.group)
    <3>1. out \in Seq(Groups)
      BY <2>1 DEF Effect
    <3>2. Len(out) \in Nat /\ DOMAIN out = 1..Len(out)
      BY <3>1, LenProperties
    <3> QED  BY <1>0, <2>1, <3>1, <3>2 DEF Effect
  <2>3. \A j, n : IsFirst(groups, j, n) => IsFirst(out, j, n)
    <3> SUFFICES ASSUME NEW j, NEW n, IsFirst(groups, j, n) PROVE IsFirst(out, j, n)
      OBVIOUS
    <3>1. j \in 1..Len(groups) /\ \A i \in 1..(j - 1) : i \in 1..Len(groups)
      BY <1>0 DEF IsFirst
    <3> QED  BY <2>2, <3>1 DEF IsFirst
  <2>4. EnvTypeOK'
    BY <1>0, <2>2 DEF EnvTypeOK
  <2>5. VariablesWin'
    <3> SUFFICES ASSUME NEW i \in 1..(seen + 1),
                        Sets(environ[i]),
                        \A j \in (i + 1)..(seen + 1) :
                          ~(Sets(environ[j]) /\ SetSame(environ[j], environ[i]))
                 PROVE  \E j : IsFirst(out, j, environ[i].group)
                                /\ out[j].fields[environ[i].field] = environ[i].text
      BY <1>0 DEF VariablesWin, Wins, IsFirst
    <3>1. CASE i = seen + 1
      BY <2>1, <2>2, <3>1 DEF Effect
    <3>2. CASE i \in 1..seen
      <4>1. Wins(groups, seen, i)
        BY <3>2 DEF PassInv, VariablesWin
      <4>2. \A j \in (i + 1)..seen : j \in (i + 1)..(seen + 1)
        BY <1>0
      <4>3. PICK j : IsFirst(groups, j, environ[i].group)
                     /\ groups[j].fields[environ[i].field] = environ[i].text
        BY <4>1, <4>2 DEF Wins, IsFirst
      <4>4. environ[i].field \in GroupFields
        BY DEF Sets
      <4>5. j \in 1..Len(groups)
        BY <1>0, <4>3 DEF IsFirst
      <4>6. IsFirst(out, j, environ[i].group)
        BY <2>3, <4>3
      <4>7. ASSUME j = k, environ[i].field = v.field, Sets(v) PROVE FALSE
        <5>1. SameGroup(v.group, environ[i].group)
          BY <2>2, <4>6, <4>7, SameGroupIsEquivalence DEF IsFirst
        <5>2. seen + 1 \in (i + 1)..(seen + 1)
          BY <1>0, <3>2
        <5> QED  BY <4>7, <5>1, <5>2 DEF SetSame
      <4>8. out[j].fields[environ[i].field] = groups[j].fields[environ[i].field]
        BY <2>1, <4>4, <4>5, <4>7 DEF Effect
      <4> QED  BY <4>3, <4>6, <4>8
    <3> QED  BY <1>2, <3>1, <3>2
  <2>6. NoTwinGroups'
    <3> SUFFICES ASSUME NEW j \in 1..Len(out), j > Len(found), NEW i \in 1..(j - 1)
                 PROVE  ~SameGroup(out[i].name, out[j].name)
      BY <1>0, <2>2 DEF NoTwinGroups
    <3>1. CASE j > Len(groups)
      BY <2>1, <3>1 DEF Effect
    <3>2. CASE ~(j > Len(groups))
      <4>1. j \in 1..Len(groups) /\ i \in 1..Len(groups)
        BY <1>0, <2>2, <3>2
      <4>2. ~SameGroup(groups[i].name, groups[j].name)
        BY <1>0, <4>1 DEF PassInv, NoTwinGroups
      <4> QED  BY <2>2, <4>1, <4>2
    <3> QED  BY <3>1, <3>2
  <2>7. \A i \in 1..(seen + 1) : environ[i].field \in GroupFields => HasGroup(out, environ[i])
    <3> SUFFICES ASSUME NEW i \in 1..(seen + 1), environ[i].field \in GroupFields
                 PROVE  HasGroup(out, environ[i])
      OBVIOUS
    <3>1. CASE i = seen + 1
      BY <2>2, <3>1 DEF HasGroup, IsFirst
    <3>2. CASE i \in 1..seen
      <4>1. HasGroup(groups, environ[i])
        BY <3>2 DEF PassInv, GroupsAreThere
      <4> QED  BY <1>0, <2>2, <4>1 DEF HasGroup
    <3> QED  BY <1>2, <3>1, <3>2
  <2>8. (\A i \in 1..(seen + 1) : environ[i].field \in GroupFields => HasGroup(found, environ[i]))
         => Len(out) = Len(found)
    <3> SUFFICES ASSUME \A i \in 1..(seen + 1) :
                          environ[i].field \in GroupFields => HasGroup(found, environ[i])
                 PROVE  Len(out) = Len(found)
      OBVIOUS
    <3>1. Len(groups) = Len(found)
      <4>1. \A i \in 1..seen : i \in 1..(seen + 1)
        BY <1>0
      <4> QED  BY <4>1 DEF PassInv, NoneIsNew
    <3>2. HasGroup(found, v)
      <4>1. seen + 1 \in 1..(seen + 1)
        BY <1>0
      <4> QED  BY <1>4, <4>1
    <3>3. \E j \in DOMAIN groups : SameGroup(groups[j].name, v.group)
      BY <1>0, <3>1, <3>2 DEF PassInv, NamesStay, HasGroup
    <3> QED  BY <2>1, <3>1, <3>3 DEF Effect
  <2>9. Len(found) <= Len(out) /\ \A j \in 1..Len(found) : j \in 1..Len(groups)
    BY <1>0, <2>2 DEF PassInv, NamesStay
  <2>10. \A j \in 1..Len(found) : out[j].name = found[j].name
    BY <2>2, <2>9 DEF PassInv, NamesStay
  <2>11. \A j \in 1..Len(found) : \A f \in GroupFields :
           out[j].fields[f] = found[j].fields[f]
           \/ \E i \in 1..(seen + 1) : /\ Sets(environ[i]) /\ environ[i].field = f
                                       /\ IsFirst(out, j, environ[i].group)
    <3> SUFFICES ASSUME NEW j \in 1..Len(found), NEW f \in GroupFields,
                        out[j].fields[f] # found[j].fields[f]
                 PROVE  \E i \in 1..(seen + 1) : /\ Sets(environ[i]) /\ environ[i].field = f
                                                 /\ IsFirst(out, j, environ[i].group)
      OBVIOUS
    <3>1. CASE j = k /\ f = v.field /\ Sets(v)
      <4>1. seen + 1 \in 1..(seen + 1)
        BY <1>0
      <4> QED  BY <2>2, <3>1, <4>1
    <3>2. CASE ~(j = k /\ f = v.field /\ Sets(v))
      <4>1. groups[j].fields[f] # found[j].fields[f]
        BY <2>1, <2>9, <3>2 DEF Effect
      <4>2. PICK i \in 1..seen : /\ Sets(environ[i]) /\ environ[i].field = f
                                 /\ IsFirst(groups, j, environ[i].group)
        BY <4>1 DEF PassInv, FieldsAreSet
      <4>3. i \in 1..(seen + 1)
        BY <1>0
      <4> QED  BY <2>3, <4>2, <4>3
    <3> QED  BY <3>1, <3>2
  <2>12. GroupsAreThere'
    BY <1>0, <2>7 DEF GroupsAreThere, HasGroup
  <2>13. NoneIsNew'
    BY <1>0, <2>8 DEF NoneIsNew, HasGroup
  <2>14. NamesStay'
    BY <1>0, <2>9, <2>10 DEF NamesStay
  <2>15. FieldsAreSet'
    BY <1>0, <2>11 DEF FieldsAreSet, IsFirst
  <2> QED  BY <2>4, <2>5, <2>6, <2>12, <2>13, <2>14, <2>15 DEF PassInv
<1> QED  BY <1>3, <1>4

\* A change of the operator's groups has a variable behind it.
LEMMA PassKeepsGroups ==
  ASSUME PassInv
  PROVE  OperatorGroupsStay
<1>1. /\ Len(found) \in Nat /\ DOMAIN found = 1..Len(found)
      /\ Len(groups) \in Nat /\ DOMAIN groups = 1..Len(groups)
  BY LenProperties DEF PassInv, EnvTypeOK
<1>2. \A k \in 1..Len(found) : k \in 1..Len(groups)
  BY <1>1 DEF PassInv, NamesStay
<1>3. \A i : \A k \in 1..Len(found) :
        IsFirst(groups, k, environ[i].group)
        => SameGroup(environ[i].group, found[k].name)
  BY SameGroupIsEquivalence DEF PassInv, NamesStay, IsFirst
<1> QED  BY <1>1, <1>2, <1>3 DEF PassInv, NamesStay, FieldsAreSet, OperatorGroupsStay

\* What a whole pass leaves: every known variable has its group, and wins there.
Laid(gs) ==
  /\ gs \in Seq(Groups)
  /\ \A i \in 1..Len(environ) : environ[i].field \in GroupFields => HasGroup(gs, environ[i])
  /\ \A i \in 1..Len(environ) : Wins(gs, Len(environ), i)

\* A whole pass leaves the variables laid over the groups.
LEMMA PassLays ==
  ASSUME PassInv, PassDone
  PROVE  Laid(groups)
BY DEF PassInv, PassDone, EnvTypeOK, VariablesWin, GroupsAreThere, Laid

\* A bounded set of indices that is not empty has a greatest one.
LEMMA GreatestIndex ==
  ASSUME NEW n \in Nat, NEW T \in SUBSET (1..n), T # {}
  PROVE  \E k \in T : \A j \in T : j <= k
<1> DEFINE U == {n - k : k \in T}
<1>1. U \in SUBSET Nat /\ U # {}
  <2>1. \A k \in T : n - k \in Nat
    OBVIOUS
  <2>2. PICK k \in T : TRUE
    OBVIOUS
  <2>3. n - k \in U
    BY <2>2
  <2> QED  BY <2>1, <2>3
<1>2. PICK u \in U : \A w \in U : u <= w
  <2> HIDE DEF U
  <2> QED  BY <1>1, LeastIndex
<1>3. PICK k \in T : u = n - k
  OBVIOUS
<1>4. \A j \in T : n - k <= n - j
  BY <1>2, <1>3
<1>5. ASSUME NEW j \in T PROVE j <= k
  <2>1. j \in Nat /\ k \in Nat /\ n - k <= n - j
    BY <1>4
  <2> HIDE DEF U
  <2> QED  BY <2>1
<1> QED  BY <1>5

\* A pass over groups that a whole pass over the same variables has left ends
\* with the groups it began with: the last variable for a field won then and
\* wins now.
LEMMA SecondPass ==
  ASSUME PassInv, PassDone, Laid(found)
  PROVE  groups = found
<1> DEFINE n == Len(environ)
<1>0. /\ groups \in Seq(Groups) /\ found \in Seq(Groups) /\ environ \in Seq(Variables)
      /\ n \in Nat /\ seen = n
  <2>1. groups \in Seq(Groups) /\ found \in Seq(Groups) /\ environ \in Seq(Variables)
    BY DEF PassInv, EnvTypeOK
  <2> QED  BY <2>1, LenProperties DEF PassDone
<1>1. Len(groups) = Len(found) /\ Len(found) \in Nat
      /\ DOMAIN groups = 1..Len(found) /\ DOMAIN found = 1..Len(found)
  <2>1. Len(groups) = Len(found)
    BY <1>0 DEF PassInv, NoneIsNew, Laid
  <2> QED  BY <1>0, <2>1, LenProperties
<1>2. \A k \in 1..Len(found) : groups[k].name = found[k].name
  BY DEF PassInv, NamesStay
<1>3. \A k, m : IsFirst(groups, k, m) <=> IsFirst(found, k, m)
  <2> SUFFICES ASSUME NEW k, NEW m PROVE IsFirst(groups, k, m) <=> IsFirst(found, k, m)
    OBVIOUS
  <2>1. CASE k \in 1..Len(found)
    <3>1. \A j \in 1..(k - 1) : j \in 1..Len(found)
      BY <1>1, <2>1
    <3> QED  BY <1>1, <1>2, <2>1, <3>1 DEF IsFirst
  <2>2. CASE k \notin 1..Len(found)
    BY <1>1, <2>2 DEF IsFirst
  <2> QED  BY <2>1, <2>2
<1>4. ASSUME NEW k \in 1..Len(found), NEW f \in GroupFields,
             groups[k].fields[f] # found[k].fields[f]
      PROVE  FALSE
  <2> DEFINE T == {i \in 1..n : /\ Sets(environ[i]) /\ environ[i].field = f
                                /\ IsFirst(groups, k, environ[i].group)}
  <2>1. T # {}
    BY <1>0, <1>4 DEF PassInv, FieldsAreSet
  <2>2. PICK i \in T : \A j \in T : j <= i
    <3>1. T \in SUBSET (1..n)
      OBVIOUS
    <3> HIDE DEF T, n
    <3> QED  BY <1>0, <2>1, <3>1, GreatestIndex
  <2>3. /\ i \in 1..n /\ Sets(environ[i]) /\ environ[i].field = f
        /\ IsFirst(groups, k, environ[i].group)
    BY <2>2
  <2>4. \A j \in (i + 1)..n : ~(Sets(environ[j]) /\ SetSame(environ[j], environ[i]))
    <3> SUFFICES ASSUME NEW j \in (i + 1)..n, Sets(environ[j]),
                        SetSame(environ[j], environ[i])
                 PROVE  FALSE
      OBVIOUS
    <3>1. j \in 1..n /\ ~(j <= i)
      BY <1>0, <2>3
    <3>2. IsFirst(groups, k, environ[j].group)
      BY <2>3, SameGroupIsEquivalence DEF SetSame, IsFirst
    <3>3. environ[j].field = f
      BY <2>3 DEF SetSame
    <3>4. j \in T
      BY <3>1, <3>2, <3>3
    <3> QED  BY <2>2, <3>1, <3>4
  <2>5. PICK a : IsFirst(groups, a, environ[i].group) /\ groups[a].fields[f] = environ[i].text
    <3>1. Wins(groups, n, i)
      BY <1>0, <2>3 DEF PassInv, VariablesWin
    <3> QED  BY <2>3, <2>4, <3>1 DEF Wins, IsFirst
  <2>6. PICK b : IsFirst(found, b, environ[i].group) /\ found[b].fields[f] = environ[i].text
    <3>1. Wins(found, n, i)
      BY <2>3 DEF Laid
    <3> QED  BY <2>3, <2>4, <3>1 DEF Wins, IsFirst
  <2>7. a = k /\ b = k
    BY <1>0, <1>3, <2>3, <2>5, <2>6, FirstIsUnique
  <2> QED  BY <1>4, <2>5, <2>6, <2>7
<1>5. \A k \in 1..Len(found) : groups[k] = found[k]
  <2> TAKE k \in 1..Len(found)
  <2>1. groups[k] \in Groups /\ found[k] \in Groups
    BY <1>0, <1>1, ElementOfSeq
  <2>2. \A f \in GroupFields : groups[k].fields[f] = found[k].fields[f]
    BY <1>4
  <2>3. groups[k].fields = found[k].fields
    BY <2>1, <2>2 DEF Groups, FieldValues
  <2> QED  BY <1>2, <2>1, <2>3 DEF Groups
<1> QED  BY <1>0, <1>1, <1>5, SeqEqual

-----------------------------------------------------------------------------
(***************************************************************************)
(* Another order of the same variables.                                    *)
(***************************************************************************)
\* What a whole pass leaves of an environment e: Laid(gs) for e in place of environ.
LaidBy(e, gs) ==
  /\ gs \in Seq(Groups)
  /\ \A i \in 1..Len(e) : e[i].field \in GroupFields => HasGroup(gs, e[i])
  /\ \A i \in 1..Len(e) :
       Sets(e[i]) /\ (\A j \in (i + 1)..Len(e) : ~(Sets(e[j]) /\ SetSame(e[j], e[i])))
       => \E k : IsFirst(gs, k, e[i].group) /\ gs[k].fields[e[i].field] = e[i].text

\* No two spellings of one variable say different things.
Consistent(e) ==
  \A i, j \in 1..Len(e) :
    Sets(e[i]) /\ Sets(e[j]) /\ SetSame(e[i], e[j]) => e[i].text = e[j].text

\* Where no spellings contradict, every variable has its way, wherever it stands.
LEMMA AllWin ==
  ASSUME NEW e \in Seq(Variables), Consistent(e), NEW gs, LaidBy(e, gs),
         NEW i \in 1..Len(e), Sets(e[i])
  PROVE  \E k : IsFirst(gs, k, e[i].group) /\ gs[k].fields[e[i].field] = e[i].text
<1> DEFINE n == Len(e)
           T == {j \in 1..n : Sets(e[j]) /\ SetSame(e[j], e[i])}
<1>1. n \in Nat
  BY LenProperties
<1>2. i \in T
  BY SameGroupIsEquivalence DEF SetSame
<1>3. PICK l \in T : \A j \in T : j <= l
  <2>1. T \in SUBSET (1..n)
    OBVIOUS
  <2> HIDE DEF T, n
  <2> QED  BY <1>1, <1>2, <2>1, GreatestIndex
<1>4. l \in 1..n /\ Sets(e[l]) /\ SetSame(e[l], e[i])
  BY <1>3
<1>5. \A j \in (l + 1)..n : ~(Sets(e[j]) /\ SetSame(e[j], e[l]))
  <2> SUFFICES ASSUME NEW j \in (l + 1)..n, Sets(e[j]), SetSame(e[j], e[l]) PROVE FALSE
    OBVIOUS
  <2>1. j \in 1..n /\ ~(j <= l)
    BY <1>1, <1>4
  <2>2. SetSame(e[j], e[i])
    BY <1>4, SameGroupIsEquivalence DEF SetSame
  <2> QED  BY <1>3, <2>1, <2>2
<1>6. PICK k : IsFirst(gs, k, e[l].group) /\ gs[k].fields[e[l].field] = e[l].text
  BY <1>4, <1>5 DEF LaidBy
<1>7. IsFirst(gs, k, e[i].group)
  BY <1>4, <1>6, SameGroupIsEquivalence DEF SetSame, IsFirst
<1>8. e[l].text = e[i].text /\ e[l].field = e[i].field
  BY <1>4 DEF Consistent, SetSame
<1> QED  BY <1>6, <1>7, <1>8

\* A process whose environment has the same variables in another order, or only
\* some of them, leaves the groups that it finds as they are, unless two spellings
\* of one variable contradict each other: the order of env::vars matters nowhere else.
THEOREM OrderMattersOnlyToContradictions ==
  ASSUME PassInv, PassDone,
         NEW e \in Seq(Variables), Consistent(e), LaidBy(e, found),
         \A i \in 1..Len(environ) : \E j \in 1..Len(e) : environ[i] = e[j]
  PROVE  groups = found
<1>1. \A i \in 1..Len(environ) : environ[i].field \in GroupFields => HasGroup(found, environ[i])
  BY DEF LaidBy
<1>2. ASSUME NEW i \in 1..Len(environ) PROVE Wins(found, Len(environ), i)
  <2>1. PICK j \in 1..Len(e) : environ[i] = e[j]
    OBVIOUS
  <2>2. Sets(e[j]) => \E k : /\ IsFirst(found, k, e[j].group)
                             /\ found[k].fields[e[j].field] = e[j].text
    BY AllWin
  <2> QED  BY <2>1, <2>2 DEF Wins, IsFirst
<1>3. Laid(found)
  BY <1>1, <1>2 DEF Laid, LaidBy
<1> QED  BY <1>3, SecondPass

=============================================================================
