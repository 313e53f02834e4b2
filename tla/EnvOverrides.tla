---------------------------- MODULE EnvOverrides ----------------------------
(***************************************************************************)
(* apply_env_overrides (cli/src/utils/env_overrides.rs) on the user groups *)
(* of the config: a pass over the environment, one variable after another, *)
(* that finds the group a SET_GROUP_ variable is about, or creates it, and *)
(* sets one of its fields.                                                 *)
(*                                                                         *)
(* A name is the sequence of the words between its underscores, without    *)
(* the prefix.  A variable is recorded by the group and the field it was   *)
(* written for; the code sees only the name they make together.            *)
(***************************************************************************)
EXTENDS Naturals, Sequences

CONSTANTS
  Words,
  Lower,         \* each word in lower case
  GroupFields,   \* GROUP_FIELDS, as names
  Texts,
  Parses,        \* the texts that each field's parse accepts
  DefaultFields  \* UserGroup::default()

Names == Seq(Words) \ {<<>>}
FieldValues == {w \in [GroupFields -> Texts] : \A f \in GroupFields : w[f] \in Parses[f]}
Groups == [name : Names, fields : FieldValues]

Ends(name, f) ==
  /\ Len(f) < Len(name)
  /\ \A k \in 1..Len(f) : f[k] = name[Len(name) - Len(f) + k]

Name(v) == v.group \o v.field

FieldsOf(name) == {f \in GroupFields : Ends(name, f)}

\* A name that ends in a known field is recorded as one for that field.
Variables ==
  {v \in [group : Names, field : Names, text : Texts] :
     v.field \in GroupFields \/ FieldsOf(Name(v)) = {}}

ASSUME OverridesAssumption ==
  /\ Lower \in [Words -> Words]
  /\ GroupFields \subseteq Names
  /\ \A f, g \in GroupFields : ~Ends(f, g)
  /\ Parses \in [GroupFields -> SUBSET Texts]
  /\ DefaultFields \in FieldValues

VARIABLES
  environ,  \* the SET_GROUP_ variables, in the order of env::vars
  groups,   \* user_groups of the config in memory
  seen,     \* how many of the variables the pass has been through
  found     \* history: the groups that the pass began with

envVars == <<environ, groups, seen, found>>

-----------------------------------------------------------------------------
Longest(F) == CHOOSE f \in F : \A g \in F : Len(g) <= Len(f)

SplitAtFirst(name) ==      \* variant: splitn(2, '_')
  IF Tail(name) \in GroupFields
  THEN {[group |-> SubSeq(name, 1, 1), field |-> Tail(name)]}
  ELSE {}

\* At most one way to take the name apart, none if it ends in no known field.
split_group_var(name) ==
  IF FieldsOf(name) = {} THEN {}
  ELSE LET f == Longest(FieldsOf(name))
       IN {[group |-> SubSeq(name, 1, Len(name) - Len(f)), field |-> f]}

eq_ignore_ascii_case(m, n) ==
  Len(m) = Len(n) /\ \A k \in 1..Len(m) : Lower[m[k]] = Lower[n[k]]

\* The place of the first group of this name.
Position(gs, name) ==
  LET at == {k \in DOMAIN gs : eq_ignore_ascii_case(gs[k].name, name)}
  IN CHOOSE k \in at : \A j \in at : k <= j

CreatedAnyway(gs, name) == \* variant: a variable's group is made without a look
  Append(gs, [name |-> name, fields |-> DefaultFields])

FoundByExactCase(gs, name) ==  \* variant: position(|g| g.name == group_name)
  IF \E k \in DOMAIN gs : gs[k].name = name THEN gs
  ELSE Append(gs, [name |-> name, fields |-> DefaultFields])

WithGroup(gs, name) ==
  IF \E k \in DOMAIN gs : eq_ignore_ascii_case(gs[k].name, name) THEN gs
  ELSE Append(gs, [name |-> name, fields |-> DefaultFields])

Unparsed(f, text, current) ==  \* variant: the text as it is
  text

ParseOrDefault(f, text, current) ==  \* variant: parse().unwrap_or(default)
  IF text \in Parses[f] THEN text ELSE DefaultFields[f]

parse_or_keep(f, text, current) ==
  IF text \in Parses[f] THEN text ELSE current

SetField(gs, k, f, text) ==
  [gs EXCEPT ![k].fields[f] = parse_or_keep(f, text, gs[k].fields[f])]

\* What one variable makes of the groups.
Overridden(gs, v) ==
  IF split_group_var(Name(v)) = {} THEN gs
  ELSE LET s == CHOOSE s \in split_group_var(Name(v)) : TRUE
           with == WithGroup(gs, s.group)
       IN SetField(with, Position(with, s.group), s.field, v.text)

BeginPass(gs) ==
  /\ groups' = gs
  /\ found' = gs
  /\ seen' = 0
  /\ UNCHANGED environ

Apply ==
  /\ seen < Len(environ)
  /\ groups' = Overridden(groups, environ[seen + 1])
  /\ seen' = seen + 1
  /\ UNCHANGED <<environ, found>>

PassDone == seen = Len(environ)

\* The config in memory goes with the process.
EndPass ==
  /\ groups' = <<>> /\ found' = <<>> /\ seen' = 0
  /\ UNCHANGED environ

-----------------------------------------------------------------------------
(***************************************************************************)
(* Properties.                                                             *)
(***************************************************************************)
EnvTypeOK ==
  /\ environ \in Seq(Variables)
  /\ groups \in Seq(Groups)
  /\ seen \in 0..Len(environ)
  /\ found \in Seq(Groups)

InLowerCase(n) == [k \in DOMAIN n |-> Lower[n[k]]]

SameGroup(m, n) == InLowerCase(m) = InLowerCase(n)

\* A variable that sets something, and whether it sets the same as another.
Sets(v) == v.field \in GroupFields /\ v.text \in Parses[v.field]
SetSame(v, w) == SameGroup(v.group, w.group) /\ v.field = w.field

\* gs has what variable i of the first n says, unless a later one says otherwise.
Wins(gs, n, i) ==
  LET v == environ[i] IN
  Sets(v) /\ (\A j \in (i + 1)..n : ~(Sets(environ[j]) /\ SetSame(environ[j], v)))
  => \E k \in DOMAIN gs :
       /\ SameGroup(gs[k].name, v.group)
       /\ \A j \in 1..(k - 1) : ~SameGroup(gs[j].name, v.group)
       /\ gs[k].fields[v.field] = v.text

\* "An environment variable always wins" (README.md:353), for a group that the
\* file has, that an earlier variable has created, or that nothing has named
\* before, with any number of words in its name and in any case.
VariablesWin == \A i \in 1..seen : Wins(groups, seen, i)

\* However the variables spell a group, the pass makes it once: a group that it
\* created has the name of no other.
NoTwinGroups ==
  \A j \in DOMAIN groups : j > Len(found) =>
    \A i \in 1..(j - 1) : ~SameGroup(groups[i].name, groups[j].name)

\* "Fields no environment variable covers are never touched" (README.md:358):
\* the groups of the file keep their places, their names, and every field that
\* no variable of the pass sets in them.
OperatorGroupsStay ==
  \A k \in DOMAIN found :
    /\ k \in DOMAIN groups
    /\ groups[k].name = found[k].name
    /\ \A f \in GroupFields :
         groups[k].fields[f] = found[k].fields[f]
         \/ \E i \in 1..seen : /\ Sets(environ[i])
                               /\ SameGroup(environ[i].group, found[k].name)
                               /\ environ[i].field = f

=============================================================================
