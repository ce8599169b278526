----------------------------- MODULE EnrichMerge ----------------------------
(***************************************************************************)
(* How a mirror file is brought in line with what its types now want: the  *)
(* merge of one object literal into another, property by property, and on  *)
(* top of it the reconcile of a whole file.                                *)
(*                                                                         *)
(* A file is a record [items, crumb, imports]: its constants, live or      *)
(* commented out, the types its source breadcrumb imports (none only in a  *)
(* file that is not there) and the constants of other files it imports.    *)
(*                                                                         *)
(* An item carries the marker it was last given ("id", "ids").  "aged" is  *)
(* set when an item is restored under another marker than the one its body *)
(* was written for: no merge can see from then on what the body is for.    *)
(***************************************************************************)
EXTENDS EnrichClosure

HasKey(obj, key) == \E i \in DOMAIN obj.props : obj.props[i].key = key

At(obj, key) == obj.props[CHOOSE i \in DOMAIN obj.props : obj.props[i].key = key].val

IsObj(val) == val.is = "obj"

AreObjs(have, want, key) == HasKey(want, key) /\ IsObj(At(have, key)) /\ IsObj(At(want, key))

NodeMeta == {"rt$items", "rt$keys", "rt$values"}

Reserved(fam) ==
    NodeMeta \cup {"rt$slots", "rt$label", "rt$errors", "rt$length"}
             \cup (IF fam = "mock" THEN {"pool", "min", "max"} ELSE {})

Fields(fam, obj) == {obj.props[i].key : i \in DOMAIN obj.props} \ Reserved(fam)

(***************************************************************************)
(* An edit gives every property a fate and adds properties at the end.     *)
(* A property that is dropped or replaced takes its own comma with it, but *)
(* whether the additions need a comma first is read off the old text: if   *)
(* the last property had none and is gone, the comma stands alone.         *)
(***************************************************************************)
\* Mutant: what the type no longer has is deleted, not commented out.
Deleted(p) == [props |-> <<>>, dead |-> {}]

Kept(p)        == [props |-> <<p>>, dead |-> {}]
Dropped(p)     == [props |-> <<>>, dead |-> {p}]
Replaced(p, q) == [props |-> <<q>>, dead |-> {p}]

Rewrite(obj, fates, adds) ==
    LET left  == SelectSeq(fates, LAMBDA f : f.props # <<>>)
        kept  == [i \in DOMAIN left |-> Head(left[i].props)]
        isCut == Last(fates).dead # {}
    IN IF fates = <<>>
       THEN [obj EXCEPT !.props = adds, !.end = IF adds = <<>> THEN @ ELSE "comma"]
       ELSE [obj EXCEPT
                !.props = kept \o adds,
                !.dead  = @ \cup UNION {fates[i].dead : i \in DOMAIN fates},
                !.end   = CASE adds # <<>> -> IF @ = "bare" /\ isCut THEN "broken" ELSE "comma"
                            [] kept = <<>> -> "bare"
                            [] OTHER       -> IF isCut THEN "comma" ELSE @]

(***************************************************************************)
(* Where a merge is: the family, the path from the constant's root and the *)
(* ids the two markers give.                                               *)
(***************************************************************************)
Under(c, label) == [c EXCEPT !.path = Append(@, label)]

Identity(c, obj, key, ids) ==
    IF Append(c.path, key) \in DOMAIN ids THEN <<"id", ids[Append(c.path, key)]>>
    ELSE IF At(obj, key).is = "ref" THEN <<"ref", At(obj, key).var>>
    ELSE <<"none">>

\* Dropped and added fields of one identity, when no other field has it.
FieldRenames(have, want, c) ==
    LET drops == Fields(c.fam, have) \ Fields(c.fam, want)
        adds  == Fields(c.fam, want) \ Fields(c.fam, have)
        old(k) == Identity(c, have, k, c.have)
        new(k) == Identity(c, want, k, c.want)
    IN {r \in drops \X adds :
           /\ old(r[1])[1] # "none" /\ old(r[1]) = new(r[2])
           /\ \A k \in drops \ {r[1]} : old(k) # old(r[1])
           /\ \A k \in adds \ {r[2]} : new(k) # new(r[2])}

ChildTypeChanged(c, key) ==
    LET path == Append(c.path, key)
    IN path \in DOMAIN c.have \cap DOMAIN c.want /\ c.have[path] # c.want[path]

SameTemplate(a, b) == \A key \in NodeMeta \cup {"rt$slots"} : HasKey(a, key) <=> HasKey(b, key)

\* Mutant: an object is merged although its type is another, in mocks as well.
IsOutdatedUnlessObject(have, want, key, c) ==
    \/ IsObj(At(have, key)) # IsObj(At(want, key))
    \/ /\ ChildTypeChanged(c, key)
       /\ ~(/\ AreObjs(have, want, key)
            /\ SameTemplate(At(have, key), At(want, key)))

IsOutdated(have, want, key, c) ==
    \/ IsObj(At(have, key)) # IsObj(At(want, key))
    \/ /\ ChildTypeChanged(c, key)
       /\ ~(/\ c.fam = "friendly" /\ AreObjs(have, want, key)
            /\ SameTemplate(At(have, key), At(want, key)))

(***************************************************************************)
(* Error messages.  A lone rt$default is the author's choice and stays;    *)
(* what the type no longer declares is commented out if it is known to be  *)
(* a constraint; of a plural's arms only "other" is ever put back.         *)
(***************************************************************************)
KnownConstraints ==
    {"type", "minLength", "maxLength", "length", "pattern", "allowedChars", "disallowedChars",
     "allowedValues", "disallowedValues", "min", "max", "lt", "gt", "integer", "float",
     "multipleOf", "date", "time", "splitChar", "version"}

IsDefaultOnly(errors) == Len(errors.props) = 1 /\ HasKey(errors, "rt$default")

MergePlural(have, want) ==
    IF HasKey(have, "other") \/ ~HasKey(want, "other") THEN have
    ELSE Rewrite(have, [i \in DOMAIN have.props |-> Kept(have.props[i])],
                 SelectSeq(want.props, LAMBDA p : p.key = "other"))

\* Mutant: messages are added, none is ever taken out.
MergeErrorsAdding(have, want) ==
    IF IsDefaultOnly(have) \/ IsDefaultOnly(want) THEN have
    ELSE Rewrite(have, [i \in DOMAIN have.props |-> Kept(have.props[i])],
                 SelectSeq(want.props, LAMBDA p : ~HasKey(have, p.key)))

MergeErrors(have, want) ==
    LET fate(p) == IF AreObjs(have, want, p.key)
                   THEN Kept(P(p.key, MergePlural(p.val, At(want, p.key))))
                   ELSE IF ~HasKey(want, p.key) /\ p.key \in KnownConstraints THEN Dropped(p)
                   ELSE Kept(p)
    IN IF IsDefaultOnly(have) \/ IsDefaultOnly(want) THEN have
       ELSE Rewrite(have, [i \in DOMAIN have.props |-> fate(have.props[i])],
                    SelectSeq(want.props, LAMBDA p : ~HasKey(have, p.key)))

SlotLabel(i) == "rt$slots." \o ToString(i - 1)

RECURSIVE MergeWith(_, _, _, _)
MergeWith(have, want, c, renames) ==
    LET mine  == Fields(c.fam, have)
        yours == Fields(c.fam, want)
        merged(old, new, at) == MergeWith(old, new, at, FieldRenames(old, new, at))
        below(p) == merged(p.val, At(want, p.key), Under(c, p.key))
        slots(p) ==
            LET new == At(want, p.key).vals
                old == p.val.vals
            IN Arr([i \in DOMAIN old |->
                       IF i \in DOMAIN new /\ IsObj(old[i]) /\ IsObj(new[i])
                       THEN merged(old[i], new[i], Under(c, SlotLabel(i))) ELSE old[i]])
        field(p) ==
            CASE \E r \in renames : r[1] = p.key ->
                    Kept(P((CHOOSE r \in renames : r[1] = p.key)[2], p.val))
              [] p.key \in mine \ ({r[1] : r \in renames} \cup yours) -> Dropped(p)
              [] p.key \in yours /\ IsOutdated(have, want, p.key, c) ->
                    Replaced(p, P(p.key, At(want, p.key)))
              [] p.key \in yours \cup NodeMeta /\ AreObjs(have, want, p.key) ->
                    Kept(P(p.key, below(p)))
              [] p.key = "rt$errors" /\ AreObjs(have, want, p.key) ->
                    Kept(P(p.key, MergeErrors(p.val, At(want, p.key))))
              [] p.key = "rt$slots" /\ HasKey(want, p.key) -> Kept(P(p.key, slots(p)))
              [] OTHER -> Kept(p)
    IN Rewrite(have, [i \in DOMAIN have.props |-> field(have.props[i])],
               SelectSeq(want.props, LAMBDA p : p.key \in yours \ (mine \cup {r[2] : r \in renames})))

Merge(have, want, c) == MergeWith(have, want, c, FieldRenames(have, want, c))

\* Mutant: the marker is not refreshed.
MergeItemOnly(item, const) ==
    [item EXCEPT !.body = Merge(@, const.body[item.fam],
                                [fam |-> item.fam, path |-> <<>>,
                                 have |-> item.ids, want |-> const.ids])]

MergeItem(item, const) ==
    [item EXCEPT !.id = const.id, !.ids = const.ids,
                 !.body = Merge(@, const.body[item.fam],
                                [fam |-> item.fam, path |-> <<>>,
                                 have |-> item.ids, want |-> const.ids])]

(***************************************************************************)
(* Constants.  One whose name is no longer wanted and one that is newly    *)
(* wanted are the same type renamed if each is the other's best match, and *)
(* at least half of what they are made of agrees.                          *)
(***************************************************************************)
TopLevel(ids) == {path \in DOMAIN ids : Len(path) = 1 /\ path[1] \notin {SlotLabel(i) : i \in 1..4}}

\* A field of a type that is still there points at another id than it did.
Links(items, consts) ==
    LET last(i, path) ==
            ~\E l \in DOMAIN items : /\ l > i /\ items[l].live /\ items[l].type = items[i].type
                                     /\ path \in DOMAIN items[l].ids
        of(i, c) == {path \in DOMAIN items[i].ids \cap DOMAIN c.ids : last(i, path)}
    IN UNION {UNION {{<<items[i].ids[path], c.ids[path]>> : path \in of(i, c)}
                     : c \in {c \in Range(consts) : c.type = items[i].type}}
              : i \in {l \in DOMAIN items : items[l].live}}

Similarity(item, const, links) ==
    LET a == TopLevel(item.ids)
        b == TopLevel(const.ids)
        same == {path \in a \cap b : item.ids[path] = const.ids[path]}
    IN IF item.id = const.id \/ <<item.id, const.id>> \in links THEN [num |-> 1, den |-> 1]
       ELSE IF a \cup b = {} THEN [num |-> 0, den |-> 1]
       ELSE [num |-> Cardinality(a \cap b) + Cardinality(same),
             den |-> Cardinality(a) + Cardinality(b)]

IsMatch(s) == 2 * s.num >= s.den

ConstRenames(items, consts) ==
    LET wanted == {consts[j].var : j \in DOMAIN consts}
        drops  == {i \in DOMAIN items : items[i].live /\ items[i].var \notin wanted}
        adds   == {j \in DOMAIN consts :
                      ~\E i \in DOMAIN items : items[i].live /\ items[i].var = consts[j].var}
        links  == Links(items, consts)
        score(i, j) == Similarity(items[i], consts[j], links)
        less(s, t)  == s.num * t.den < t.num * s.den
        matches == {r \in drops \X adds : IsMatch(score(r[1], r[2]))}
        best(r, others) == \A o \in others \ {r} : less(score(o[1], o[2]), score(r[1], r[2]))
    IN {r \in matches : best(r, {o \in matches : o[1] = r[1] \/ o[2] = r[2]})}
=============================================================================
