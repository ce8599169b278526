--------------------------- MODULE MCEnrichMirror ---------------------------
(***************************************************************************)
(* A small world for EnrichMirror: two source files and four versions of   *)
(* their types.                                                            *)
(***************************************************************************)
EXTENDS EnrichMirror

MCNames == {"User", "Account", "Admin", "Address", "Kind", "Rank"}

MCDisplay == [n \in MCNames |-> n]
MCFileOf  == [n \in MCNames |-> IF n = "Address" THEN "places" ELSE "people"]
MCDeclared == <<"Admin", "User", "Account", "Address", "Kind", "Rank">>

Leaf(tag, checks)  == [k |-> "leaf", tag |-> tag, checks |-> checks, parts |-> <<>>]
Enum(tag)          == [k |-> "enum", tag |-> tag, checks |-> {}, parts |-> <<>>]
Part(label, type)  == [label |-> label, type |-> type]
Record(parts)      == [k |-> "object", tag |-> "", checks |-> {}, parts |-> parts]
ArrayOf(type)      == [k |-> "array", tag |-> "", checks |-> {}, parts |-> <<Part("rt$items", type)>>]
Tuple(types)     == [k |-> "tuple", tag |-> "", checks |-> {},
                       parts |-> [i \in DOMAIN types |-> Part(SlotLabel(i), types[i])]]

Str == Leaf("string", {})
Num == Leaf("number", {})

WithTypes(some) == [n \in MCNames |-> IF n \in DOMAIN some THEN some[n] ELSE Gone]

Person(name, rest) == Record(<<Part("name", name), Part("home", Named("Address"))>> \o rest)

\* As first written.
First == WithTypes(
    [User    |-> Person(Leaf("string", {"minLength"}), <<Part("tags", ArrayOf(Str))>>),
     Admin   |-> Person(Num, <<>>),
     Address |-> Record(<<Part("street", Str), Part("kind", Named("Kind"))>>),
     Kind    |-> Enum("Kind")])

\* User and Kind have other names.
Renaming == WithTypes(
    [Account |-> First["User"],
     Admin   |-> First["Admin"],
     Address |-> Record(<<Part("street", Str), Part("kind", Named("Rank"))>>),
     Rank    |-> Enum("Rank")])

\* Fields have other names, types and constraints.
Reworking == WithTypes(
    [User    |-> Record(<<Part("name", Leaf("string", {"maxLength"})), Part("place", Named("Address")),
                          Part("tags", ArrayOf(Num)), Part("pair", Tuple(<<Str, Num>>))>>),
     Address |-> Record(<<Part("street", Num), Part("area", Record(<<Part("code", Str)>>))>>)])

\* A type reaches itself, a slot of the tuple is another, and Kind is back with
\* other members.
Recursion == WithTypes(
    [User    |-> Record(<<Part("name", Leaf("string", {"minLength", "maxLength"})),
                          Part("friend", Named("User")), Part("place", Named("Address")),
                          Part("pair", Tuple(<<Record(<<Part("code", Str)>>), Num>>))>>),
     Address |-> Record(<<Part("street", Str), Part("area", Record(<<Part("code", Num)>>)),
                          Part("kind", Named("Kind"))>>),
     Kind    |-> Enum("Kind, with a member more")])

MCRoots == {"User", "Account"}

MCBothRoots == {"User", "Admin"}

MCVersions == {"first", "renaming", "reworking", "recursion"}

MCDeclares == [v \in MCVersions |-> CASE v = "first"     -> First
                                      [] v = "renaming"  -> Renaming
                                      [] v = "reworking" -> Reworking
                                      [] v = "recursion" -> Recursion]

\* From reworking, Kind comes back under the id it had or under another.
MCEdits == {<<"first", "renaming">>, <<"first", "reworking">>, <<"reworking", "recursion">>,
            <<"reworking", "first">>}
=============================================================================
