----------------------------- MODULE MCStartup -----------------------------
(***************************************************************************)
(* Startup for TLC: two fields of a group, one of one word that takes any  *)
(* text and one of three that takes a Boolean; variables with two          *)
(* spellings of a group of two words that is not there yet, in both        *)
(* orders, a text that does not parse, and a name that ends in no field.   *)
(***************************************************************************)
EXTENDS Startup

MCLower ==
  [w \in {"MY", "My", "my", "FRIENDS", "friends", "ADMIN", "Admin", "admin",
          "PASSWORD", "CAN", "EDIT", "BASE", "LEVEL"} |->
     CASE w \in {"MY", "My"} -> "my"
       [] w = "FRIENDS" -> "friends"
       [] w \in {"ADMIN", "Admin"} -> "admin"
       [] OTHER -> w]
MCWords == DOMAIN MCLower

Password == <<"PASSWORD">>
CanEditBase == <<"CAN", "EDIT", "BASE">>
MCGroupFields == {Password, CanEditBase}

Bools == {"true", "false"}
MCTexts == Bools \cup {"secret", "yes"}
MCParses == [f \in MCGroupFields |-> IF f = Password THEN MCTexts ELSE Bools]

Fields(p, b) == [f \in MCGroupFields |-> IF f = Password THEN p ELSE b]
MCDefaultFields == Fields("true", "true")

Admin(b) == [name |-> <<"Admin">>, fields |-> Fields("true", b)]
MyFriends == [name |-> <<"My", "FRIENDS">>, fields |-> Fields("true", "false")]
MCDefaultGroups == <<Admin("true")>>
MCOperatorFiles == {<<MyFriends, Admin("false")>>}

Var(g, f, t) == [group |-> g, field |-> f, text |-> t]
MyPassword == Var(<<"MY", "FRIENDS">>, Password, "secret")
myPassword == Var(<<"my", "FRIENDS">>, Password, "yes")
MyBase == Var(<<"my", "FRIENDS">>, CanEditBase, "false")
AdminBase == Var(<<"admin">>, CanEditBase, "false")
Unparsable == Var(<<"ADMIN">>, CanEditBase, "yes")
Unknown == Var(<<"ADMIN">>, <<"LEVEL">>, "true")
MCEnvirons == {
  <<>>,
  <<MyPassword, Unparsable, myPassword>>,
  <<MyBase, Unparsable, AdminBase>>,
  <<Unknown, myPassword, MyPassword>>}
=============================================================================
