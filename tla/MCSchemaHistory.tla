-------------------------- MODULE MCSchemaHistory --------------------------
(* Versions with undo scripts and a repeatable script; the files are       *)
(* plain, tagged as a group, or a generated set of parts, tagged or not.   *)
EXTENDS SchemaHistory
Names == {"V1", "V2", "V3", "U1", "U2", "U3", "R"}
Kinds == [s \in Names |-> IF s = "R" THEN "REPEATABLE" ELSE IF s \in {"U1", "U2", "U3"} THEN "UNDO_SQL" ELSE "SQL"]
Numbers == [s \in Names |-> IF s \in {"V1", "U1"} THEN 1 ELSE IF s \in {"V2", "U2"} THEN 2 ELSE IF s = "R" THEN 0 ELSE 3]
Files(versions) == {s \in Names : Numbers[s] \in versions}
Plain == [present |-> Files(1..2), edited |-> {"V2"}, tagged |-> {}, parts |-> <<>>, paired |-> FALSE]
Parts == [Plain EXCEPT !.present = Files(1..3), !.edited = {"V2"}, !.parts = <<"V2", "V3">>]
Grouped == {Plain, [Plain EXCEPT !.present = Files({0, 1}), !.edited = {"V1", "R"}],
            [Plain EXCEPT !.present = Files(1..3), !.edited = {"V1"}, !.tagged = {1, 3}],
            Parts, [Parts EXCEPT !.paired = TRUE], [Parts EXCEPT !.paired = TRUE, !.tagged = {2, 3}]}
Ask(t, vs, st) == [target |-> t, versions |-> vs, strict |-> st]
Asked == {Ask(0, 1..3, FALSE), Ask(0, 1..3, TRUE), Ask(1, 1..3, FALSE), Ask(0, {2}, FALSE), Ask(0, {1}, TRUE)}
=============================================================================
