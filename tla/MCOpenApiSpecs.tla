---------------------------- MODULE MCOpenApiSpecs ----------------------------
(* A small instance of OpenApiSpecs for TLC. *)
EXTENDS OpenApiSpecs, TLC

\* As SQLite sorts them: capitals come before the other letters and "{" after
\* them.  The third has a trailing slash.
SortedPaths == << <<"Users", "{id}">>, <<"users", "me">>, <<"users", "me", "">>, <<"{any}", "me">> >>
ParamSegments == {"{id}", "{any}"}
LowerCase(segment) == IF segment = "Users" THEN "users" ELSE segment

Content(name, refs, responses) == [name |-> name, refs |-> refs, responses |-> responses]
\* Codes with a schema and without, of success and others; one content refers.
Full == [s \in {"200", "201", "204", "2XX"} |-> s \in {"200", "2XX"}]
SmallContents == {Content("a", TRUE, Full), Content("a", FALSE, Full),
                  Content("b", FALSE, [s \in {"204", "404", "default"} |-> s # "204"])}

\* Users and ids are only compared with each other.
Symmetry == Permutations(Users) \cup Permutations(Ids)
=============================================================================
