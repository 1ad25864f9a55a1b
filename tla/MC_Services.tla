---------------------------- MODULE MC_Services ----------------------------
EXTENDS Services
\* Environments that differ in one thing from a plain one, or have no home.
Plain == [key |-> "None", home |-> TRUE, absolute |-> FALSE, told |-> FALSE, password |-> FALSE]
Environments ==
  {Plain,
   [Plain EXCEPT !.key = "Person"], [Plain EXCEPT !.key = "Unreadable"],
   [Plain EXCEPT !.absolute = TRUE, !.password = TRUE],
   [Plain EXCEPT !.home = FALSE], [Plain EXCEPT !.home = FALSE, !.told = TRUE]}
\* Wrappers of one project.
OneProject == [w \in Wrappers |-> CHOOSE p \in Projects : TRUE]
\* Jobs share an image, and foremen have another.
ImageByRole == [s \in Jobs \union Foremen |-> IF s \in Jobs THEN "Worker" ELSE "Foreman"]
============================================================================
