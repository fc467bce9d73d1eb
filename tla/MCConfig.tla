------------------------------ MODULE MCConfig ------------------------------
(* Config on a small instance.                                             *)
EXTENDS Config

CONSTANTS h1, h2

(* A path with a backslash is no TOML as it stands; "lines" is a level, a  *)
(* quote and further lines.                                                *)
SomeTexts == {"", "TRACE", "DEBUG", "slash", "lines"}

SomeReadBack ==
  [t \in SomeTexts |-> CASE t = "slash" -> "broken" [] t = "lines" -> "DEBUG"
                         [] t \notin {"slash", "lines"} -> t]

(* The further lines are no TOML, or a table that all settings fall into.  *)
SomeRemains ==
  {[parses |-> parses, others |-> FALSE, check |-> "missing"] : parses \in BOOLEAN}

Saved == [FirstFile EXCEPT !.level = "TRACE", !.check = "off"]

(* A file that says both settings, one that says neither, one whose level  *)
(* has a line that processLines does not find, one with a mistake, and one *)
(* with a path in the place of the level, escaped as it has to be.         *)
SomeEdits ==
  {Saved, [Saved EXCEPT !.level = "missing", !.check = "missing"],
   [Saved EXCEPT !.odd = TRUE], [Saved EXCEPT !.parses = FALSE],
   [Saved EXCEPT !.level = "slash"]}

(* One field at a time, as the web interface sends them; a path that is no *)
(* TOML as it stands, and a text of several lines.                         *)
SomeBodies ==
  {[level |-> "TRACE", check |-> "absent"], [level |-> "absent", check |-> "off"],
   [level |-> "slash", check |-> "on"], [level |-> "lines", check |-> "absent"]}
=============================================================================
