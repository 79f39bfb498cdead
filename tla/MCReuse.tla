-------------------------------- MODULE MCReuse --------------------------------
(* The two caches, the report cache of `scan` and the result cache of the other *)
(* commands, over the same small install.                                       *)
EXTENDS AnalysisReports, ResultCache, TLC

MCModOf == [h1 |-> "core", h2 |-> "core", w |-> "mod", m |-> "core", v |-> "core", f |-> "core"]
MCHome == [h1 |-> "ships", h2 |-> "ships", w |-> "guns", m |-> "mods", v |-> "v", f |-> "f"]
MCRows == [h1 |-> {1, 2}, h2 |-> {1}, w |-> {1, 2}, m |-> {1, 2}, v |-> {1, 2}, f |-> {1, 2}]
MCLoadout == [v |-> << [hull |-> "h1", parts |-> {"w", "m"}], [hull |-> "h2", parts |-> {"w"}] >>]
MCKnown == [f |-> << {"h1"}, {"h1", "h2"} >>]
Installed == [file \in Files |-> 1]
================================================================================
