--------------------------- MODULE MCImportExecution ---------------------------
(* One import of two artifacts. *)
EXTENDS ImportExecution

CONSTANTS o1, r1, r2

MCImports == {o1}
MCRefs == {r1, r2}
MCContested == {r1}
MCMappings == {<<r1, r2>>, <<r2, r2>>}
===============================================================================
