-------------------------- MODULE MCExportPublication --------------------------
(* Two exports of ExportPublication. *)
EXTENDS ExportPublication

CONSTANTS d1, d2

MCExports == {d1, d2}
===============================================================================
