--------------------------- MODULE MCUploadForms ---------------------------
(* Two files, selected or dropped alone or together, and a file the form refuses. *)
EXTENDS UploadForms

CONSTANTS f, g

MCFiles == {f, g}
MCPicks == [files: {{f}, {f, g}}, fit: {TRUE}] \cup [files: {{g}}, fit: {FALSE}]
=============================================================================
