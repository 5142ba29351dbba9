--------------------------- MODULE MCImportDialog ---------------------------
(* Model-checking definitions for ImportDialog. *)
EXTENDS ImportDialog
=============================================================================
