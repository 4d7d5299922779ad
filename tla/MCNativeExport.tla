--------------------------- MODULE MCNativeExport ---------------------------
(* NativeExport with a few export requests.                                *)
EXTENDS NativeExport
=============================================================================
