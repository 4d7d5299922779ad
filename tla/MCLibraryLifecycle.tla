------------------------ MODULE MCLibraryLifecycle ------------------------
(* LibraryLifecycle on small sets of operations, switchers and closers.    *)
EXTENDS LibraryLifecycle
=============================================================================
