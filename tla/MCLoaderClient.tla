--------------------------- MODULE MCLoaderClient ---------------------------
(* Two root entries, paths and internal calls tell a first attempt from a  *)
(* second and a part of the patches from all; one managed thread is of the *)
(* pool and one is not.                                                    *)
EXTENDS LoaderClient
=============================================================================
