------------------------------ MODULE MCListPage ------------------------------
(* The list page for TLC.                                                  *)
EXTENDS ListPage
=============================================================================
