------------------------------ MODULE MCQueries ------------------------------
(* The instance of MCRuneLedger for the queries; heights and confirmations *)
(* are counted modulo a small number.                                      *)
EXTENDS Queries, MCRuneLedger
=============================================================================
