---------------------------- MODULE MCPagination ----------------------------
(***************************************************************************)
(* Four keys; pages of one, two (the default) or three (the maximum, of    *)
(* four asked for); entries that never expire or do so at block 1.         *)
(***************************************************************************)
EXTENDS Pagination

MCExpirations == {{}, {1}}
=============================================================================
