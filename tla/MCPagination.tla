---------------------------- MODULE MCPagination ----------------------------
(* A small instance of Pagination: four rows over two milliseconds.        *)
EXTENDS Pagination

CONSTANTS w1, w2

MCLimits == {1, 3, None}
=============================================================================
