---------------------------- MODULE MCPagination ----------------------------
(* A small list for Pagination: a null, a page with several resources, and  *)
(* more empty pages in a row than the iterator puts up with.                *)
EXTENDS Pagination

MCPages == << <<1, Null>>, <<>>, <<2, 3>>, <<>>, <<>>, <<4>> >>

=============================================================================
