------------------------------- MODULE MCSlob -------------------------------
(* Five pages of six units, in two zones with a hole between them: small    *)
(* objects, which may span two pages once these have been merged, one that  *)
(* slob_alloc refuses, large objects of one and two pages, and other        *)
(* callers that take one to three pages.                                    *)
EXTENDS Slob

TwoZones == << <<0, 4>>, <<5, 1>> >>

=============================================================================
