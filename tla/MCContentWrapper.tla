-------------------------- MODULE MCContentWrapper --------------------------
(* Instances of ContentWrapper for TLC. *)
EXTENDS ContentWrapper

CONSTANTS a, b

\* One content below the threshold of 2 and one at it.
Contents == {<<a>>, <<b, b>>}

=============================================================================
