------------------------------- MODULE MCMap --------------------------------
(***************************************************************************)
(* Key sets for MapSpec, with characters 1 and 2.                          *)
(***************************************************************************)
EXTENDS MapSpec

\* With two buckets <<1>>, <<2, 1>> and <<2, 2, 1>> share one, and <<1, 1>>, of
\* which <<1>> is a prefix, has the other.
ApartKeys == {<<1>>, <<1, 1>>, <<2, 1>>, <<2, 2, 1>>}

\* <<1, 2>> and <<1>> share a bucket, and <<1>> is a prefix of <<1, 2>>.
PrefixKeys == {<<1>>, <<1, 2>>}
=============================================================================
