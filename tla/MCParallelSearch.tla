-------------------------- MODULE MCParallelSearch --------------------------
(***************************************************************************)
(* An instance of ParallelSearch: three providers, pages in two spellings, *)
(* an empty answer and one with context alone.                             *)
(***************************************************************************)
EXTENDS ParallelSearch

MCFound(sources) == [context |-> TRUE, sources |-> sources, entries |-> sources]

MCResults == {
  Empty,
  [Empty EXCEPT !.context = TRUE],
  MCFound(<< <<"a", 1>> >>),
  MCFound(<< <<"b", 1>>, <<"", 1>>, <<"a", 2>> >>),
  MCFound(<< <<"a", 2>>, <<"c", 1>>, <<"a", 1>> >>),
  [context |-> TRUE, sources |-> << <<"c", 2>>, <<"d", 1>> >>, entries |-> << <<"c", 2>> >>]}
=============================================================================
