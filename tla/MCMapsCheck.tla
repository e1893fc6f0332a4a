---------------------------- MODULE MCMapsCheck ----------------------------
(***************************************************************************)
(* An instance of MapsCheck: a backend of every kind.                      *)
(***************************************************************************)
EXTENDS MapsCheck

MCBackends == <<"2gis", "yandex", "geocoder", "dadata">>
=============================================================================
