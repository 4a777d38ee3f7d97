----------------------------- MODULE MCGnssHwInit -----------------------------
(***************************************************************************)
(* Values for model checking GnssHwInit.                                   *)
(***************************************************************************)
EXTENDS GnssHwInit

(* No u-blox device, one behind another device, and two of which the first *)
(* counts.                                                                 *)
MCBuses ==
    {<<>>, <<"foreign">>, <<"foreign", "ublox7">>, <<"ublox8", "ublox7">>,
     <<"ubloxOther">>}
=============================================================================
