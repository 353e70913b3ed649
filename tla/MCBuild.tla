-------------------------------- MODULE MCBuild --------------------------------
(***************************************************************************)
(* Two programs of one unit each and the runtime, headers that are listed  *)
(* in the Makefile and one that is not.                                    *)
(***************************************************************************)
EXTENDS Build, TLC

TwoPrograms == "tcc" :> {"tcc"} @@ "tld" :> {"tld"}
TheHeaders  == {"tcc_need", "elf", "tcc"}
TheSeeds    == <<"tcc", "tld">>

Listeds     == {Src("tcc"), Src("tcc_rt_start"), Hdr("tcc_need")}
LoudFaults  == {<<"tcc", "mistake">>, <<"tcc", "memory">>, <<"tas", "open">>, <<"tld", "read">>,
                <<"tcc", "create">>, <<"tld", "create">>, <<"tcc", "write">>, <<"tas", "write">>,
                <<"tld", "write">>, <<"cp", "write">>, <<"make", "signal">>}

(* The theorem about BuiltFromSources assumes this of its constants.       *)
ASSUME OrderlyAssumption == Orderly

(* A header that includes others is edited; an included file cannot be     *)
(* read; what tas reads ends early or has a mistake.                       *)
Unlisted    == {Hdr("tcc")}
TccQuiet    == {<<"tcc", "header">>}
TasQuiet    == {<<"tas", "read">>, <<"tas", "mistake">>}
=============================================================================
