--------------------------- MODULE MCJoyconDevice ---------------------------
(***************************************************************************)
(* The native device driven by one output report per class that the        *)
(* handlers distinguish: each report id, each sub-command with an effect   *)
(* on the status or behind byte 47, accepted and rejected arguments, one   *)
(* plain acknowledgement, one unsupported and one unknown sub-command.     *)
(***************************************************************************)
EXTENDS JoyconDevice

MCSubArgs ==
  {<<"01", "other">>, <<"02", "any">>, <<"05", "any">>, <<"other", "any">>,
   <<"03", "30">>, <<"03", "31">>, <<"03", "3F">>, <<"03", "00">>,
   <<"10", "part">>, <<"10", "full">>, <<"10", "over">>, <<"10", "header">>,
   <<"10", "long">>, <<"21", "21">>,
   <<"40", "0">>, <<"40", "1">>, <<"48", "0">>, <<"48", "1">>}

\* Player lights: none, and a mixture whose highest light counts.
MCLights == {{}, {1, 3}}

MCCommands ==
  {c \in AllCommands :
     \/ c.rid = "01" /\ <<c.sub, c.arg>> \in MCSubArgs
     \/ c.rid = "01" /\ c.sub = "30" /\ c.leds \in MCLights
     \/ c.rid = "80" /\ c.sub \in {"01", "04", "other"}
     \/ c.rid \in {"10", "11", "other"}}
=============================================================================
