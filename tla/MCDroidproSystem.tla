-------------------------- MODULE MCDroidproSystem --------------------------
(* The whole program with one console, which may ask for the push.          *)
EXTENDS DroidproSystem

Standard == Cmd("01", "03", "30", {})
Unknown  == Cmd("other", "any", "any", {})

SystemCommands == {Standard, Unknown}
=============================================================================
